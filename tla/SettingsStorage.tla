---------------------------- MODULE SettingsStorage ----------------------------
(***************************************************************************)
(* The settings in memory, the data package and data.json                  *)
(* (storage/operon-storage.ts, operon-data-package-store.ts,               *)
(* pinned-cache.ts).  Three queues share one file: settingsSaveQueue runs   *)
(* saves, updates and reloads one after another, PinnedCache.mutationQueue *)
(* the pins, and both go through saveQueue of the data package store.      *)
(* Stores of single settings change the settings at once and then queue a  *)
(* save; updateSettings changes them in its turn and takes that back when  *)
(* the save fails.  Obsidian Sync replaces data.json at any time, by a     *)
(* package of another device, one of an older version, one with a broken   *)
(* pipeline taxonomy, JSON that is no package, or something unreadable.    *)
(*                                                                         *)
(* Values of settings are the numbers of the edits that made them.  One    *)
(* task is pinned or not, with the time of that change.  Table presets are *)
(* file-backed (the legacy store is in TablePresetMigration), and the      *)
(* span is shorter than the retention of tombstones.                       *)
(***************************************************************************)
EXTENDS Naturals, Sequences

CONSTANTS
    Fields,   \* settings
    Nothing,  \* no record
    Bounds    \* edits, pins, Syncs, reloads, and faults: failures and restarts

Kinds == {"edits", "pins", "syncs", "reloads", "faults"}

ASSUME SettingsStorageAssumption == Bounds \in [Kinds -> Nat]

VARIABLES
    phase,     \* "off", "reading", "saving", "running"
    disk,      \* data.json
    backups,   \* the contents that *.invalid-*.bak files hold
    settings,  \* this.settings
    package,   \* the data package in memory: what is committed
    cache,     \* the pin of PinnedCache
    paused,    \* writesSuspended: "no", "read" or "explicit"
    jobs,      \* settingsSaveQueue, its head running when busy
    busy,
    snapshot,  \* what the running save has built
    previous,  \* what a failed update restores
    pins,      \* PinnedCache.mutationQueue
    pinned,    \* the time of the pin change that is running, or 0
    store,     \* saveQueue: "settings" and "pin"
    step,      \* of its head: "idle", "backup", "staged", "preserve", "write"
    loaded,    \* the contents of data.json that a reload or the startup has read
    next,      \* the package about to be written or committed
    clock,     \* numbers edits, pins and Syncs
    left,      \* how much of each bound is left
    acked,     \* history: the value of the last update of a field that was saved
    held,      \* history: the time of the last pin change that was saved
    unread,    \* history: the plugin found that it must not overwrite the contents of disk
    foreign,   \* history: data.json is not what the memory was read from or written to:
               \* Sync has replaced it, or the startup failed to read it
    unsaved    \* history: the last save of directly changed settings failed

queues  == <<jobs, busy, snapshot, previous, pins, pinned, store, step, loaded, next>>
memory  == <<settings, package, cache, paused, queues>>
history == <<acked, held, unread, foreign, unsaved>>
vars    == <<phase, disk, backups, memory, clock, left, history>>

----------------------------------------------------------------------------
(* Packages *)

NoPin    == [at |-> 0, on |-> FALSE]
Defaults == [vals |-> [f \in Fields |-> 0], pin |-> NoPin, favorites |-> TRUE, bad |-> FALSE]

\* pickNewerPinnedTaskEntry: the newer change, and a pin before an unpin.
Newer(p, q) == IF p.at > q.at \/ (p.at = q.at /\ p.on) THEN p ELSE q

\* mergeOperonDataPackage: what the package lacks comes from the fallback, its
\* pin is merged, and favorites it lacks stay out.
Merge(p, fallback) ==
    [p EXCEPT !.vals = [f \in Fields |-> IF f \in DOMAIN p.vals THEN p.vals[f] ELSE fallback.vals[f]],
              !.pin = Newer(@, fallback.pin)]

\* normalizePipelineTaxonomySlice
Normal(p) == [p EXCEPT !.bad = FALSE]

\* buildOperonDataPackageFromSettings
Build == [vals |-> settings, pin |-> cache, favorites |-> TRUE, bad |-> FALSE]

\* Variant: the package in memory is replaced as a whole.
Rebased_Whole(built) == built

\* The mutator of persistSettings: pins are merged with those committed meanwhile.
Rebased(built) == [built EXCEPT !.pin = Newer(package.pin, @)]

Readable == disk.form = "package"

\* loadExistingPackage: a startup takes JSON that is no object for no file at all.
Absent   == disk.form \in {"missing", "other"}

Spend(kind) == left[kind] > 0 /\ left' = [left EXCEPT ![kind] = @ - 1]
Fault(ok) == IF ok THEN UNCHANGED left ELSE Spend("faults")

Job(kind, f, v) == [kind |-> kind, field |-> f, value |-> v]
Save(kind)      == Job(kind, Nothing, 0)

----------------------------------------------------------------------------
(* data.json: every write comes from the head of saveQueue or the startup *)

File(p) == [form |-> "package", id |-> 0, pkg |-> p]

Written(p) == /\ disk' = File(p)
              /\ foreign' = FALSE /\ unread' = FALSE

\* readCanonicalBackupSource and preserveInvalidJsonFile: the file as it is now,
\* or what was read before when there is none.
BackedUp == backups' = backups \cup {IF disk.form = "missing" THEN loaded ELSE disk}

\* suspendWritesForReadFailure
Unreadable == unread' = TRUE /\ paused' = "read"

\* The head of saveQueue has ended.
Release == store' = Tail(store) /\ step' = "idle" /\ next' = Nothing

Init ==
    /\ phase = "off" /\ backups = {}
    /\ disk = [form |-> "missing", id |-> 0, pkg |-> Defaults]
    /\ settings = Defaults.vals /\ package = Defaults /\ cache = NoPin /\ paused = "no"
    /\ jobs = <<>> /\ busy = FALSE /\ snapshot = Nothing /\ previous = Nothing
    /\ pins = <<>> /\ pinned = 0 /\ store = <<>> /\ step = "idle"
    /\ loaded = Nothing /\ next = Nothing
    /\ clock = 0 /\ left = Bounds
    /\ acked = Defaults.vals /\ held = 0
    /\ unread = FALSE /\ foreign = FALSE /\ unsaved = FALSE

----------------------------------------------------------------------------
(* Startup: OperonStorage.initialize *)

Start ==
    /\ phase = "off"
    /\ phase' = "reading"
    /\ UNCHANGED <<disk, backups, memory, clock, left, history>>

\* hydrateFromDataPackage, then a save that passes over suspended writes.
Hydrate(p) ==
    /\ package' = p /\ settings' = p.vals /\ cache' = p.pin
    /\ jobs' = <<Save("initial")>>
    /\ phase' = "saving"
    /\ UNCHANGED <<busy, snapshot, previous, pins, pinned, store, unsaved>>

ReadStartup(ok) ==
    /\ phase = "reading" /\ step = "idle"
    /\ Fault(ok)
    /\ CASE ok /\ Absent ->
                /\ Hydrate(Defaults) /\ foreign' = FALSE /\ unread' = FALSE
                /\ UNCHANGED <<paused, step, loaded>>
         [] ok /\ Readable /\ ~disk.pkg.bad ->
                /\ Hydrate(Merge(disk.pkg, Defaults)) /\ foreign' = FALSE /\ unread' = FALSE
                /\ UNCHANGED <<paused, step, loaded>>
         [] ok /\ Readable /\ disk.pkg.bad ->
                /\ loaded' = disk /\ step' = "backup"
                /\ unread' = TRUE /\ foreign' = FALSE
                /\ UNCHANGED <<phase, settings, package, cache, paused, jobs, busy,
                               snapshot, previous, pins, pinned, store, unsaved>>
         [] OTHER ->
                /\ Unreadable /\ Hydrate(Defaults) /\ foreign' = TRUE
                /\ UNCHANGED <<step, loaded>>
    /\ IF ok /\ disk.form # "malformed" THEN UNCHANGED <<acked, held>>
       ELSE acked' = Defaults.vals /\ held' = 0
    /\ UNCHANGED <<disk, backups, next, clock>>

BackupStartup(ok) ==
    /\ phase = "reading" /\ step = "backup"
    /\ Fault(ok)
    /\ IF ok
       THEN /\ BackedUp /\ paused' = "no"
            /\ step' = "normalise" /\ next' = Normal(Merge(loaded.pkg, Defaults))
            /\ UNCHANGED <<phase, settings, package, cache, jobs, busy, snapshot, previous,
                           pins, pinned, store, loaded, unsaved>>
       ELSE /\ paused' = "explicit" /\ step' = "idle" /\ loaded' = Nothing
            /\ Hydrate(Merge(loaded.pkg, Defaults))
            /\ UNCHANGED <<backups, next>>
    /\ UNCHANGED <<disk, clock, acked, held, unread, foreign>>

\* The end of a session, wanted or not; what it had saved is lost with a file that
\* Sync has replaced.
Off ==
    /\ phase' = "off"
    /\ settings' = Defaults.vals /\ package' = Defaults /\ cache' = NoPin /\ paused' = "no"
    /\ jobs' = <<>> /\ busy' = FALSE /\ snapshot' = Nothing /\ previous' = Nothing
    /\ pins' = <<>> /\ pinned' = 0 /\ store' = <<>> /\ step' = "idle"
    /\ loaded' = Nothing /\ next' = Nothing /\ unsaved' = FALSE
    /\ IF foreign' THEN acked' = Defaults.vals /\ held' = 0 ELSE UNCHANGED <<acked, held>>

WriteStartup(ok) ==
    /\ phase = "reading" /\ step = "normalise"
    /\ Fault(ok)
    /\ IF ok
       THEN /\ Written(next) /\ Hydrate(next)
            /\ step' = "idle" /\ loaded' = Nothing /\ next' = Nothing
            /\ UNCHANGED <<paused, acked, held>>
       ELSE UNCHANGED <<disk, unread, foreign>> /\ Off
    /\ UNCHANGED <<backups, clock>>

----------------------------------------------------------------------------
(* Saves and updates: persistSettings and what calls it *)

Saving == jobs # <<>> /\ Head(jobs).kind # "reload"

\* Variant: the patch stays in the settings.
Restored_Never(committed) == settings

\* applySettingsInPlace(previousSettings)
Restored(committed) == committed

\* Variant: the package in memory stays what it was.
Committed_Forgotten(p) == package

\* setDataPackage
Committed(p) == p

\* How a job of the settings queue ends: with the package p on the disk, or with
\* an error, which ends the startup when it was its save.
EndSave(ok, p) ==
    LET job == Head(jobs)
    IN  IF job.kind = "initial" /\ ~ok THEN Off
        ELSE /\ package' = IF ok THEN Committed(p) ELSE package
             /\ settings' = IF ok \/ job.kind # "update" THEN settings
                            ELSE Restored(previous)
             /\ unsaved' = IF job.kind = "save" THEN ~ok ELSE unsaved /\ ok
             /\ jobs' = Tail(jobs) /\ busy' = FALSE
             /\ snapshot' = Nothing /\ previous' = Nothing
             /\ phase' = "running"
             /\ Release
             /\ acked' = IF ok /\ job.kind = "update"
                         THEN [acked EXCEPT ![job.field] = job.value] ELSE acked
             /\ UNCHANGED <<cache, paused, pins, pinned, loaded, held>>

\* updateSettings patches the settings in its turn; a suspended store refuses
\* all saves, and passes over the first one.
BeginSave ==
    /\ phase \in {"saving", "running"} /\ Saving /\ ~busy
    /\ LET job  == Head(jobs)
           vals == IF job.kind = "update" THEN [settings EXCEPT ![job.field] = job.value]
                   ELSE settings
       IN  IF paused = "no"
           THEN /\ settings' = vals
                /\ previous' = package.vals
                /\ snapshot' = [Build EXCEPT !.vals = vals]
                /\ busy' = TRUE /\ store' = Append(store, "settings")
                /\ UNCHANGED <<phase, jobs, unsaved>>
           ELSE /\ settings' = IF job.kind = "update" THEN Restored(package.vals) ELSE settings
                /\ unsaved' = CASE job.kind = "save"   -> TRUE
                                [] job.kind = "update" -> FALSE
                                [] OTHER               -> unsaved
                /\ jobs' = Tail(jobs)
                /\ phase' = "running"
                /\ UNCHANGED <<previous, snapshot, busy, store>>
    /\ UNCHANGED <<disk, backups, package, cache, paused, pins, pinned, step, loaded, next,
                   clock, left, acked, held, unread, foreign>>

\* updateDataPackage has its turn in saveQueue: nothing is written when nothing
\* changed, and nothing while writes are suspended.
StoreSave ==
    /\ store # <<>> /\ Head(store) = "settings" /\ Saving /\ busy /\ step = "idle"
    /\ UNCHANGED <<disk, backups, clock, left, unread, foreign>>
    /\ IF Rebased(snapshot) = package \/ paused # "no"
       THEN EndSave(Rebased(snapshot) = package, package)
       ELSE /\ next' = Rebased(snapshot) /\ step' = "write"
            /\ UNCHANGED <<phase, settings, package, cache, paused, jobs, busy, snapshot,
                           previous, pins, pinned, store, loaded, acked, held, unsaved>>

WriteSave(ok) ==
    /\ step = "write" /\ Head(store) = "settings" /\ Saving
    /\ Fault(ok)
    /\ IF ok THEN Written(next) ELSE UNCHANGED <<disk, unread, foreign>>
    /\ EndSave(ok, next)
    /\ UNCHANGED <<backups, clock>>

----------------------------------------------------------------------------
(* Pins: PinnedCache.mutatePackage *)

Pinned(pin, on, now) == IF pin.on = on THEN pin ELSE [at |-> now, on |-> on]

\* A pin is only kept in memory while writes are suspended.
BeginPin ==
    /\ phase = "running" /\ pins # <<>> /\ pinned = 0
    /\ clock' = clock + 1
    /\ IF paused = "no"
       THEN /\ pinned' = clock' /\ store' = Append(store, "pin")
            /\ UNCHANGED <<cache, pins>>
       ELSE /\ cache' = Pinned(cache, Head(pins), clock') /\ pins' = Tail(pins)
            /\ UNCHANGED <<pinned, store>>
    /\ UNCHANGED <<phase, disk, backups, settings, package, paused, jobs, busy, snapshot, previous,
                   step, loaded, next, left, history>>

EndPin(ok, p) ==
    /\ package' = IF ok THEN p ELSE package
    /\ cache' = IF ok THEN p.pin ELSE cache
    /\ held' = IF ok THEN p.pin.at ELSE held
    /\ pins' = Tail(pins) /\ pinned' = 0
    /\ Release

StorePin ==
    /\ store # <<>> /\ Head(store) = "pin" /\ step = "idle"
    /\ LET pin == Pinned(Newer(package.pin, cache), Head(pins), pinned)
           p   == [package EXCEPT !.pin = pin]
       IN  IF p = package \/ paused # "no" THEN EndPin(p = package, p)
           ELSE /\ next' = p /\ step' = "write"
                /\ UNCHANGED <<package, cache, held, pins, pinned, store>>
    /\ UNCHANGED <<phase, disk, backups, settings, paused, jobs, busy, snapshot, previous,
                   loaded, clock, left, acked, unread, foreign, unsaved>>

WritePin(ok) ==
    /\ step = "write" /\ Head(store) = "pin"
    /\ Fault(ok)
    /\ IF ok THEN Written(next) ELSE UNCHANGED <<disk, unread, foreign>>
    /\ EndPin(ok, next)
    /\ UNCHANGED <<phase, backups, settings, paused, jobs, busy, snapshot, previous,
                   loaded, clock, acked, unsaved>>

----------------------------------------------------------------------------
(* Reload: reloadCanonicalSettingsPackage.  It holds the settings queue and, for *)
(* all of reloadCanonicalDataPackage, saveQueue.                             *)

Reloading == jobs # <<>> /\ Head(jobs).kind = "reload"
AtHead    == store # <<>> /\ Head(store) = "settings" /\ Reloading

BeginReload ==
    /\ phase = "running" /\ Reloading /\ ~busy
    /\ busy' = TRUE /\ store' = Append(store, "settings")
    /\ UNCHANGED <<phase, disk, backups, settings, package, cache, paused, jobs, snapshot, previous,
                   pins, pinned, step, loaded, next, clock, left, history>>

\* Variant: the favorites are saved before saveQueue is left.
Left_Held(rest) == IF rest = <<>> THEN Tail(store) ELSE store

Left(rest) == Tail(store)

EndReload(rest) ==
    /\ jobs' = rest \o Tail(jobs)
    /\ busy' = FALSE
    /\ store' = Left(rest) /\ step' = "idle" /\ next' = Nothing /\ loaded' = Nothing
    /\ UNCHANGED <<phase, snapshot, previous, pins, pinned, clock>>

\* A package without favorites gets them by a save in the same turn.
Seed(p) == IF p.favorites THEN <<>> ELSE <<Save("seed")>>

AsItWas   == UNCHANGED <<settings, package, cache, acked, held, unsaved>>
Unchanged == EndReload(Seed(package)) /\ AsItWas
Thrown    == EndReload(<<>>) /\ AsItWas

\* The commit of the stage and of the store.
Adopt ==
    /\ settings' = next.vals /\ package' = next /\ cache' = next.pin
    /\ acked' = [f \in Fields |-> IF next.vals[f] = package.vals[f] THEN acked[f] ELSE 0]
    /\ unsaved' = FALSE
    /\ EndReload(Seed(next))
    /\ UNCHANGED held

Stay == UNCHANGED <<phase, settings, package, cache, jobs, busy, snapshot, previous, pins, pinned,
                    store, clock, acked, held, unsaved>>

ReadReload(ok) ==
    /\ AtHead /\ step = "idle"
    /\ Fault(ok)
    /\ IF ok /\ Readable
       THEN /\ loaded' = disk
            /\ IF disk.pkg.bad
               THEN step' = "backup" /\ unread' = TRUE /\ UNCHANGED <<next, paused>>
               ELSE /\ step' = "staged" /\ unread' = FALSE
                    /\ next' = Merge(disk.pkg, package)
                    /\ paused' = IF paused = "explicit" THEN paused ELSE "no"
            /\ Stay
       ELSE Unreadable /\ Unchanged
    /\ UNCHANGED <<disk, backups, foreign>>

\* Variant: the taxonomy is normalised although there is no backup.
NotBackedUp_Proceeds ==
    /\ step' = "staged" /\ next' = Normal(Merge(loaded.pkg, package))
    /\ UNCHANGED <<paused, loaded>> /\ Stay

\* A destructive taxonomy stays where it is when it cannot be backed up.
NotBackedUp == paused' = "explicit" /\ Unchanged

BackupReload(ok) ==
    /\ AtHead /\ step = "backup"
    /\ Fault(ok)
    /\ IF ok
       THEN /\ BackedUp /\ paused' = "no"
            /\ step' = "staged" /\ next' = Normal(Merge(loaded.pkg, package))
            /\ UNCHANGED loaded /\ Stay
       ELSE NotBackedUp /\ UNCHANGED backups
    /\ UNCHANGED <<disk, unread, foreign>>

\* What is in the file differs from what is adopted: it is backed up, unless it
\* was, and rewritten.
Proceed ==
    /\ AtHead /\ step = "staged"
    /\ IF next = loaded.pkg
       THEN Adopt /\ foreign' = (disk # loaded)
       ELSE /\ step' = IF loaded.pkg.bad THEN "write" ELSE "preserve"
            /\ UNCHANGED <<next, loaded, foreign>> /\ Stay
    /\ UNCHANGED <<disk, backups, paused, left, unread>>

Preserve(ok) ==
    /\ AtHead /\ step = "preserve"
    /\ Fault(ok)
    /\ IF ok
       THEN /\ BackedUp /\ paused' = "no"
            /\ step' = "write"
            /\ UNCHANGED <<next, loaded>> /\ Stay
       ELSE paused' = "explicit" /\ Thrown /\ UNCHANGED backups
    /\ UNCHANGED <<disk, unread, foreign>>

WriteReload(ok) ==
    /\ AtHead /\ step = "write"
    /\ Fault(ok)
    /\ IF ok THEN Written(next) /\ Adopt
       ELSE Thrown /\ UNCHANGED <<disk, unread, foreign>>
    /\ UNCHANGED <<backups, paused>>

----------------------------------------------------------------------------
(* Who uses it *)

Request(kind) ==
    /\ phase = "running" /\ Spend(kind)
    /\ UNCHANGED <<phase, disk, backups, package, cache, paused, busy, snapshot, previous, pinned,
                   store, step, loaded, next, history>>

\* A store of single settings changes them and then saves them all.
Edit(f) ==
    /\ Request("edits")
    /\ clock' = clock + 1
    /\ settings' = [settings EXCEPT ![f] = clock']
    /\ jobs' = Append(jobs, Save("save"))
    /\ UNCHANGED pins

Update(f) ==
    /\ Request("edits")
    /\ clock' = clock + 1
    /\ jobs' = Append(jobs, Job("update", f, clock'))
    /\ UNCHANGED <<settings, pins>>

Pin(on) ==
    /\ Request("pins")
    /\ pins' = Append(pins, on)
    /\ UNCHANGED <<clock, settings, jobs>>

\* One check of data.json at a time (canonicalSettingsReloadRunning).
Reload ==
    /\ \A i \in DOMAIN jobs : jobs[i].kind \notin {"reload", "seed"}
    /\ Request("reloads")
    /\ jobs' = Append(jobs, Save("reload"))
    /\ UNCHANGED <<clock, settings, pins>>

\* What another device leaves in data.json: all of its settings, an older package
\* without some, or a broken taxonomy; with the pin it has, old or new.
Foreign ==
    LET all  == [f \in Fields |-> clock + 1]
        some == {[f \in Fields \ {g} |-> clock + 1] : g \in Fields}
        pin  == {NoPin, package.pin, [at |-> clock + 1, on |-> TRUE]}
    IN  [vals : {all}, pin : pin, favorites : {TRUE}, bad : BOOLEAN]
        \cup [vals : some, pin : pin, favorites : {FALSE}, bad : {FALSE}]

Sync ==
    /\ Spend("syncs")
    /\ clock' = clock + 1
    /\ \/ \E p \in Foreign : disk' = [form |-> "package", id |-> clock', pkg |-> p]
       \/ \E form \in {"other", "malformed", "missing"} :
             disk' = [form |-> form, id |-> clock', pkg |-> Defaults]
    /\ foreign' = TRUE /\ unread' = FALSE
    /\ IF phase \in {"off", "reading"} THEN acked' = Defaults.vals /\ held' = 0
       ELSE UNCHANGED <<acked, held>>
    /\ UNCHANGED <<phase, backups, memory, unsaved>>

\* The session ends at any time; a write that is under way may take effect.
Stop ==
    /\ phase # "off" /\ Spend("faults")
    /\ \/ UNCHANGED <<disk, unread, foreign>>
       \/ step \in {"write", "normalise"} /\ Written(next)
    /\ Off
    /\ UNCHANGED <<backups, clock>>

Run ==
    \/ \E ok \in BOOLEAN : \/ ReadStartup(ok) \/ BackupStartup(ok) \/ WriteStartup(ok)
                          \/ WriteSave(ok) \/ WritePin(ok)
                          \/ ReadReload(ok) \/ BackupReload(ok) \/ Preserve(ok) \/ WriteReload(ok)
    \/ BeginSave \/ StoreSave \/ BeginPin \/ StorePin \/ BeginReload \/ Proceed

Ask == \/ \E f \in Fields : Edit(f) \/ Update(f)
       \/ \E on \in BOOLEAN : Pin(on)
       \/ Reload

Next == Run \/ Start \/ Ask \/ Sync \/ Stop

Spec == Init /\ [][Next]_vars

----------------------------------------------------------------------------
(* Properties *)

\* A pin or unpin that was saved is shown, and in the package, until a later one:
\* saves of settings built before it, reloads and rollbacks included.
PinsKept ==
    phase = "running" => package.pin.at >= held /\ cache.at >= held

\* A saved update of a setting gives way only to a later one, or to a file from
\* elsewhere.
UpdatesSurvive ==
    phase = "running" => \A f \in Fields : package.vals[f] >= acked[f]

\* When all queues are empty, the settings are those committed, unless the last
\* save of a direct change failed, and data.json holds them, unless Sync replaced it
\* or the startup could not read it.
AgreeAtRest ==
    phase = "running" /\ jobs = <<>> /\ pins = <<>> =>
        /\ unsaved \/ settings = package.vals
        /\ ~foreign => Merge(disk.pkg, Defaults) = package

\* The plugin does not overwrite a data.json that it could not read, or whose
\* taxonomy it would damage, unless that content is in a backup.  JSON that is no
\* object counts as unread for a reload only: to a startup it is no file.
UnreadIsKept ==
    [][disk' # disk /\ disk'.id = 0 /\ unread => disk \in backups]_vars

\* The queues never wait for each other: while anything is queued, one goes on.
NeverStuck == jobs # <<>> \/ pins # <<>> => ENABLED Run
=============================================================================
