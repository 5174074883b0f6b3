-------------------------- MODULE TablePresetMigration --------------------------
(***************************************************************************)
(* The migration of Table presets from the plugin's own store into table   *)
(* files of the vault (table-preset-file-migration-runner.ts), with the    *)
(* journal it keeps and the registry that shows the presets when a run is  *)
(* over.  Each preset is staged as a file, renamed to its target, bound in *)
(* data.json by a save of settings (TablePresetStore), and only then is    *)
(* its sidecar moved to a verified backup.  Every write may fail, before   *)
(* or after it took effect, and the process may end between any two of     *)
(* them; the next startup loads and saves the settings and runs the        *)
(* migration again from the journal.                                       *)
(*                                                                         *)
(* A preset has one path in the vault.                                     *)
(***************************************************************************)
EXTENDS TablePresetStore

CONSTANT NoOne      \* no preset is in hand

ASSUME TablePresetMigrationAssumption == NoOne \notin Presets

VARIABLES
    staged, file, backup,   \* what the new files of a preset hold
    log,        \* the journal on disk
    kept,       \* the journal the journal store has in memory
    work,       \* the journal of the run
    todo, hand, \* the items the run has before it, the item in hand as it was taken
    pc,
    ready,      \* the registry exists
    editable,   \* the presets it has no file or conflict for
    queued,     \* the saves of settings that wait for their turn
    snapshot,   \* what an edit restores when its save fails
    began       \* history: sidecars, files and bounds at the beginning

files   == <<staged, file, backup, log>>
run     == <<kept, work, todo, hand>>
user    == <<ready, editable, queued, snapshot>>
vars    == <<storeVars, files, run, pc, user, left>>

----------------------------------------------------------------------------
NoItem    == [class |-> "none", outcome |-> "none", sig |-> 0, made |-> 0]
NoJournal == [status |-> "none", items |-> [p \in Presets |-> NoItem]]
NoHand    == [preset |-> NoOne, read |-> 0, made |-> 0, had |-> FALSE]
NoEdit    == [shown |-> NoPreset, bound |-> {}, order |-> {}]

at == hand.preset

WithItem(j, p, outcome) == [j EXCEPT !.items[p].outcome = outcome]

Replace(ok, j) == /\ Fault(ok)
                  /\ Lands(ok, log, j)
                  /\ kept' = IF ok THEN j ELSE kept

Init == /\ sidecar \in {f \in [Presets -> {0, 1, Factory}] :
                           f # NoPreset /\ \A p \in Presets : f[p] = Factory => p = Default}
        /\ file \in {f \in [Presets -> Versions] : \A p \in Presets : f[p] \in {0, 2, sidecar[p]}}
        /\ staged = NoPreset /\ backup = NoPreset
        /\ indexed = Held(sidecar)
        /\ data = [bound |-> {}, version |-> 0, order |-> indexed]
        /\ log = NoJournal
        /\ mem = data /\ pkg = data /\ shown = sidecar /\ legacy = sidecar
        /\ known = [order |-> indexed, serialized |-> indexed, pending |-> {}]
        /\ turn = Free
        /\ kept = NoJournal /\ work = NoJournal /\ todo = {} /\ hand = NoHand
        /\ pc = "loaded"
        /\ ready = FALSE /\ editable = {} /\ queued = {} /\ snapshot = NoEdit
        /\ content = sidecar /\ left \in Bounds
        /\ began = [sidecar |-> sidecar, file |-> file, bounds |-> left]

----------------------------------------------------------------------------
(* A run up to its first item. *)

\* loadLegacyPresetsForMigration: a preset of the store as its sidecar has it.
Source(p) == IF legacy[p] # 0 /\ sidecar[p] # 0 THEN sidecar[p] ELSE legacy[p]

LegacyClass_NoResume(p) ==
    IF file[p] = 0 THEN "create"
    ELSE IF file[p] = Source(p) /\ kept.items[p] = NoItem THEN "adopt" ELSE "blocked"

\* preflightTablePresetFileMigration: a preset of the legacy store.
LegacyClass(p) ==
    LET prior == kept.items[p] IN
    IF prior # NoItem /\ prior.sig # Source(p) THEN "blocked"
    ELSE IF file[p] = 0 THEN "create"
    ELSE IF file[p] # Source(p) THEN "blocked"
    ELSE IF prior = NoItem THEN "adopt" ELSE "already-migrated"

\* A preset that is bound and still has a sidecar (buildBoundSidecarPlans).
BoundClass(p) == IF file[p] = sidecar[p] THEN "already-migrated" ELSE "blocked"

PlannedItem(p, class, sig) ==
    LET prior == kept.items[p] IN
    [class   |-> class, sig |-> sig, made |-> sig,
     outcome |-> IF class = "blocked" THEN "blocked"
                 ELSE IF prior.sig = sig THEN prior.outcome ELSE "pending"]

Items_PlannedOnly == [p \in Presets |->
    IF p \notin mem.bound /\ legacy[p] # 0 THEN PlannedItem(p, LegacyClass(p), Source(p))
    ELSE IF p \in mem.bound /\ sidecar[p] # 0
         THEN PlannedItem(p, BoundClass(p), IF file[p] # 0 THEN file[p] ELSE sidecar[p])
    ELSE NoItem]

\* buildJournal: items of an earlier run that are not planned anew stay.
Items == [p \in Presets |->
    IF p \notin mem.bound /\ legacy[p] # 0 THEN PlannedItem(p, LegacyClass(p), Source(p))
    ELSE IF p \in mem.bound /\ sidecar[p] # 0
         THEN PlannedItem(p, BoundClass(p), IF file[p] # 0 THEN file[p] ELSE sidecar[p])
    ELSE kept.items[p]]

Plan == /\ pc = "loaded" /\ mem.version = 0
        /\ work' = [status |-> "running", items |-> Items]
        /\ pc' = "open"
        /\ UNCHANGED <<storeVars, files, kept, todo, hand, user, left>>

Open(ok) == /\ pc = "open"
            /\ Replace(ok, work)
            /\ todo' = {p \in Presets : work.items[p].class \notin {"none", "blocked"}
                                     /\ work.items[p].outcome # "backed-up"}
            /\ pc' = IF ok THEN "items" ELSE "failed"
            /\ hand' = NoHand
            /\ UNCHANGED <<storeVars, staged, file, backup, work, user>>

\* With the version committed only the journal is left to reconcile, and the
\* settings are saved once more if the store still has presets with a file.
Reconcile(ok) ==
    LET finished == \A p \in Presets : kept.items[p].outcome \in {"none", "backed-up"}
        open     == kept.status \notin {"none", "completed"}
    IN
    /\ pc = "loaded" /\ mem.version = 1
    /\ IF open /\ finished THEN Replace(ok, [kept EXCEPT !.status = "completed"])
       ELSE ok /\ UNCHANGED <<log, kept, left>>
    /\ queued' = IF ok /\ (open => finished) /\ mem.bound \cap Held(legacy) # {}
                 THEN queued \cup {"other"} ELSE queued
    /\ pc' = "registry"
    /\ UNCHANGED <<storeVars, staged, file, backup, work, todo, hand, ready, editable,
                   snapshot>>

----------------------------------------------------------------------------
(* One item: processMigrationItem. *)

Item == work.items[at]

\* The start of an item: its target may be there, else it is staged.  The run was
\* planned from the sidecar, but what is staged is the preset of the store.
Take(p) == /\ pc = "items" /\ p \in todo
           /\ todo' = todo \ {p}
           /\ hand' = [preset |-> p, read |-> legacy[p], made |-> work.items[p].made,
                       had |-> p \in mem.bound]
           /\ pc' = IF file[p] # 0 THEN "verify"
                    ELSE IF \/ work.items[p].class # "create" \/ legacy[p] = 0
                            \/ staged[p] \notin {0, legacy[p]}
                    THEN "failed"
                    ELSE IF staged[p] = 0 THEN "stage" ELSE "staged"
           /\ UNCHANGED <<storeVars, files, kept, work, user, left>>

Stage(ok) == /\ pc = "stage"
             /\ Fault(ok) /\ Lands(ok, staged, [staged EXCEPT ![at] = hand.read])
             /\ pc' = IF ok THEN "staged" ELSE "failed"
             /\ UNCHANGED <<storeVars, file, backup, log, run, user>>

\* The journal notes how far the item got; a note that fails ends the run.
Note(ok, from, item, next) ==
    /\ pc = from
    /\ work' = [work EXCEPT !.items[at] = item]
    /\ Replace(ok, work')
    /\ pc' = IF ok THEN next ELSE "failed"
    /\ UNCHANGED <<storeVars, staged, file, backup, todo, hand, user>>

NoteStaged(ok)   == Note(ok, "staged", [Item EXCEPT !.outcome = "staged",
                                                    !.made = hand.read], "rename")
NoteMigrated(ok) == Note(ok, "bound", [Item EXCEPT !.outcome =
                             IF Item.class = "create" THEN "migrated" ELSE "adopted"],
                         "backup")
NoteBackedUp(ok) == Note(ok, "moved", [Item EXCEPT !.outcome = "backed-up"], "items")

Rename(ok) == /\ pc = "rename"
              /\ IF file[at] # 0
                 THEN ok /\ pc' = "failed" /\ UNCHANGED <<file, staged, left>>
                 ELSE /\ Fault(ok)
                      /\ \/ /\ file' = [file EXCEPT ![at] = staged[at]]
                            /\ staged' = [staged EXCEPT ![at] = 0]
                         \/ ~ok /\ UNCHANGED <<file, staged>>
                      /\ pc' = IF ok THEN "verify" ELSE "failed"
              /\ UNCHANGED <<storeVars, backup, log, run, user>>

\* The target must hold the preset as it was read.
Mismatch == /\ pc = "verify" /\ hand.read \notin {0, file[at]}
            /\ pc' = "failed"
            /\ UNCHANGED <<storeVars, files, run, user, left>>

\* commitTablePresetFileBinding: the settings are saved with the new binding ...
Bind == /\ pc = "verify" /\ hand.read \in {0, file[at]}
        /\ Begin("binding", [mem EXCEPT !.bound = @ \cup {at}])
        /\ pc' = "binding"
        /\ UNCHANGED <<sidecar, indexed, data, pkg, store, content, files, run, user, left>>

Bound == /\ pc = "binding" /\ Settled("binding", "done")
         /\ pc' = "bound"
         /\ UNCHANGED <<sidecar, indexed, data, mem, pkg, shown, store, content, files, run,
                        user, left>>

\* ... which is taken back if that fails; the target goes if the migration made it.
Unbound == /\ pc = "binding" /\ Settled("binding", "failed")
           /\ mem' = IF hand.had THEN mem ELSE [mem EXCEPT !.bound = @ \ {at}]
           /\ pc' = "trash"
           /\ UNCHANGED <<sidecar, indexed, data, pkg, shown, store, content, files, run,
                          user, left>>

\* removeOwnedMigrationFile.
Trash == /\ pc = "trash"
         /\ file' = IF Item.class = "create" /\ file[at] = hand.made
                    THEN [file EXCEPT ![at] = 0] ELSE file
         /\ pc' = "failed"
         /\ UNCHANGED <<storeVars, staged, backup, log, run, user, left>>

\* backupLegacyPresetSidecar: the sidecar is copied, the copy compared ...
Backup(ok) ==
    /\ pc = "backup"
    /\ IF sidecar[at] # 0 /\ backup[at] = 0
       THEN /\ Fault(ok) /\ Lands(ok, backup, [backup EXCEPT ![at] = sidecar[at]])
            /\ pc' = IF ok THEN "remove" ELSE "failed"
       ELSE /\ ok /\ UNCHANGED <<backup, left>>
            /\ pc' = IF sidecar[at] = 0
                     THEN IF backup[at] = Item.sig THEN "moved" ELSE "failed"
                     ELSE IF backup[at] = sidecar[at] THEN "remove" ELSE "failed"
    /\ UNCHANGED <<storeVars, staged, file, log, run, user>>

\* ... and the sidecar removed.
RemoveSidecar(ok) ==
    /\ pc = "remove"
    /\ Fault(ok) /\ Lands(ok, sidecar, [sidecar EXCEPT ![at] = 0])
    /\ pc' = IF ok THEN "moved" ELSE "failed"
    /\ UNCHANGED <<indexed, data, mem, pkg, shown, store, turn, content, files, run, user>>

----------------------------------------------------------------------------
(* The end of a run. *)

\* What failed is noted as well as it can be, and the run is over.
Fail(ok) == /\ pc = "failed"
            /\ work' = [(IF at = NoOne THEN work ELSE WithItem(work, at, "failed"))
                        EXCEPT !.status = "failed"]
            /\ Replace(ok, work')
            /\ todo' = {} /\ pc' = "registry"
            /\ UNCHANGED <<storeVars, staged, file, backup, hand, user>>

Unfinished == \E p \in Presets : work.items[p].outcome \in {"blocked", "failed"}

\* Every item is done, but some were blocked.
Partial == /\ pc = "items" /\ todo = {} /\ Unfinished
           /\ work' = [work EXCEPT !.status = "partial"]
           /\ pc' = "close"
           /\ UNCHANGED <<storeVars, files, kept, todo, hand, user, left>>

\* commitTablePresetFileMigrationVersion: the settings are saved with the version.
Finish == /\ pc = "items" /\ todo = {} /\ ~Unfinished
          /\ Begin("version", [mem EXCEPT !.version = 1])
          /\ pc' = "version"
          /\ UNCHANGED <<sidecar, indexed, data, pkg, store, content, files, run, user, left>>

Finished(ok) == /\ pc = "version"
                /\ Settled("version", IF ok THEN "done" ELSE "failed")
                /\ mem' = IF ok THEN mem ELSE [mem EXCEPT !.version = 0]
                /\ work' = [work EXCEPT !.status = IF ok THEN "completed" ELSE "failed"]
                /\ pc' = "close"
                /\ UNCHANGED <<sidecar, indexed, data, pkg, shown, store, content, files,
                               kept, todo, hand, user, left>>

Close(ok) == /\ pc = "close"
             /\ Replace(ok, work)
             /\ pc' = "registry"
             /\ UNCHANGED <<storeVars, staged, file, backup, work, todo, hand, user>>

\* refreshTablePresetRegistry: files of presets the legacy store does not have
\* are adopted.  A preset of the store whose id an unbound file has too is a
\* conflict: it keeps its place in the order, but syncTablePresetProjectionFromRegistry
\* drops it from the settings.  New bindings and another order are saved.
Registry ==
    LET listed  == IF mem.version = 1 THEN {} ELSE Held(legacy)
        adopted == {p \in Presets \ (mem.bound \cup listed) : file[p] # 0}
        bound   == mem.bound \cup adopted
        order   == bound \cup listed
    IN
    /\ pc = "registry"
    /\ mem' = [mem EXCEPT !.bound = bound, !.order = order]
    /\ shown' = [p \in Presets |-> IF p \in listed \ bound /\ file[p] = 0 THEN legacy[p] ELSE 0]
    /\ editable' = {p \in Presets \ bound : file[p] = 0}
    /\ queued' = IF adopted # {} \/ order # mem.order THEN queued \cup {"other"} ELSE queued
    /\ ready' = TRUE /\ pc' = "idle"
    /\ UNCHANGED <<sidecar, indexed, data, pkg, store, turn, content, files, run, snapshot,
                   left>>

----------------------------------------------------------------------------
(* The user and the process. *)

Retry == /\ pc = "idle" /\ mem.version = 0
         /\ Spend("retries")
         /\ pc' = "loaded"
         /\ UNCHANGED <<storeVars, files, run, user>>

\* saveTablePresetPatchAndRefresh of a preset without a file.
EditPreset(p) ==
    /\ p \in editable /\ shown[p] # 0
    /\ "edit" \notin queued /\ turn.by # "edit"
    /\ Spend("edits")
    /\ shown' = [shown EXCEPT ![p] = 2]
    /\ snapshot' = [shown |-> shown, bound |-> mem.bound, order |-> mem.order]
    /\ queued' = queued \cup {"edit"}
    /\ UNCHANGED <<sidecar, indexed, data, mem, pkg, store, turn, content, files, run, pc,
                   ready, editable>>

\* Any other setting the user changes only queues a save.
EditSetting == /\ ready
               /\ Spend("edits")
               /\ queued' = queued \cup {"other"}
               /\ UNCHANGED <<storeVars, files, run, pc, ready, editable, snapshot>>

\* saveSettings.
SaveSettings(by) == /\ by \in queued
                    /\ Begin(by, mem)
                    /\ queued' = queued \ {by}
                    /\ UNCHANGED <<sidecar, indexed, data, pkg, store, content, files, run,
                                   pc, ready, editable, snapshot, left>>

\* An edit whose save failed restores the settings of the presets as they were
\* before it.
Saved(by, ok) ==
    /\ Settled(by, IF ok THEN "done" ELSE "failed")
    /\ IF by = "edit" /\ ~ok
       THEN /\ shown' = snapshot.shown
            /\ mem' = [mem EXCEPT !.bound = snapshot.bound, !.order = snapshot.order]
       ELSE UNCHANGED <<mem, shown>>
    /\ snapshot' = IF by = "edit" THEN NoEdit ELSE snapshot
    /\ UNCHANGED <<sidecar, indexed, data, pkg, store, content, files, run, pc, ready,
                   editable, queued, left>>

Down == /\ Ended
        /\ pc' = "down" /\ ready' = FALSE /\ editable' = {} /\ queued' = {}
        /\ snapshot' = NoEdit
        /\ kept' = NoJournal /\ work' = NoJournal /\ todo' = {} /\ hand' = NoHand
        /\ UNCHANGED files

Crash == pc # "down" /\ Spend("crashes") /\ Down

\* OperonStorage.initialize: data.json and the legacy store are loaded ...
Startup == /\ pc = "down"
           /\ Load
           /\ pc' = "load"
           /\ UNCHANGED <<files, run, user, left>>

\* ... the settings saved ...
Loaded == /\ pc = "load"
          /\ Hydrate
          /\ pc' = "hydrated"
          /\ UNCHANGED <<files, run, user, left>>

SaveLoaded == /\ pc = "hydrated"
              /\ Begin("startup", mem)
              /\ pc' = "saving"
              /\ UNCHANGED <<sidecar, indexed, data, pkg, store, content, files, run, user,
                             left>>

\* ... and the journal loaded; the migration runs next, before there is a registry.
Initialized == /\ pc = "saving" /\ Settled("startup", "done")
               /\ kept' = log
               /\ pc' = "loaded"
               /\ UNCHANGED <<sidecar, indexed, data, mem, pkg, shown, store, content, files,
                              work, todo, hand, user, left>>

\* A write that fails before that ends the startup.
Abort == /\ turn.by \in {"load", "startup"} /\ turn.phase = "failed"
         /\ Down
         /\ UNCHANGED left

Start == Startup \/ Loaded \/ SaveLoaded \/ Initialized \/ Abort

Migrate == \/ Plan \/ Mismatch \/ Bind \/ Bound \/ Unbound \/ Trash \/ Partial \/ Finish
           \/ Registry \/ \E p \in Presets : Take(p)
           \/ \E ok \in BOOLEAN :
                \/ Open(ok) \/ Reconcile(ok) \/ Stage(ok) \/ NoteStaged(ok) \/ Rename(ok)
                \/ NoteMigrated(ok) \/ Backup(ok) \/ RemoveSidecar(ok) \/ NoteBackedUp(ok)
                \/ Fail(ok) \/ Finished(ok) \/ Close(ok)

SaveStep == Save /\ UNCHANGED <<files, run, pc, user>>

Saves == \E by \in {"edit", "other"} : \/ SaveSettings(by)
                                       \/ \E ok \in BOOLEAN : Saved(by, ok)

Next == /\ UNCHANGED began
        /\ \/ Migrate \/ SaveStep \/ Saves \/ Start
           \/ (\E p \in Presets : EditPreset(p)) \/ EditSetting \/ Retry \/ Crash

\* The promises of a run and of a save settle, a queued save gets its turn, and
\* the program is started again.
Fairness == WF_vars(Migrate) /\ WF_vars(SaveStep) /\ WF_vars(Saves) /\ WF_vars(Start)

Spec == Init /\ [][Next]_<<vars, began>> /\ Fairness

----------------------------------------------------------------------------
Classes  == {"none", "create", "adopt", "already-migrated", "blocked"}
Outcomes == {"none", "pending", "staged", "migrated", "adopted", "backed-up",
             "blocked", "failed"}
Statuses == {"none", "running", "partial", "completed", "failed"}
Journals == [status : Statuses,
             items  : [Presets -> [class : Classes, outcome : Outcomes, sig : Versions,
                                   made : Versions]]]

\* The run has an item in hand.
InHand == {"stage", "staged", "rename", "verify", "binding", "trash", "bound", "backup",
           "remove", "moved"}

TypeOK ==
    /\ StoreTypeOK
    /\ {staged, file, backup} \subseteq [Presets -> Versions]
    /\ {log, kept, work} \subseteq Journals
    /\ todo \subseteq Presets
    /\ hand \in [preset : Presets \cup {NoOne}, read : Versions, made : Versions,
                 had : BOOLEAN]
    /\ pc \in InHand => at \in Presets
    /\ pc \in InHand \cup {"down", "load", "hydrated", "saving", "loaded", "open", "items",
                           "failed", "version", "close", "registry", "idle"}
    /\ ready \in BOOLEAN /\ editable \subseteq Presets
    /\ queued \subseteq {"edit", "other"}
    /\ snapshot \in [shown : [Presets -> Versions], bound : SUBSET Presets,
                     order : SUBSET Presets]
    /\ began \in [sidecar : [Presets -> Versions], file : [Presets -> Versions], bounds : Bounds]

----------------------------------------------------------------------------
None(kind) == left[kind] = began.bounds[kind]

\* No call has failed so far.
Calm == None("failures")

OneFailed == left["failures"] = began.bounds["failures"] - 1

\* No preset had a file in the vault that is not what its sidecar holds.
NoForeignFile == \A p \in Presets : began.file[p] \in {0, began.sidecar[p]}

\* The default preset was as the program makes it, or there was none.
DefaultUntouched == began.sidecar[Default] # 1

\* A preset is in the vault and its old file moved.  After a call that failed, a
\* restart may bring the old file of the default preset back.
Moved(p) == /\ p \in data.bound /\ file[p] # 0 /\ backup[p] = content[p]
            /\ sidecar[p] = 0 \/ (p = Default /\ ~Calm)

\* commitTablePresetFileMigrationVersion comes last: data.json says that presets
\* are migrated when all that the user had are in files, bound, with what was
\* last saved of them in a backup and their old files gone.  This holds however
\* often the process ends and whatever is edited as long as no call fails, and
\* after calls that failed for what is not edited, has no other file in the
\* vault and is no customised default preset: a start can take that for missing
\* and put the program's in its place.
VersionMeansMoved ==
    data.version = 1 =>
        \A p \in Held(content) :
            \/ Calm
            \/ None("edits") /\ NoForeignFile /\ (p # Default \/ DefaultUntouched)
            => Moved(p)

\* Nothing the user saved is lost, however often a run is interrupted and
\* whatever is saved meanwhile: as long as no call fails it is in the old file of
\* the preset or in its backup.  Of a default preset the user had changed it may
\* be in the table file only (load of the legacy store brings its own default
\* preset back, whose removal deletes the old file).  After one call that failed,
\* when the user edits what is not migrated, it may be in the table file only as
\* well, and this holds until the run is tried again.  Presets in conflict with
\* another file are left out: the next save deletes their old files.
ContentKept ==
    NoForeignFile =>
        \A p \in Held(content) :
            /\ Calm => content[p] \in {sidecar[p], backup[p]}
                           \cup (IF p = Default /\ ~DefaultUntouched THEN {file[p]} ELSE {})
            /\ OneFailed /\ None("retries") /\ p # Default =>
                   content[p] \in {sidecar[p], backup[p], file[p]}

\* A start that finds no preset listed or bound, and makes the default preset.
Emptied == pc = "down" /\ indexed = {} /\ ~Authority

\* What is only interrupted completes: where no call fails and no preset has
\* another file, the migration ends with its version committed and its journal
\* completed, if the default preset is the program's or no restart finds the
\* store empty (runTablePresetFileMigration runs again at every start).
Completes ==
    /\ NoForeignFile /\ began.bounds["failures"] = 0
    /\ began.sidecar[Default] = Factory \/ []~Emptied
    => <>[](data.version = 1 /\ log.status = "completed")

=============================================================================
