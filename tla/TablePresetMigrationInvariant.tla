--------------------- MODULE TablePresetMigrationInvariant ---------------------
(***************************************************************************)
(* The inductive invariants behind the theorems about                      *)
(* TablePresetMigration, in parts.  What holds however many calls fail is  *)
(* only the types and that a bound is never overdrawn.  CalmInv holds as   *)
(* long as no call fails, whatever the user edits and whatever files of    *)
(* the same ids are in the vault; SmoothInv when there were no such files  *)
(* and no start has put the program's default preset in the place of the   *)
(* user's.                                                                 *)
(***************************************************************************)
EXTENDS TablePresetMigration

\* What is spent of a bound is never given back.
Within == \A kind \in Kinds : left[kind] <= began.bounds[kind]

Loading  == {"down", "load"}
Starting == Loading \cup {"hydrated", "saving"}

\* A run is at an item, between two of them or at its end.
InRun == InHand \cup {"items", "failed", "version", "close"}

\* The item in hand is bound.
AfterBinding == {"bound", "backup", "remove", "moved"}

----------------------------------------------------------------------------
(* Saves *)

\* Until a run is over for the first time there is nothing to be saved; a start
\* saves on its own.
StartsAlone ==
    /\ pc \in Starting => ~ready /\ editable = {} /\ queued = {}
    /\ editable # {} => ready
    /\ pc = "down" => turn = Free
    /\ pc = "load" /\ turn.phase # "free" =>
         turn.by = "load" /\ turn.phase \in {"store", "done"}
    /\ pc \notin Loading => turn.by # "load"

\* A save packs the settings of its turn, which have every binding data.json has.
Packed ==
    /\ turn.phase \notin {"undo", "failed"}
    /\ turn.by = "none" => turn.phase = "free"
    /\ pc # "down" => pkg = data
    /\ pc \notin Loading => data.bound \subseteq mem.bound
    /\ turn.phase = "data" =>
         /\ data.bound \subseteq turn.pack.bound /\ turn.pack.bound \subseteq mem.bound
         /\ turn.pack.version = 1 => mem.version = 1

SavesOK == StartsAlone /\ Packed

----------------------------------------------------------------------------
(* The item in hand *)

\* Its binding is committed before its sidecar is copied, ...
BindingOK ==
    /\ pc = "binding" =>
         /\ turn.by = "binding" /\ at \in mem.bound
         /\ turn.phase = "data" => at \in turn.pack.bound
         /\ turn.phase = "done" => at \in data.bound
    /\ pc \in AfterBinding => at \in data.bound

\* ... no save writes a sidecar from then on, and its copy is compared.
BackupOK ==
    /\ pc \in AfterBinding /\ turn.phase = "store" => at \notin turn.rest
    /\ pc = "remove" => sidecar[at] # 0 /\ backup[at] = sidecar[at]
    /\ pc = "moved" => backup[at] # 0

----------------------------------------------------------------------------
(* Journals *)

ItemOK(i) == /\ i.class = "none" => i.outcome = "none"
             /\ i.class = "blocked" => i.outcome = "blocked"
             /\ i.class # "none" => i.sig # 0

Movable(i) == i.class \notin {"none", "blocked"}
Settles(i) == i.outcome \in {"none", "backed-up", "blocked"}

\* The journal on disk is the one in memory, and that of the run.
InStep ==
    /\ pc \notin Starting => kept.items = log.items
    /\ pc \in InRun => work.items = log.items

JournalsOK ==
    /\ InStep
    /\ \A p \in Presets : /\ ItemOK(log.items[p])
                          /\ pc = "open" => ItemOK(work.items[p])

\* What the run has not before it is settled, but for the item in hand.
RunOK ==
    /\ pc \in InHand \cup {"items"} =>
         \A p \in Presets : /\ p \in todo => Movable(work.items[p])
                            /\ p \in todo \/ Settles(work.items[p])
                                          \/ (pc \in InHand /\ p = at)
    /\ pc \in InHand \cup {"failed"} /\ at # NoOne => Movable(work.items[at])

----------------------------------------------------------------------------
(* The version and the backups *)

AllMoved == \A p \in Presets : log.items[p].outcome \in {"none", "backed-up"}

VersionOK ==
    /\ data.version = 1 => mem.version = 1 \/ pc \in Loading
    /\ data.version = 1 \/ mem.version = 1 =>
         /\ AllMoved
         /\ pc \in Starting \cup {"loaded", "version", "close", "registry", "idle"}

BackedUp(j) == \A p \in Presets : j.items[p].outcome = "backed-up" =>
                                     p \in data.bound /\ backup[p] # 0

BackupsOK == BackedUp(log) /\ (pc = "open" => BackedUp(work))

----------------------------------------------------------------------------
CalmInv == /\ SavesOK /\ BindingOK /\ BackupOK /\ JournalsOK /\ RunOK
           /\ VersionOK /\ BackupsOK

MigrationInv == TypeOK /\ Within /\ (Calm => CalmInv)

----------------------------------------------------------------------------
(* What holds besides when no preset had another file in the vault and no    *)
(* start has put the program's default preset in the place of the user's:    *)
(* such a run is only ever interrupted, and the first one that gets through  *)
(* commits the version.                                                      *)

had == began.sidecar

\* The store is as its constructor makes it.
Unread == pc = "down" \/ (pc = "load" /\ turn.phase = "store")

\* A preset has one content, wherever it is.
ValuesOK ==
    /\ \A p \in Presets :
         /\ had[p] # 2 /\ content[p] = had[p]
         /\ {sidecar[p], shown[p], turn.next[p], staged[p], file[p], backup[p]}
                \subseteq {0, had[p]}
         /\ ~Unread => legacy[p] \in {0, had[p]}
         /\ p = at => hand.read \in {0, had[p]}
    /\ pc = "down" => legacy = Defaults

\* No item is blocked or fails.
CleanItem(i, p) ==
    /\ i.class = "none" => i = NoItem
    /\ i.class # "none" => i.sig = had[p] /\ had[p] # 0 /\ i.outcome # "none"
    /\ i.class # "blocked" /\ i.outcome \notin {"blocked", "failed"}
    /\ i.class \notin {"none", "create"} => file[p] # 0

CleanOK ==
    /\ \A p \in Presets : /\ CleanItem(log.items[p], p)
                          /\ pc = "open" => CleanItem(work.items[p], p)
    /\ pc \notin {"failed", "trash"}

\* A binding needs its file.
FilesOK ==
    /\ \A p \in data.bound \cup mem.bound : file[p] # 0
    /\ pc \in {"verify", "binding"} \cup AfterBinding => file[at] # 0
    /\ pc \in {"stage", "staged", "rename"} => file[at] = 0 /\ hand.read # 0
    /\ pc = "stage" => staged[at] = 0
    /\ pc \in {"staged", "rename"} => staged[at] # 0

\* The old file of a preset goes when its backup is there, and stays away.
KeptOK ==
    /\ \A p \in Presets :
         /\ had[p] # 0 /\ sidecar[p] = 0 => backup[p] # 0 /\ p \in data.bound
         /\ log.items[p].outcome = "backed-up" => sidecar[p] = 0
         /\ pc = "open" /\ work.items[p].outcome = "backed-up" => sidecar[p] = 0
    /\ pc = "moved" => sidecar[at] = 0

\* No save deletes an old file, or writes that of a bound preset.
StoreOK ==
    /\ pc \notin Loading /\ mem.version = 0 =>
         /\ \A p \in Presets : legacy[p] # 0 => p \in mem.bound \/ shown[p] # 0
         /\ \E p \in Presets : shown[p] # 0 \/ p \in mem.bound
    /\ pc = "load" /\ turn.phase # "store" => Authority \/ \E p \in Presets : legacy[p] # 0
    /\ turn.phase = "store" =>
         /\ \A p \in turn.rest : turn.next[p] # 0
         /\ \A p \in Presets : turn.next[p] # 0 \/ p \in turn.order => p \notin data.bound
         /\ pc = "load" => \E p \in Presets : turn.next[p] # 0
         /\ pc \notin Loading =>
              /\ mem.version = 0
              /\ \A p \in Presets : /\ turn.next[p] # 0 => shown[p] # 0
                                    /\ turn.next[p] # 0 \/ p \in turn.order => p \notin mem.bound

\* The index lists no bound preset.
IndexOK ==
    /\ \A p \in indexed \cup data.order \cup mem.order \cup turn.order \cup turn.pack.order :
         had[p] # 0
    /\ \A p \in indexed : /\ p \notin data.bound
                          /\ ~Unread => p \in known.serialized
                          /\ pc = "load" /\ turn.phase = "store" => p \in turn.order
                          /\ pc \notin Loading /\ turn.phase # "store" => p \notin mem.bound
    /\ ~Unread => \A p \in known.order : had[p] # 0
    /\ known.pending = {}

\* A preset leaves the store only when it has an item and a file.
Early(p) == had[p] # 0 /\ (file[p] = 0 \/ log.items[p].class = "none")

EarlyOK ==
    /\ \A p \in Presets : Early(p) =>
         /\ p \in indexed /\ sidecar[p] # 0 /\ p \notin data.bound
         /\ pc \notin Loading => p \notin mem.bound /\ shown[p] # 0
         /\ turn.phase = "store" => turn.next[p] # 0 /\ p \in turn.order
         /\ ~Unread => legacy[p] # 0
    /\ pc = "open" => \A p \in Presets : had[p] # 0 => work.items[p].class # "none"
    /\ pc \in InRun => \A p \in Presets : had[p] # 0 => log.items[p].class # "none"

\* The registry comes after the version.
DoneOK ==
    /\ ready \/ queued # {} \/ pc \in {"version", "close", "registry", "idle"} =>
         mem.version = 1
    /\ data.version = 1 \/ mem.version = 1 =>
         \A p \in Presets : had[p] # 0 => log.items[p].class # "none"
    /\ ready => \A p \in Presets : shown[p] = 0

SmoothInv == /\ ValuesOK /\ CleanOK /\ FilesOK /\ KeptOK /\ StoreOK /\ IndexOK
             /\ EarlyOK /\ DoneOK

\* A start may find the store empty only if the default preset was the program's.
Unemptied == Emptied => began.sidecar[Default] = Factory

=============================================================================
