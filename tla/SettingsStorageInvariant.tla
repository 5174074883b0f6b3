----------------------- MODULE SettingsStorageInvariant -----------------------
(***************************************************************************)
(* The inductive invariant of SettingsStorage: the types, with no value    *)
(* newer than the clock; what the three queues know of each other; what    *)
(* each position of a save, a pin or a reload has built; and how the       *)
(* settings, the package and the file are ordered.                         *)
(***************************************************************************)
EXTENDS SettingsStorage

----------------------------------------------------------------------------
(* Types: everything up to the time n *)

Pins(n)   == [at : 0 .. n, on : BOOLEAN]
Parts(n)  == UNION {[S -> 0 .. n] : S \in SUBSET Fields}
Package(n) == [vals : Parts(n), pin : Pins(n), favorites : BOOLEAN, bad : BOOLEAN]
Whole(n)  == [vals : [Fields -> 0 .. n], pin : Pins(n), favorites : BOOLEAN, bad : BOOLEAN]
Files(n)  == [form : {"package", "other", "malformed", "missing"}, id : 0 .. n, pkg : Package(n)]
Jobs(n)   == [kind : {"initial", "save", "update", "reload", "seed"},
              field : Fields \cup {Nothing}, value : 0 .. n]

FilesTyped ==
    /\ disk \in Files(clock) /\ backups \subseteq Files(clock)
    /\ disk.form # "package" => disk.pkg = Defaults
MemoryTyped ==
    /\ settings \in [Fields -> 0 .. clock] /\ package \in Whole(clock)
    /\ cache \in Pins(clock) /\ paused \in {"no", "read", "explicit"}
QueuesTyped ==
    /\ phase \in {"off", "reading", "saving", "running"}
    /\ jobs \in Seq(Jobs(clock)) /\ busy \in BOOLEAN
    /\ \A i \in DOMAIN jobs : jobs[i].kind = "update" => jobs[i].field \in Fields
    /\ pins \in Seq(BOOLEAN) /\ pinned \in 0 .. clock
    /\ step \in {"idle", "backup", "normalise", "staged", "preserve", "write"}
HistoryTyped ==
    /\ clock \in Nat /\ left \in [Kinds -> Nat]
    /\ acked \in [Fields -> 0 .. clock] /\ held \in 0 .. clock
    /\ unread \in BOOLEAN /\ foreign \in BOOLEAN /\ unsaved \in BOOLEAN

Typed == FilesTyped /\ MemoryTyped /\ QueuesTyped /\ HistoryTyped

----------------------------------------------------------------------------
(* The queues *)

\* The running job and the running pin change each have one turn in saveQueue.
Turns ==
    /\ store \in {<<>>, <<"settings">>, <<"pin">>, <<"settings", "pin">>, <<"pin", "settings">>}
    /\ busy <=> store \notin {<<>>, <<"pin">>}
    /\ pinned # 0 <=> store \notin {<<>>, <<"settings">>}
    /\ busy => jobs # <<>>
    /\ pinned # 0 => pins # <<>>

Live == phase \in {"saving", "running"}

\* Between two sessions, and before the package is read, nothing is queued.
PhaseInv ==
    /\ ~Live => jobs = <<>> /\ ~busy /\ pins = <<>> /\ pinned = 0
    /\ phase = "off" => step = "idle"
    /\ phase = "reading" => step \in {"idle", "backup", "normalise"}
    /\ phase = "saving" => jobs = <<Save("initial")>> /\ pins = <<>>
    /\ phase = "running" => \A i \in DOMAIN jobs : jobs[i].kind # "initial"

\* One check of the file at a time, whose favorites are saved before all else.
ReloadsAlone ==
    /\ \A i, j \in DOMAIN jobs :
           {jobs[i].kind, jobs[j].kind} \subseteq {"reload", "seed"} => i = j
    /\ \A i \in DOMAIN jobs : jobs[i].kind = "seed" => i = 1

\* Who is at which step.
StepInv ==
    Live => /\ step # "normalise"
            /\ step # "idle" => store # <<>>
            /\ step \in {"backup", "staged", "preserve"} => AtHead

QueueInv == Turns /\ PhaseInv /\ ReloadsAlone /\ StepInv

----------------------------------------------------------------------------
(* What a position has built *)

Running   == busy /\ Saving
AtReload  == Live /\ step # "idle" /\ AtHead
AtStartup == phase = "reading" /\ step # "idle"

\* A save holds the settings as they were, an update with its value; what it
\* restores is what is committed, and writes are not suspended while it runs.
SaveInv ==
    Running =>
        /\ snapshot \in Whole(clock) /\ previous = package.vals /\ paused = "no"
        /\ Head(jobs).kind = "update" =>
               snapshot.vals[Head(jobs).field] = Head(jobs).value
        /\ step = "write" /\ Head(store) = "settings" => next = Rebased(snapshot)

PinInv ==
    Live /\ step = "write" /\ Head(store) = "pin" =>
        next \in Whole(clock) /\ next = [package EXCEPT !.pin = next.pin]

\* A reload or a startup has read a file, and adopts what it makes of it.
LoadedInv ==
    /\ AtReload \/ AtStartup => loaded \in Files(clock)
    /\ AtReload /\ step # "backup" => next = Normal(Merge(loaded.pkg, package))
    /\ AtStartup /\ step # "backup" => next = Normal(Merge(loaded.pkg, Defaults))

BuiltInv == SaveInv /\ PinInv /\ LoadedInv

----------------------------------------------------------------------------
(* What was saved is kept *)

Low(vals) == \A f \in DOMAIN vals : vals[f] >= acked[f]
Keeps(p)  == p.pin.at >= held /\ Low(p.vals)

\* In memory, ...
MemoryKeeps ==
    Live => /\ Keeps(package) /\ cache.at >= held /\ Low(settings)
            /\ Running => Low(snapshot.vals)
            /\ Running /\ Head(jobs).kind = "update" =>
                   settings[Head(jobs).field] >= Head(jobs).value
            /\ pinned # 0 => pinned >= held
            /\ step = "write" /\ Head(store) = "pin" => next.pin.at >= held

\* ... in the file, all of which counts between two sessions, and in what was read.
FileKeeps ==
    /\ ~Live => Keeps(Merge(disk.pkg, Defaults))
    /\ disk.form = "package" => Low(disk.pkg.vals)
    /\ AtReload => Low(loaded.pkg.vals)
    /\ AtStartup => Keeps(Merge(loaded.pkg, Defaults))

\* The value of an update that waits is nowhere else, and newer than those before.
Unused(f, v) ==
    /\ v > acked[f] /\ v # settings[f] /\ v # package.vals[f]
    /\ f \in DOMAIN disk.pkg.vals => v # disk.pkg.vals[f]
    /\ AtReload /\ f \in DOMAIN loaded.pkg.vals => v # loaded.pkg.vals[f]
    /\ Running => v # snapshot.vals[f]
UpdatesInv ==
    /\ \A i \in DOMAIN jobs : jobs[i].kind = "update" =>
           IF i = 1 /\ busy THEN jobs[i].value # package.vals[jobs[i].field]
                                 /\ jobs[i].value > acked[jobs[i].field]
           ELSE Unused(jobs[i].field, jobs[i].value)
    /\ \A i, j \in DOMAIN jobs : i < j /\ jobs[i].kind = "update" /\ jobs[j].kind = "update" =>
           jobs[i].value < jobs[j].value

KeptInv == MemoryKeeps /\ FileKeeps /\ UpdatesInv

----------------------------------------------------------------------------
(* What agrees *)

\* The save of a direct change is still to begin.
ToSave == \E i \in DOMAIN jobs : jobs[i].kind = "save" /\ (i > 1 \/ ~busy)

SettingsAgree ==
    Live => /\ ToSave \/ (IF Running THEN settings = snapshot.vals
                          ELSE unsaved \/ settings = package.vals)
            /\ jobs # <<>> /\ Head(jobs).kind = "seed" /\ paused = "no" =>
                   ToSave \/ settings = package.vals
            /\ phase = "saving" => settings = package.vals

\* The file holds the package, unless Sync has replaced it.
FileAgrees ==
    /\ Live /\ ~foreign => Merge(disk.pkg, Defaults) = package
    /\ AtStartup /\ ~foreign => loaded = disk

AgreeInv == SettingsAgree /\ FileAgrees

----------------------------------------------------------------------------
(* What could not be read *)

UnreadInv ==
    unread => \/ disk \in backups
              \/ step = "idle" /\ (paused # "no" \/ ~Live)
              \/ step = "backup" /\ Readable
=============================================================================
