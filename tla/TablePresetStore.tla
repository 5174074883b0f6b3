---------------------------- MODULE TablePresetStore ----------------------------
(***************************************************************************)
(* Where the settings keep the Table presets that have no file of their    *)
(* own: one file per preset (its sidecar) and an index.json beside them    *)
(* (table-preset-store.ts), and data.json with the ids in order, the       *)
(* bindings of presets to files of the vault and the version of the        *)
(* migration.  The settings are loaded at startup and saved in turns       *)
(* (persistSettings of operon-storage.ts): sidecars, index, then data.json *)
(* one after the other, and back to the presets the store had when         *)
(* data.json cannot be written.  Every write may fail, before or after it  *)
(* took effect, and the process may end between any two of them.           *)
(*                                                                         *)
(* A store never has no preset at all: as long as nothing is bound to a    *)
(* file, load and save put the default preset where there would be none.   *)
(*                                                                         *)
(* The contents of a preset are versions: 0 is none, 1 what the user made  *)
(* of it before the migration, 2 what an edit makes of it, Factory what    *)
(* the program makes of the default preset.                                *)
(***************************************************************************)
EXTENDS Naturals

CONSTANTS
    Presets,       \* ids of Table presets
    Default,       \* the one the program makes: DEFAULT_TABLE_PRESET_ID
    Bounds         \* how many failures, crashes, retries and edits there may be

Factory  == 3
Versions == 0..Factory
Kinds    == {"failures", "crashes", "retries", "edits"}

ASSUME TablePresetStoreAssumption ==
    /\ Default \in Presets
    /\ Bounds \subseteq [Kinds -> Nat]

VARIABLES
    sidecar,    \* what the old file of a preset holds
    indexed,    \* the ids in index.json
    data,       \* data.json: presets bound to a file, migration version, ids in order
    mem,        \* the same of the settings in memory
    pkg,        \* data.json as the data package store believes it to be
    shown,      \* settings.tablePresets, those without a file
    legacy,     \* the presets of the legacy store in memory
    known,      \* its ids in order, the ids of the index it wrote or read, and
                \* those of them whose sidecar was missing
    turn,       \* who holds the queue of settings saves, and how far the save is
    content,    \* history: the last version of a preset the user saved
    left        \* how much of each bound is left

store     == <<legacy, known>>
storeVars == <<sidecar, indexed, data, mem, pkg, shown, store, turn, content>>

----------------------------------------------------------------------------
NoPreset    == [p \in Presets |-> 0]
NoSettings  == [bound |-> {}, version |-> 0, order |-> {}]
Defaults    == [NoPreset EXCEPT ![Default] = Factory]
Constructed == [order |-> {Default}, serialized |-> {Default}, pending |-> {}]

Held(presets) == {p \in Presets : presets[p] # 0}

Spend(kind) == left[kind] > 0 /\ left' = [left EXCEPT ![kind] = @ - 1]

\* A call that fails (~ok) uses up a failure and may have had its effect.
Fault(ok)       == IF ok THEN UNCHANGED left ELSE Spend("failures")
Lands(ok, x, v) == x' = v \/ (~ok /\ x' = x)

----------------------------------------------------------------------------
(* A turn of the queue: persistSettings. *)

Free == [by |-> "none", phase |-> "free", next |-> NoPreset, order |-> {}, rest |-> {},
         active |-> FALSE, prev |-> NoPreset, prevOrder |-> {}, keep |-> {},
         pack |-> NoSettings, was |-> NoPreset]

Changed(next) == {p \in Held(next) : next[p] # legacy[p] \/ sidecar[p] = 0}

Rest_Unpreserved(next, keep) == Changed(next) \cup (Held(legacy) \ Held(next))

\* The sidecars replaceAll(next) has to write, or to delete unless it keeps them.
Rest(next, keep) == Changed(next) \cup (Held(legacy) \ (Held(next) \cup keep))

\* migrateSettings: with nothing bound the settings have one preset at least.
Seeded(settings, presets) ==
    presets = NoPreset /\ settings.bound = {} /\ settings.version = 0

\* The start of a save of settings, which leaves bound presets out of the store.
\* The store is no longer written when the migration is complete.
Begin(by, settings) ==
    LET share  == [p \in Presets |-> IF p \in settings.bound THEN 0 ELSE shown[p]]
        seeded == Seeded(settings, share)
        next   == IF seeded THEN Defaults ELSE share
        now    == [settings EXCEPT !.order = @ \cup Held(next)]
    IN
    /\ turn.by = "none"
    /\ mem' = now
    /\ shown' = IF seeded THEN Defaults ELSE shown
    /\ turn' = IF now.version = 1
               THEN [Free EXCEPT !.by = by, !.phase = "data", !.pack = now]
               ELSE [by |-> by, phase |-> "store", next |-> next,
                     order |-> now.order \ now.bound, rest |-> Rest(next, now.bound),
                     active |-> TRUE, prev |-> legacy, prevOrder |-> known.order,
                     keep |-> now.bound, pack |-> NoSettings, was |-> content]

\* replaceAll writes sidecars, then deletes some.  What the user saved of a
\* preset is taken back when its sidecar is.
WriteSidecar(p, ok) ==
    /\ turn.phase \in {"store", "undo"} /\ p \in turn.rest
    /\ turn.next[p] = 0 => turn.rest \cap Held(turn.next) = {}
    /\ Fault(ok)
    /\ Lands(ok, sidecar, [sidecar EXCEPT ![p] = turn.next[p]])
    /\ content' = IF sidecar' = sidecar \/ turn.next[p] = 0 THEN content
                  ELSE IF turn.phase = "undo" THEN [content EXCEPT ![p] = turn.was[p]]
                  ELSE IF turn.next[p] = 2 THEN [content EXCEPT ![p] = 2] ELSE content
    /\ turn' = [turn EXCEPT !.rest  = @ \ {p},
                            !.phase = IF ok THEN @ ELSE "failed"]
    /\ UNCHANGED <<indexed, data, mem, pkg, shown, store>>

\* ... and then the index, which lists sidecars that are missing as well.  With
\* the same ids it is written if a setting kept beside them has changed.
WriteIndex(ok) ==
    LET listed == turn.order \cup known.pending IN
    /\ turn.phase \in {"store", "undo"} /\ turn.rest = {}
    /\ \/ Fault(ok) /\ Lands(ok, indexed, listed)
       \/ ok /\ listed = known.serialized /\ UNCHANGED <<indexed, left>>
    /\ IF ok THEN /\ legacy' = turn.next
                  /\ known' = [order |-> turn.order, serialized |-> listed,
                               pending |-> known.pending \ turn.order]
       ELSE UNCHANGED store
    /\ turn' = IF ok /\ turn.phase = "store"
               THEN IF turn.by = "load" THEN [turn EXCEPT !.phase = "done"]
                    ELSE [turn EXCEPT !.phase = "data", !.pack = mem]
               ELSE [turn EXCEPT !.phase = "failed"]
    /\ UNCHANGED <<sidecar, data, mem, pkg, shown, content>>

\* replaceAll puts back what the store had; it keeps its own when that is none.
Undo ==
    LET next == IF turn.prev = NoPreset THEN legacy ELSE turn.prev IN
    [turn EXCEPT !.phase = "undo", !.next = next, !.rest = Rest(next, turn.keep),
                 !.order = turn.prevOrder \cup Held(next)]

\* updateDataPackage writes data.json unless it believes that nothing changed.
WriteData(ok) ==
    /\ turn.phase = "data"
    /\ \/ Fault(ok) /\ Lands(ok, data, turn.pack)
       \/ ok /\ turn.pack = pkg /\ UNCHANGED <<data, left>>
    /\ pkg' = IF ok THEN turn.pack ELSE pkg
    /\ turn' = IF ok THEN [turn EXCEPT !.phase = "done"]
               ELSE IF turn.active THEN Undo
               ELSE [turn EXCEPT !.phase = "failed"]
    /\ UNCHANGED <<sidecar, indexed, mem, shown, store, content>>

Save == \E ok \in BOOLEAN : \/ \E p \in Presets : WriteSidecar(p, ok)
                            \/ WriteIndex(ok) \/ WriteData(ok)

\* The save is over for the one who waits for it.
Settled(by, phase) == turn.by = by /\ turn.phase = phase /\ turn' = Free

----------------------------------------------------------------------------
(* Startup: hydrateFromDataPackage. *)

Authority == data.bound # {} \/ data.version = 1
Listed    == indexed \ data.bound
Missing   == {p \in Listed : sidecar[p] = 0}

\* The presets the index lists, or the default preset where there are none.
Found ==
    LET found == [p \in Presets |-> IF p \in Listed THEN sidecar[p] ELSE 0] IN
    IF found = NoPreset /\ ~Authority THEN Defaults ELSE found

FoundOrder == Listed \cup Held(Found)

\* load: the index is left alone while sidecars are missing, and else written if it
\* is not what it would be; replaceAll puts the constructor's preset for none.
Load ==
    /\ pkg' = data
    /\ IF Missing = {} /\ FoundOrder # indexed
       THEN LET next == IF Found = NoPreset THEN Defaults ELSE Found IN
            /\ turn' = [Free EXCEPT !.by = "load", !.phase = "store", !.next = next,
                                    !.order = FoundOrder \cup Held(next),
                                    !.rest = Rest(next, {})]
            /\ UNCHANGED store
       ELSE /\ legacy' = Found
            /\ known' = [order |-> FoundOrder, serialized |-> indexed, pending |-> Missing]
            /\ UNCHANGED turn
    /\ UNCHANGED <<sidecar, indexed, data, mem, shown, content>>

\* The settings take the presets from the store and, when files account for
\* some, the order from data.json.
Hydrate ==
    /\ turn.by = "none" \/ Settled("load", "done")
    /\ turn.by = "none" => UNCHANGED turn
    /\ mem' = [data EXCEPT !.order = IF Authority THEN @ ELSE known.order]
    /\ shown' = legacy
    /\ UNCHANGED <<sidecar, indexed, data, pkg, store, content>>

\* The process is gone; the next one constructs its stores.
Ended == /\ mem' = NoSettings /\ pkg' = NoSettings /\ shown' = NoPreset
         /\ legacy' = Defaults /\ known' = Constructed /\ turn' = Free
         /\ UNCHANGED <<sidecar, indexed, data, content>>

----------------------------------------------------------------------------
Callers  == {"none", "load", "startup", "binding", "version", "edit", "other"}
Settings == [bound : SUBSET Presets, version : {0, 1}, order : SUBSET Presets]
Turns    == [by : Callers, phase : {"free", "store", "data", "undo", "done", "failed"},
             next : [Presets -> Versions], order : SUBSET Presets, rest : SUBSET Presets,
             active : BOOLEAN, prev : [Presets -> Versions], prevOrder : SUBSET Presets,
             keep : SUBSET Presets, pack : Settings, was : [Presets -> Versions]]

StoreTypeOK ==
    /\ {sidecar, shown, legacy, content} \subseteq [Presets -> Versions]
    /\ indexed \subseteq Presets
    /\ {data, mem, pkg} \subseteq Settings
    /\ known \in [order : SUBSET Presets, serialized : SUBSET Presets,
                  pending : SUBSET Presets]
    /\ turn \in Turns
    /\ left \in [Kinds -> Nat]

=============================================================================
