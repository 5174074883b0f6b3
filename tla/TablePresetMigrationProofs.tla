----------------------- MODULE TablePresetMigrationProofs -----------------------
(***************************************************************************)
(* The safety of TablePresetMigration, for any presets, any files of their *)
(* ids and any number of crashes, retries and edits: the types however     *)
(* many calls fail, the rest as long as none does.                         *)
(***************************************************************************)
EXTENDS TablePresetMigrationInvariant, TLAPS

----------------------------------------------------------------------------
(* What the helpers do *)

\* A bound that is spent is below what it was.
LEMMA Spending ==
    ASSUME TypeOK, Within, NEW kind \in Kinds, Spend(kind), began' = began
    PROVE  left' \in [Kinds -> Nat] /\ Within' /\ ~None(kind)'
           /\ \A k \in Kinds \ {kind} : left'[k] = left[k]
<1>1. /\ left \in [Kinds -> Nat] /\ began.bounds \in [Kinds -> Nat]
      /\ \A k \in Kinds : left[k] <= began.bounds[k]
  BY TablePresetStoreAssumption DEF TypeOK, StoreTypeOK, Within
<1>2. left[kind] > 0 /\ left' = [left EXCEPT ![kind] = left[kind] - 1]
  BY DEF Spend
<1>3. left[kind] - 1 \in Nat
  BY <1>1, <1>2
<1>4. left' \in [Kinds -> Nat]
  BY <1>1, <1>2, <1>3
<1>5. left'[kind] = left[kind] - 1 /\ \A k \in Kinds \ {kind} : left'[k] = left[k]
  BY <1>1, <1>2
<1>6. \A k \in Kinds : left'[k] <= began.bounds[k] /\ (k = kind => left'[k] # began.bounds[k])
  BY <1>1, <1>3, <1>5
<1> QED
  BY <1>4, <1>5, <1>6 DEF Within, None

\* A call fails only by using up a failure.
LEMMA Faulting ==
    ASSUME TypeOK, Within, NEW ok \in BOOLEAN, Fault(ok), began' = began
    PROVE  left' \in [Kinds -> Nat] /\ Within' /\ (Calm' => ok /\ Calm)
<1>1. "failures" \in Kinds
  BY DEF Kinds
<1>2. CASE ok
  BY <1>2 DEF Fault, TypeOK, StoreTypeOK, Within, Calm, None
<1>3. CASE ~ok
  BY <1>3, <1>1, Spending DEF Fault, Calm
<1> QED
  BY <1>2, <1>3

\* What is not a failing call leaves it calm or not, as it was.
LEMMA Keeping ==
    ASSUME TypeOK, Within, began' = began, UNCHANGED left
    PROVE  left' \in [Kinds -> Nat] /\ Within' /\ (Calm' => Calm)
BY DEF TypeOK, StoreTypeOK, Within, Calm, None

LEMMA Using ==
    ASSUME TypeOK, Within, NEW kind \in Kinds \ {"failures"}, Spend(kind), began' = began
    PROVE  left' \in [Kinds -> Nat] /\ Within' /\ (Calm' => Calm)
<1>1. "failures" \in Kinds
  BY DEF Kinds
<1> QED
  BY <1>1, Spending DEF Calm, None

----------------------------------------------------------------------------
(* Saves of settings *)

LEMMA Typed ==
    ASSUME StoreTypeOK
    PROVE  /\ sidecar \in [Presets -> Versions] /\ shown \in [Presets -> Versions]
           /\ legacy \in [Presets -> Versions] /\ content \in [Presets -> Versions]
           /\ data \in Settings /\ mem \in Settings /\ pkg \in Settings
           /\ known.order \in SUBSET Presets
BY DEF StoreTypeOK

LEMMA Stored ==
    ASSUME NEW presets \in [Presets -> Versions]
    PROVE  /\ Held(presets) \in SUBSET Presets
           /\ \A keep : Rest(presets, keep) \in SUBSET Presets
BY DEF Held, Rest, Changed

LEMMA Given ==
    /\ NoPreset \in [Presets -> Versions] /\ Defaults \in [Presets -> Versions]
    /\ NoSettings \in Settings /\ Free \in Turns
    /\ Constructed \in [order : SUBSET Presets, serialized : SUBSET Presets,
                        pending : SUBSET Presets]
<1>1. 0 \in Versions /\ Factory \in Versions /\ 1 \in Versions /\ 2 \in Versions
  BY DEF Versions, Factory
<1>2. NoPreset \in [Presets -> Versions] /\ Defaults \in [Presets -> Versions]
  BY <1>1 DEF NoPreset, Defaults
<1>3. NoSettings \in Settings
  BY DEF NoSettings, Settings
<1>4. Free \in Turns
  BY <1>2, <1>3 DEF Free, Turns, Callers
<1> QED
  BY <1>2, <1>3, <1>4, TablePresetStoreAssumption DEF Constructed

\* A save begins with settings that have the bindings and the version it was given,
\* and leaves the sidecars of bound presets alone.
LEMMA Beginning ==
    ASSUME StoreTypeOK, NEW by \in Callers, NEW s \in Settings, Begin(by, s)
    PROVE  /\ mem' \in Settings /\ shown' \in [Presets -> Versions] /\ turn' \in Turns
           /\ turn.by = "none" /\ turn'.by = by
           /\ mem'.bound = s.bound /\ mem'.version = s.version
           /\ \/ turn'.phase = "data" /\ turn'.pack = mem'
              \/ turn'.phase = "store" /\ turn'.rest \cap s.bound = {}
<1> DEFINE share  == [p \in Presets |-> IF p \in s.bound THEN 0 ELSE shown[p]]
           seeded == Seeded(s, share)
           next   == IF seeded THEN Defaults ELSE share
           now    == [s EXCEPT !.order = @ \cup Held(next)]
<1>1. share \in [Presets -> Versions]
  BY Typed, Given DEF NoPreset
<1>2. next \in [Presets -> Versions]
  BY <1>1, Given
<1>3. now \in Settings /\ now.bound = s.bound /\ now.version = s.version
  BY <1>2, Stored DEF Settings
<1>4. /\ turn.by = "none" /\ mem' = now
      /\ shown' = IF seeded THEN Defaults ELSE shown
      /\ turn' = IF now.version = 1
                 THEN [Free EXCEPT !.by = by, !.phase = "data", !.pack = now]
                 ELSE [by |-> by, phase |-> "store", next |-> next,
                       order |-> now.order \ now.bound, rest |-> Rest(next, now.bound),
                       active |-> TRUE, prev |-> legacy, prevOrder |-> known.order,
                       keep |-> now.bound, pack |-> NoSettings, was |-> content]
  BY DEF Begin
<1>5. shown' \in [Presets -> Versions]
  BY <1>4, Given DEF StoreTypeOK
<1>6. Rest(next, now.bound) \cap s.bound = {}
  <2>1. \A p \in s.bound : next[p] = 0
    BY <1>3 DEF Seeded, Settings
  <2> QED
    BY <2>1, <1>3 DEF Rest, Changed, Held
<1>7. CASE now.version = 1
  <2>1. turn' = [Free EXCEPT !.by = by, !.phase = "data", !.pack = now]
    BY <1>4, <1>7
  <2>2. turn' \in Turns /\ turn'.phase = "data" /\ turn'.pack = now /\ turn'.by = by
    BY <2>1, <1>3, Given DEF Turns
  <2> QED
    BY <2>2, <1>3, <1>4, <1>5
<1>8. CASE now.version # 1
  <2> HIDE DEF next, now
  <2>1. turn' = [by |-> by, phase |-> "store", next |-> next,
                 order |-> now.order \ now.bound, rest |-> Rest(next, now.bound),
                 active |-> TRUE, prev |-> legacy, prevOrder |-> known.order,
                 keep |-> now.bound, pack |-> NoSettings, was |-> content]
    BY <1>4, <1>8
  <2>2. Rest(next, now.bound) \in SUBSET Presets
    BY <1>2, Stored
  <2>3. /\ now.order \in SUBSET Presets /\ now.bound \in SUBSET Presets
        /\ known.order \in SUBSET Presets
        /\ legacy \in [Presets -> Versions] /\ content \in [Presets -> Versions]
    BY <1>3, Typed DEF Settings
  <2>4. turn' \in Turns
    BY <2>1, <2>2, <2>3, <1>2, Given DEF Turns
  <2>5. turn'.phase = "store" /\ turn'.rest = Rest(next, now.bound) /\ turn'.by = by
    BY <2>1
  <2> QED
    BY <2>4, <2>5, <1>3, <1>4, <1>5, <1>6
<1> QED
  BY <1>7, <1>8

LEMMA SidecarTypes ==
    ASSUME StoreTypeOK, left' \in [Kinds -> Nat], NEW p \in Presets, NEW ok \in BOOLEAN,
           WriteSidecar(p, ok)
    PROVE  StoreTypeOK'
<1>1. /\ sidecar' = [sidecar EXCEPT ![p] = turn.next[p]] \/ sidecar' = sidecar
      /\ \/ content' = content \/ content' = [content EXCEPT ![p] = turn.was[p]]
         \/ content' = [content EXCEPT ![p] = 2]
      /\ turn' = [turn EXCEPT !.rest  = @ \ {p}, !.phase = IF ok THEN @ ELSE "failed"]
      /\ UNCHANGED <<indexed, data, mem, pkg, shown, legacy, known>>
  BY DEF WriteSidecar, Lands, store
<1>2. turn \in Turns /\ turn.next[p] \in Versions /\ turn.was[p] \in Versions /\ 2 \in Versions
  BY Given DEF StoreTypeOK, Turns, Versions, Factory
<1>3. sidecar' \in [Presets -> Versions] /\ content' \in [Presets -> Versions]
  BY <1>1, <1>2, Typed
<1>4. turn' \in Turns
  BY <1>1, <1>2 DEF Turns
<1> QED
  BY <1>1, <1>3, <1>4 DEF StoreTypeOK

LEMMA IndexTypes ==
    ASSUME StoreTypeOK, left' \in [Kinds -> Nat], NEW ok \in BOOLEAN, WriteIndex(ok)
    PROVE  StoreTypeOK'
<1> DEFINE listed == turn.order \cup known.pending
<1>1. /\ turn \in Turns
      /\ known \in [order : SUBSET Presets, serialized : SUBSET Presets,
                    pending : SUBSET Presets]
  BY DEF StoreTypeOK
<1>2. /\ indexed' = listed \/ indexed' = indexed
      /\ \/ /\ legacy' = turn.next
            /\ known' = [order |-> turn.order, serialized |-> listed,
                         pending |-> known.pending \ turn.order]
         \/ legacy' = legacy /\ known' = known
      /\ \/ turn' = [turn EXCEPT !.phase = "done"]
         \/ turn' = [turn EXCEPT !.phase = "data", !.pack = mem]
         \/ turn' = [turn EXCEPT !.phase = "failed"]
      /\ UNCHANGED <<sidecar, data, mem, pkg, shown, content>>
  BY DEF WriteIndex, Lands, store
<1>3. listed \in SUBSET Presets /\ turn.next \in [Presets -> Versions]
  BY <1>1 DEF Turns
<1>4. /\ legacy' \in [Presets -> Versions] /\ indexed' \subseteq Presets
      /\ known' \in [order : SUBSET Presets, serialized : SUBSET Presets,
                     pending : SUBSET Presets]
  <2> HIDE DEF listed
  <2> QED
    BY <1>1, <1>2, <1>3, Typed DEF StoreTypeOK, Turns
<1>5. turn' \in Turns
  BY <1>1, <1>2, Typed DEF Turns
<1> QED
  BY <1>2, <1>4, <1>5 DEF StoreTypeOK

LEMMA UndoTypes ==
    ASSUME StoreTypeOK
    PROVE  Undo \in Turns
<1> DEFINE next == IF turn.prev = NoPreset THEN legacy ELSE turn.prev
<1>1. turn \in Turns
  BY DEF StoreTypeOK
<1>2. next \in [Presets -> Versions] /\ turn.prevOrder \in SUBSET Presets
  BY <1>1, Typed DEF Turns
<1>3. Rest(next, turn.keep) \in SUBSET Presets /\ Held(next) \in SUBSET Presets
  BY <1>2, Stored
<1>4. Undo = [turn EXCEPT !.phase = "undo", !.next = next, !.rest = Rest(next, turn.keep),
                          !.order = turn.prevOrder \cup Held(next)]
  BY DEF Undo
<1> HIDE DEF next
<1> QED
  BY <1>1, <1>2, <1>3, <1>4 DEF Turns

LEMMA DataTypes ==
    ASSUME StoreTypeOK, left' \in [Kinds -> Nat], NEW ok \in BOOLEAN, WriteData(ok)
    PROVE  StoreTypeOK'
<1>1. turn \in Turns /\ turn.pack \in Settings
  BY DEF StoreTypeOK, Turns
<1>2. /\ data' = turn.pack \/ data' = data
      /\ pkg' = turn.pack \/ pkg' = pkg
      /\ \/ turn' = [turn EXCEPT !.phase = "done"] \/ turn' = Undo
         \/ turn' = [turn EXCEPT !.phase = "failed"]
      /\ UNCHANGED <<sidecar, indexed, mem, shown, legacy, known, content>>
  BY DEF WriteData, Lands, store
<1>3. turn' \in Turns
  BY <1>1, <1>2, UndoTypes DEF Turns
<1> QED
  BY <1>1, <1>2, <1>3 DEF StoreTypeOK

LEMMA LoadTypes ==
    ASSUME StoreTypeOK, UNCHANGED left, Load
    PROVE  StoreTypeOK'
<1> DEFINE next == IF Found = NoPreset THEN Defaults ELSE Found
<1>1. Found \in [Presets -> Versions]
  BY Typed, Given DEF Found, NoPreset
<1>2. next \in [Presets -> Versions]
  BY <1>1, Given
<1>3. /\ FoundOrder \in SUBSET Presets /\ Held(next) \in SUBSET Presets
      /\ Rest(next, {}) \in SUBSET Presets /\ Missing \in SUBSET Presets
  BY <1>1, <1>2, Stored DEF FoundOrder, Listed, Missing, StoreTypeOK
<1>4. CASE Missing = {} /\ FoundOrder # indexed
  <2>1. turn' = [Free EXCEPT !.by = "load", !.phase = "store", !.next = next,
                             !.order = FoundOrder \cup Held(next), !.rest = Rest(next, {})]
    BY <1>4 DEF Load
  <2> HIDE DEF next
  <2>2. turn' \in Turns
    BY <2>1, <1>2, <1>3, Given DEF Turns, Callers
  <2> QED
    BY <2>2, <1>4 DEF Load, StoreTypeOK, store
<1>5. CASE ~(Missing = {} /\ FoundOrder # indexed)
  <2>1. /\ legacy' = Found
        /\ known' = [order |-> FoundOrder, serialized |-> indexed, pending |-> Missing]
        /\ UNCHANGED <<turn, sidecar, indexed, data, mem, shown, content>> /\ pkg' = data
    BY <1>5 DEF Load
  <2>2. known' \in [order : SUBSET Presets, serialized : SUBSET Presets,
                    pending : SUBSET Presets]
    BY <2>1, <1>3 DEF StoreTypeOK
  <2> QED
    BY <2>1, <2>2, <1>1 DEF StoreTypeOK
<1> QED
  BY <1>4, <1>5

LEMMA HydrateTypes ==
    ASSUME StoreTypeOK, UNCHANGED left, Hydrate
    PROVE  StoreTypeOK'
<1>1. turn' \in Turns
  BY Given DEF Hydrate, Settled, StoreTypeOK
<1>2. mem' = [data EXCEPT !.order = IF Authority THEN @ ELSE known.order]
  BY DEF Hydrate
<1>3. mem' \in Settings
  BY <1>2, Typed DEF Settings
<1> QED
  BY <1>1, <1>3 DEF Hydrate, StoreTypeOK, store

LEMMA EndedTypes ==
    ASSUME StoreTypeOK, left' \in [Kinds -> Nat], Ended
    PROVE  StoreTypeOK'
BY Given DEF Ended, StoreTypeOK

----------------------------------------------------------------------------
(* Types *)

ItemType == [class : Classes, outcome : Outcomes, sig : Versions, made : Versions]

LEMMA ItemTypes ==
    /\ NoItem \in ItemType /\ NoJournal \in Journals
    /\ NoHand \in [preset : Presets \cup {NoOne}, read : Versions, made : Versions,
                   had : BOOLEAN]
    /\ NoEdit \in [shown : [Presets -> Versions], bound : SUBSET Presets,
                   order : SUBSET Presets]
<1>1. 0 \in Versions
  BY DEF Versions, Factory
<1>2. NoItem \in ItemType
  BY <1>1 DEF NoItem, ItemType, Classes, Outcomes
<1>3. NoJournal \in Journals
  BY <1>2 DEF NoJournal, Journals, ItemType, Statuses
<1> QED
  BY <1>1, <1>2, <1>3, Given DEF NoHand, NoEdit

LEMMA JournalTypes ==
    ASSUME TypeOK
    PROVE  /\ log \in Journals /\ kept \in Journals /\ work \in Journals
           /\ staged \in [Presets -> Versions] /\ file \in [Presets -> Versions]
           /\ backup \in [Presets -> Versions]
           /\ \A p \in Presets : /\ work.items[p] \in ItemType /\ kept.items[p] \in ItemType
                                 /\ log.items[p] \in ItemType
BY DEF TypeOK, Journals, ItemType

LEMMA NotedTypes ==
    ASSUME NEW i \in ItemType, NEW outcome \in Outcomes, NEW made \in Versions
    PROVE  /\ [i EXCEPT !.outcome = outcome] \in ItemType
           /\ [i EXCEPT !.outcome = outcome, !.made = made] \in ItemType
BY DEF ItemType

LEMMA WithItemTypes ==
    ASSUME NEW j \in Journals, NEW p \in Presets, NEW outcome \in Outcomes
    PROVE  WithItem(j, p, outcome) \in Journals
<1>1. j.items[p] \in ItemType /\ j.items \in [Presets -> ItemType] /\ j.status \in Statuses
  BY DEF Journals, ItemType
<1>2. [j.items[p] EXCEPT !.outcome = outcome] \in ItemType
  BY <1>1 DEF ItemType
<1>3. WithItem(j, p, outcome) =
        [j EXCEPT !.items = [j.items EXCEPT ![p] = [j.items[p] EXCEPT !.outcome = outcome]]]
  BY DEF WithItem, Journals
<1> QED
  BY <1>1, <1>2, <1>3 DEF Journals, ItemType

LEMMA PlanTypes ==
    ASSUME TypeOK
    PROVE  /\ Items \in [Presets -> ItemType]
           /\ \A p \in Presets :
                \/ Items[p] = kept.items[p]
                \/ /\ Items[p].class # "none" /\ Items[p].sig # 0
                   /\ Items[p].outcome = kept.items[p].outcome
                      \/ Items[p].outcome = "pending" \/ Items[p].outcome = "blocked"
                   /\ Items[p].class = "blocked" => Items[p].outcome = "blocked"
<1> SUFFICES ASSUME NEW p \in Presets
             PROVE  /\ Items[p] \in ItemType
                    /\ \/ Items[p] = kept.items[p]
                       \/ /\ Items[p].class # "none" /\ Items[p].sig # 0
                          /\ Items[p].outcome = kept.items[p].outcome
                             \/ Items[p].outcome = "pending" \/ Items[p].outcome = "blocked"
                          /\ Items[p].class = "blocked" => Items[p].outcome = "blocked"
  BY DEF Items
<1>1. kept.items[p] \in ItemType
  BY JournalTypes
<1>2. ASSUME NEW class \in Classes \ {"none"}, NEW sig \in Versions \ {0}
      PROVE  /\ PlannedItem(p, class, sig) \in ItemType
             /\ PlannedItem(p, class, sig).class = class
             /\ PlannedItem(p, class, sig).sig = sig
             /\ \/ PlannedItem(p, class, sig).outcome = kept.items[p].outcome
                \/ PlannedItem(p, class, sig).outcome \in {"pending", "blocked"}
             /\ class = "blocked" => PlannedItem(p, class, sig).outcome = "blocked"
  BY <1>1, <1>2 DEF PlannedItem, ItemType, Outcomes
<1>3. /\ sidecar[p] \in Versions /\ legacy[p] \in Versions /\ file[p] \in Versions
  BY Typed, JournalTypes DEF TypeOK
<1>4. LegacyClass(p) \in Classes \ {"none"} /\ BoundClass(p) \in Classes \ {"none"}
  BY DEF LegacyClass, BoundClass, Classes
<1>5. CASE p \notin mem.bound /\ legacy[p] # 0
  <2>1. Items[p] = PlannedItem(p, LegacyClass(p), Source(p))
    BY <1>5 DEF Items
  <2>2. Source(p) \in Versions \ {0}
    BY <1>3, <1>5 DEF Source
  <2> QED
    BY <2>1, <2>2, <1>2, <1>4
<1>6. CASE ~(p \notin mem.bound /\ legacy[p] # 0) /\ p \in mem.bound /\ sidecar[p] # 0
  <2> DEFINE sig == IF file[p] # 0 THEN file[p] ELSE sidecar[p]
  <2>1. Items[p] = PlannedItem(p, BoundClass(p), sig)
    BY <1>6 DEF Items
  <2>2. sig \in Versions \ {0}
    BY <1>3, <1>6
  <2> HIDE DEF sig
  <2> QED
    BY <2>1, <2>2, <1>2, <1>4
<1>7. CASE ~(p \notin mem.bound /\ legacy[p] # 0) /\ ~(p \in mem.bound /\ sidecar[p] # 0)
  <2>1. Items[p] = kept.items[p]
    BY <1>7 DEF Items
  <2> QED
    BY <2>1, <1>1
<1> QED
  BY <1>5, <1>6, <1>7

LEMMA SameTypes ==
    ASSUME StoreTypeOK, UNCHANGED storeVars, left' \in [Kinds -> Nat]
    PROVE  StoreTypeOK'
BY DEF StoreTypeOK, storeVars, store

LEMMA BeginTypes ==
    ASSUME StoreTypeOK, NEW by \in Callers, NEW s \in Settings, Begin(by, s),
           UNCHANGED <<sidecar, indexed, data, pkg, store, content, left>>
    PROVE  StoreTypeOK'
<1>1. mem' \in Settings /\ shown' \in [Presets -> Versions] /\ turn' \in Turns
  BY Beginning
<1> QED
  BY <1>1 DEF StoreTypeOK, store

LEMMA SettledTypes ==
    ASSUME StoreTypeOK, turn' = Free, mem' \in Settings, shown' \in [Presets -> Versions],
           UNCHANGED <<sidecar, indexed, data, pkg, store, content, left>>
    PROVE  StoreTypeOK'
BY Given DEF StoreTypeOK, store

\* The settings the callers of a save give it.
LEMMA CallerTypes ==
    ASSUME TypeOK
    PROVE  /\ mem \in Settings
           /\ at \in Presets => [mem EXCEPT !.bound = @ \cup {at}] \in Settings
           /\ [mem EXCEPT !.bound = @ \ {at}] \in Settings
           /\ [mem EXCEPT !.version = 1] \in Settings
           /\ [mem EXCEPT !.version = 0] \in Settings
<1>1. mem \in Settings
  BY Typed DEF TypeOK
<1> QED
  BY <1>1 DEF Settings

LEMMA ReplaceTypes ==
    ASSUME TypeOK, Within, began' = began, NEW ok \in BOOLEAN, NEW j \in Journals,
           Replace(ok, j)
    PROVE  /\ left' \in [Kinds -> Nat] /\ Within' /\ (Calm' => ok /\ Calm)
           /\ log' \in Journals /\ kept' \in Journals
           /\ ok => log' = j /\ kept' = j
<1>1. log' \in {log, j} /\ kept' \in {kept, j} /\ (ok => log' = j /\ kept' = j)
  BY DEF Replace, Lands
<1> QED
  BY <1>1, Faulting, JournalTypes DEF Replace

----------------------------------------------------------------------------
(* ... of the planning, the items and the end of a run *)

LEMMA PlanStep ==
    ASSUME TypeOK, Within, began' = began, NEW ok \in BOOLEAN,
           Plan \/ Open(ok) \/ Reconcile(ok) \/ Partial \/ Finish \/ Finished(ok) \/ Close(ok)
    PROVE  TypeOK' /\ Within'
<1> USE DEF TypeOK, at
<1>1. CASE Plan
  <2>1. work' \in Journals
    BY <1>1, PlanTypes DEF Plan, Journals, ItemType, Statuses
  <2> QED
    BY <1>1, <2>1, Keeping, SameTypes DEF Plan, files, run, user, InHand
<1>2. CASE Open(ok)
  <2>1. Replace(ok, work) /\ work \in Journals
    BY <1>2, JournalTypes DEF Open
  <2>2. /\ left' \in [Kinds -> Nat] /\ Within' /\ log' \in Journals /\ kept' \in Journals
    BY <2>1, ReplaceTypes
  <2>3. /\ todo' \subseteq Presets /\ hand' = NoHand /\ pc' \in {"items", "failed"}
        /\ UNCHANGED <<storeVars, staged, file, backup, work, user>>
    BY <1>2 DEF Open
  <2> QED
    BY <2>2, <2>3, SameTypes, ItemTypes DEF user, InHand
<1>3. CASE Reconcile(ok)
  <2>1. [kept EXCEPT !.status = "completed"] \in Journals
    BY JournalTypes DEF Journals, Statuses
  <2>2. /\ left' \in [Kinds -> Nat] /\ Within' /\ log' \in Journals /\ kept' \in Journals
    BY <1>3, <2>1, ReplaceTypes, Keeping DEF Reconcile
  <2>3. /\ queued' \subseteq {"edit", "other"} /\ pc' = "registry"
        /\ UNCHANGED <<storeVars, staged, file, backup, work, todo, hand, ready, editable,
                       snapshot>>
    BY <1>3 DEF Reconcile
  <2> QED
    BY <2>2, <2>3, SameTypes DEF InHand
<1>4. CASE Partial
  <2>1. work' \in Journals
    BY <1>4, JournalTypes DEF Partial, Journals, Statuses
  <2> QED
    BY <1>4, <2>1, Keeping, SameTypes DEF Partial, files, user, InHand
<1>5. CASE Finish
  <2>1. StoreTypeOK'
    BY <1>5, CallerTypes, BeginTypes DEF Finish, Callers
  <2> QED
    BY <1>5, <2>1, Keeping DEF Finish, files, run, user, InHand
<1>6. CASE Finished(ok)
  <2>1. mem' \in Settings /\ shown' \in [Presets -> Versions] /\ turn' = Free
    BY <1>6, CallerTypes, Typed DEF Finished, Settled
  <2>2. StoreTypeOK'
    BY <1>6, <2>1, SettledTypes DEF Finished
  <2>3. work' \in Journals
    BY <1>6, JournalTypes DEF Finished, Journals, Statuses
  <2> QED
    BY <1>6, <2>2, <2>3, Keeping DEF Finished, files, user, InHand
<1>7. CASE Close(ok)
  <2>1. Replace(ok, work) /\ work \in Journals
    BY <1>7, JournalTypes DEF Close
  <2>2. /\ left' \in [Kinds -> Nat] /\ Within' /\ log' \in Journals /\ kept' \in Journals
    BY <2>1, ReplaceTypes
  <2> QED
    BY <1>7, <2>2, SameTypes DEF Close, user, InHand
<1> QED
  BY <1>1, <1>2, <1>3, <1>4, <1>5, <1>6, <1>7

LEMMA NoteTypes ==
    ASSUME TypeOK, Within, began' = began, NEW ok \in BOOLEAN, NEW from \in InHand,
           NEW item \in ItemType, NEW next \in InHand \cup {"items"}, Note(ok, from, item, next)
    PROVE  TypeOK' /\ Within'
<1> USE DEF TypeOK, at
<1>1. at \in Presets
  BY DEF Note
<1>2. work' = [work EXCEPT !.items[at] = item] /\ Replace(ok, work')
  BY DEF Note
<1>3. work' \in Journals
  BY <1>1, <1>2, JournalTypes DEF Journals, ItemType
<1>4. /\ left' \in [Kinds -> Nat] /\ Within' /\ log' \in Journals /\ kept' \in Journals
  BY <1>2, <1>3, ReplaceTypes
<1>5. /\ UNCHANGED <<storeVars, staged, file, backup, todo, hand, user>>
      /\ pc' \in InHand \cup {"items", "failed"}
  BY DEF Note
<1> QED
  BY <1>1, <1>3, <1>4, <1>5, SameTypes DEF user

LEMMA ItemStep ==
    ASSUME TypeOK, Within, began' = began, NEW ok \in BOOLEAN, NEW p \in Presets,
           \/ Take(p) \/ Stage(ok) \/ NoteStaged(ok) \/ Rename(ok) \/ Mismatch
           \/ NoteMigrated(ok) \/ NoteBackedUp(ok)
    PROVE  TypeOK' /\ Within'
<1> USE DEF TypeOK, at
<1>0. /\ sidecar[p] \in Versions /\ legacy[p] \in Versions /\ work.items[p].made \in Versions
  BY Typed, JournalTypes DEF ItemType
<1>1. CASE Take(p)
  <2>1. hand' \in [preset : Presets \cup {NoOne}, read : Versions, made : Versions,
                   had : BOOLEAN]
    BY <1>0, <1>1 DEF Take
  <2>2. hand'.preset = p
    BY <1>1 DEF Take
  <2>3. pc' \in {"verify", "failed", "stage", "staged"}
    BY <1>1 DEF Take
  <2> QED
    BY <1>1, <2>1, <2>2, <2>3, Keeping, SameTypes DEF Take, files, user, InHand
<1>2. CASE Stage(ok)
  <2>1. staged' \in {staged, [staged EXCEPT ![at] = hand.read]} /\ Fault(ok)
    BY <1>2 DEF Stage, Lands
  <2>2. staged' \in [Presets -> Versions]
    BY <2>1, JournalTypes
  <2> QED
    BY <1>2, <2>1, <2>2, Faulting, SameTypes DEF Stage, run, user, InHand
<1>3. CASE NoteStaged(ok)
  <2>1. at \in Presets
    BY <1>3 DEF NoteStaged, Note, InHand
  <2>2. [Item EXCEPT !.outcome = "staged", !.made = hand.read] \in ItemType
    BY <2>1, JournalTypes, NotedTypes, Given DEF Item, Outcomes
  <2> QED
    BY <1>3, <2>2, NoteTypes DEF NoteStaged, InHand
<1>4. CASE Rename(ok)
  <2>1. at \in Presets /\ staged[at] \in Versions /\ 0 \in Versions
    BY <1>4, JournalTypes, Given DEF Rename, InHand, Versions, Factory
  <2>2. /\ file' \in {file, [file EXCEPT ![at] = staged[at]]}
        /\ staged' \in {staged, [staged EXCEPT ![at] = 0]}
        /\ Fault(ok)
    BY <1>4 DEF Rename, Fault
  <2>3. file' \in [Presets -> Versions] /\ staged' \in [Presets -> Versions]
    BY <2>1, <2>2, JournalTypes
  <2>4. /\ pc' \in {"verify", "failed"} /\ UNCHANGED <<storeVars, backup, log, run, user>>
    BY <1>4 DEF Rename
  <2>5. left' \in [Kinds -> Nat] /\ Within'
    BY <2>2, Faulting
  <2> QED
    BY <2>1, <2>3, <2>4, <2>5, SameTypes DEF run, user, InHand
<1>5. CASE Mismatch
  BY <1>5, Keeping, SameTypes DEF Mismatch, files, run, user, InHand
<1>6. CASE NoteMigrated(ok)
  <2>1. at \in Presets
    BY <1>6 DEF NoteMigrated, Note, InHand
  <2>2. [Item EXCEPT !.outcome = IF Item.class = "create" THEN "migrated" ELSE "adopted"]
            \in ItemType
    BY <2>1, JournalTypes DEF Item, ItemType, Outcomes
  <2> QED
    BY <1>6, <2>2, NoteTypes DEF NoteMigrated, InHand
<1>7. CASE NoteBackedUp(ok)
  <2>1. at \in Presets
    BY <1>7 DEF NoteBackedUp, Note, InHand
  <2>2. [Item EXCEPT !.outcome = "backed-up"] \in ItemType
    BY <2>1, JournalTypes, NotedTypes, Given DEF Item, Outcomes
  <2> QED
    BY <1>7, <2>2, NoteTypes DEF NoteBackedUp, InHand
<1> QED
  BY <1>1, <1>2, <1>3, <1>4, <1>5, <1>6, <1>7

LEMMA BindStep ==
    ASSUME TypeOK, Within, began' = began, NEW ok \in BOOLEAN,
           \/ Bind \/ Bound \/ Unbound \/ Trash \/ Backup(ok) \/ RemoveSidecar(ok)
           \/ Fail(ok) \/ Registry
    PROVE  TypeOK' /\ Within'
<1> USE DEF TypeOK, at
<1>1. CASE Bind
  <2>1. at \in Presets
    BY <1>1 DEF Bind, InHand
  <2>2. StoreTypeOK'
    BY <1>1, <2>1, CallerTypes, BeginTypes DEF Bind, Callers
  <2> QED
    BY <1>1, <2>1, <2>2, Keeping DEF Bind, files, run, user, InHand
<1>2. CASE Bound
  <2>1. StoreTypeOK'
    BY <1>2, Typed, SettledTypes DEF Bound, Settled
  <2> QED
    BY <1>2, <2>1, Keeping DEF Bound, files, run, user, InHand
<1>3. CASE Unbound
  <2>1. mem' \in Settings /\ shown' \in [Presets -> Versions] /\ turn' = Free
    BY <1>3, CallerTypes, Typed DEF Unbound, Settled
  <2>2. StoreTypeOK'
    BY <1>3, <2>1, SettledTypes DEF Unbound
  <2> QED
    BY <1>3, <2>2, Keeping DEF Unbound, files, run, user, InHand
<1>4. CASE Trash
  <2>1. file' \in {file, [file EXCEPT ![at] = 0]} /\ 0 \in Versions
    BY <1>4 DEF Trash, Versions, Factory
  <2>2. file' \in [Presets -> Versions]
    BY <2>1, JournalTypes
  <2> QED
    BY <1>4, <2>2, Keeping, SameTypes DEF Trash, run, user, InHand
<1>5. CASE Backup(ok)
  <2>1. at \in Presets /\ sidecar[at] \in Versions
    BY <1>5, Typed DEF Backup, InHand
  <2>2. backup' \in {backup, [backup EXCEPT ![at] = sidecar[at]]}
    BY <1>5 DEF Backup, Lands
  <2>3. backup' \in [Presets -> Versions]
    BY <2>1, <2>2, JournalTypes
  <2>4. left' \in [Kinds -> Nat] /\ Within'
    BY <1>5, Faulting, Keeping DEF Backup
  <2>5. pc' \in {"remove", "moved", "failed"}
    BY <1>5 DEF Backup
  <2> QED
    BY <1>5, <2>1, <2>3, <2>4, <2>5, SameTypes DEF Backup, run, user, InHand
<1>6. CASE RemoveSidecar(ok)
  <2>1. at \in Presets /\ 0 \in Versions
    BY <1>6 DEF RemoveSidecar, InHand, Versions, Factory
  <2>2. sidecar' \in {sidecar, [sidecar EXCEPT ![at] = 0]} /\ Fault(ok)
    BY <1>6 DEF RemoveSidecar, Lands
  <2>3. sidecar' \in [Presets -> Versions]
    BY <2>1, <2>2, Typed
  <2>4. left' \in [Kinds -> Nat] /\ Within'
    BY <2>2, Faulting
  <2>5. StoreTypeOK'
    BY <1>6, <2>3, <2>4 DEF RemoveSidecar, StoreTypeOK, store
  <2> QED
    BY <1>6, <2>1, <2>4, <2>5 DEF RemoveSidecar, files, run, user, InHand
<1>7. CASE Fail(ok)
  <2> DEFINE failing == IF at = NoOne THEN work ELSE WithItem(work, at, "failed")
  <2>1. at \in Presets \cup {NoOne} /\ "failed" \in Statuses /\ "failed" \in Outcomes
    BY DEF Statuses, Outcomes
  <2>2. failing \in Journals
    BY <2>1, JournalTypes, WithItemTypes
  <2>3. work' = [failing EXCEPT !.status = "failed"] /\ Replace(ok, work')
    BY <1>7 DEF Fail
  <2> HIDE DEF failing
  <2>4. work' \in Journals
    BY <2>1, <2>2, <2>3 DEF Journals
  <2>5. /\ left' \in [Kinds -> Nat] /\ Within' /\ log' \in Journals /\ kept' \in Journals
    BY <2>3, <2>4, ReplaceTypes
  <2> QED
    BY <1>7, <2>4, <2>5, SameTypes DEF Fail, user, InHand
<1>8. CASE Registry
  <2> DEFINE listed  == IF mem.version = 1 THEN {} ELSE Held(legacy)
             adopted == {q \in Presets \ (mem.bound \cup listed) : file[q] # 0}
             bound   == mem.bound \cup adopted
  <2>1. listed \in SUBSET Presets /\ bound \in SUBSET Presets
    BY CallerTypes DEF Held, Settings
  <2>2. /\ mem' = [mem EXCEPT !.bound = bound, !.order = bound \cup listed]
        /\ shown' = [q \in Presets |->
                       IF q \in listed \ bound /\ file[q] = 0 THEN legacy[q] ELSE 0]
        /\ editable' \subseteq Presets
        /\ queued' \subseteq {"edit", "other"}
        /\ ready' = TRUE /\ pc' = "idle"
        /\ UNCHANGED <<sidecar, indexed, data, pkg, store, turn, content, files, run, snapshot,
                       left>>
    BY <1>8 DEF Registry
  <2>3. shown' \in [Presets -> Versions]
    BY <2>2, Typed, Given DEF NoPreset
  <2> HIDE DEF listed, bound
  <2>4. mem' \in Settings
    BY <2>1, <2>2, CallerTypes DEF Settings
  <2>5. StoreTypeOK'
    BY <2>2, <2>3, <2>4 DEF StoreTypeOK, store
  <2> QED
    BY <2>2, <2>5, Keeping DEF files, run, InHand
<1> QED
  BY <1>1, <1>2, <1>3, <1>4, <1>5, <1>6, <1>7, <1>8

----------------------------------------------------------------------------
(* ... of saves, starts and the user *)

LEMMA SaveFaults ==
    ASSUME NEW ok \in BOOLEAN, NEW p \in Presets,
           WriteSidecar(p, ok) \/ WriteIndex(ok) \/ WriteData(ok)
    PROVE  Fault(ok)
BY DEF WriteSidecar, WriteIndex, WriteData, Fault

LEMMA SavingStep ==
    ASSUME TypeOK, Within, began' = began, SaveStep
    PROVE  TypeOK' /\ Within'
<1>1. PICK ok \in BOOLEAN : \/ \E p \in Presets : WriteSidecar(p, ok)
                            \/ WriteIndex(ok) \/ WriteData(ok)
  BY DEF SaveStep, Save
<1>2. Fault(ok)
  BY <1>1, SaveFaults, TablePresetStoreAssumption
<1>3. left' \in [Kinds -> Nat] /\ Within'
  BY <1>2, Faulting
<1>4. StoreTypeOK'
  BY <1>1, <1>3, SidecarTypes, IndexTypes, DataTypes DEF TypeOK
<1>5. UNCHANGED <<files, run, pc, user>>
  BY DEF SaveStep
<1> QED
  BY <1>3, <1>4, <1>5 DEF TypeOK, files, run, user, at

LEMMA DownTypes ==
    ASSUME TypeOK, Within, Within', left' \in [Kinds -> Nat], began' = began, Down
    PROVE  TypeOK'
<1>1. StoreTypeOK'
  BY EndedTypes DEF TypeOK, Down
<1> QED
  BY <1>1, ItemTypes DEF TypeOK, Down, files, InHand

LEMMA StartStep ==
    ASSUME TypeOK, Within, began' = began, Start \/ Crash
    PROVE  TypeOK' /\ Within'
<1> USE DEF TypeOK, at
<1>1. CASE Startup
  <2>1. StoreTypeOK'
    BY <1>1, LoadTypes DEF Startup
  <2> QED
    BY <1>1, <2>1, Keeping DEF Startup, files, run, user, InHand
<1>2. CASE Loaded
  <2>1. StoreTypeOK'
    BY <1>2, HydrateTypes DEF Loaded
  <2> QED
    BY <1>2, <2>1, Keeping DEF Loaded, files, run, user, InHand
<1>3. CASE SaveLoaded
  <2>1. StoreTypeOK'
    BY <1>3, CallerTypes, BeginTypes DEF SaveLoaded, Callers
  <2> QED
    BY <1>3, <2>1, Keeping DEF SaveLoaded, files, run, user, InHand
<1>4. CASE Initialized
  <2>1. StoreTypeOK'
    BY <1>4, Typed, SettledTypes DEF Initialized, Settled
  <2> QED
    BY <1>4, <2>1, Keeping DEF Initialized, files, user, InHand
<1>5. CASE Abort
  BY <1>5, Keeping, DownTypes DEF Abort
<1>6. CASE Crash
  <2>1. "crashes" \in Kinds \ {"failures"}
    BY DEF Kinds
  <2> QED
    BY <1>6, <2>1, Using, DownTypes DEF Crash
<1> QED
  BY <1>1, <1>2, <1>3, <1>4, <1>5, <1>6 DEF Start

LEMMA UserStep ==
    ASSUME TypeOK, Within, began' = began, NEW p \in Presets, NEW ok \in BOOLEAN,
           NEW by \in {"edit", "other"},
           EditPreset(p) \/ EditSetting \/ Retry \/ SaveSettings(by) \/ Saved(by, ok)
    PROVE  TypeOK' /\ Within'
<1> USE DEF TypeOK, at
<1>0. "edits" \in Kinds \ {"failures"} /\ "retries" \in Kinds \ {"failures"}
  BY DEF Kinds
<1>1. CASE EditPreset(p)
  <2>1. /\ left' \in [Kinds -> Nat] /\ Within'
    BY <1>0, <1>1, Using DEF EditPreset
  <2>2. /\ shown' = [shown EXCEPT ![p] = 2]
        /\ snapshot' = [shown |-> shown, bound |-> mem.bound, order |-> mem.order]
        /\ queued' = queued \cup {"edit"}
        /\ UNCHANGED <<sidecar, indexed, data, mem, pkg, store, turn, content, files, run, pc,
                       ready, editable>>
    BY <1>1 DEF EditPreset
  <2>3. shown' \in [Presets -> Versions]
    BY <2>2, Typed DEF Versions, Factory
  <2>4. snapshot' \in [shown : [Presets -> Versions], bound : SUBSET Presets,
                       order : SUBSET Presets]
    BY <2>2, Typed, CallerTypes DEF Settings
  <2>5. StoreTypeOK'
    BY <2>1, <2>2, <2>3 DEF StoreTypeOK, store
  <2> QED
    BY <2>1, <2>2, <2>4, <2>5 DEF files, run
<1>2. CASE EditSetting
  <2>1. left' \in [Kinds -> Nat] /\ Within'
    BY <1>0, <1>2, Using DEF EditSetting
  <2> QED
    BY <1>2, <2>1, SameTypes DEF EditSetting, files, run
<1>3. CASE Retry
  <2>1. left' \in [Kinds -> Nat] /\ Within'
    BY <1>0, <1>3, Using DEF Retry
  <2> QED
    BY <1>3, <2>1, SameTypes DEF Retry, files, run, user, InHand
<1>4. CASE SaveSettings(by)
  <2>1. StoreTypeOK'
    BY <1>4, CallerTypes, BeginTypes DEF SaveSettings, Callers
  <2> QED
    BY <1>4, <2>1, Keeping DEF SaveSettings, files, run
<1>5. CASE Saved(by, ok)
  <2>1. /\ mem' \in {mem, [mem EXCEPT !.bound = snapshot.bound, !.order = snapshot.order]}
        /\ shown' \in {shown, snapshot.shown}
    BY <1>5 DEF Saved
  <2>2. mem' \in Settings /\ shown' \in [Presets -> Versions]
    BY <2>1, Typed, CallerTypes DEF Settings
  <2>3. StoreTypeOK'
    BY <1>5, <2>2, SettledTypes DEF Saved, Settled
  <2> QED
    BY <1>5, <2>3, ItemTypes, Keeping DEF Saved, files, run
<1> QED
  BY <1>1, <1>2, <1>3, <1>4, <1>5

LEMMA TypeStep ==
    ASSUME TypeOK, Within, Next
    PROVE  TypeOK' /\ Within'
<1>0. began' = began
  BY DEF Next
<1>1. CASE Migrate
  BY <1>0, <1>1, PlanStep, ItemStep, BindStep, TablePresetStoreAssumption DEF Migrate
<1>2. CASE SaveStep
  BY <1>0, <1>2, SavingStep
<1>3. CASE Start \/ Crash
  BY <1>0, <1>3, StartStep
<1>4. CASE Saves
  BY <1>0, <1>4, UserStep, TablePresetStoreAssumption DEF Saves
<1>5. CASE (\E p \in Presets : EditPreset(p)) \/ EditSetting \/ Retry
  BY <1>0, <1>5, UserStep, TablePresetStoreAssumption
<1> QED
  BY <1>1, <1>2, <1>3, <1>4, <1>5 DEF Next

LEMMA TypeStutter ==
    ASSUME TypeOK, Within, UNCHANGED <<vars, began>>
    PROVE  TypeOK' /\ Within'
<1>1. left' \in [Kinds -> Nat] /\ Within' /\ UNCHANGED <<storeVars, files, run, pc, user>>
  BY Keeping DEF vars
<1> QED
  BY <1>1, SameTypes DEF TypeOK, files, run, user, at

LEMMA TypeInit ==
    ASSUME Init
    PROVE  TypeOK /\ Within
<1>1. 0 \in Versions /\ 1 \in Versions /\ Factory \in Versions
  BY DEF Versions, Factory
<1>2. sidecar \in [Presets -> Versions] /\ file \in [Presets -> Versions]
  BY <1>1 DEF Init
<1>3. indexed \in SUBSET Presets /\ data \in Settings
  BY <1>2, Stored DEF Init, Settings
<1>4. left \in [Kinds -> Nat] /\ left \in Bounds /\ began.bounds = left
  BY TablePresetStoreAssumption DEF Init
<1>5. StoreTypeOK
  BY <1>2, <1>3, <1>4, Given DEF Init, StoreTypeOK
<1>6. TypeOK
  BY <1>2, <1>4, <1>5, Given, ItemTypes DEF Init, TypeOK, InHand
<1>7. Within
  BY <1>4 DEF Within
<1> QED
  BY <1>6, <1>7

\* Every variable of the migration keeps its type, the journals and the turn of
\* the save queue at every position of a run included, however many calls fail;
\* and the item in hand is a preset wherever the run needs one.
THEOREM TypeCorrect == Spec => []TypeOK
<1>1. Init => TypeOK /\ Within
  BY TypeInit
<1>2. TypeOK /\ Within /\ [Next]_<<vars, began>> => TypeOK' /\ Within'
  BY TypeStep, TypeStutter
<1> QED
  BY <1>1, <1>2, PTL DEF Spec

----------------------------------------------------------------------------
(* As long as no call fails *)

LEMMA NoFailure ==
    ASSUME TypeOK, Within, began' = began, Calm', NEW ok \in BOOLEAN, NEW p \in Presets,
           \/ Open(ok) \/ Reconcile(ok) \/ Stage(ok) \/ NoteStaged(ok) \/ Rename(ok)
           \/ NoteMigrated(ok) \/ Backup(ok) \/ RemoveSidecar(ok) \/ NoteBackedUp(ok)
           \/ Fail(ok) \/ Close(ok) \/ WriteSidecar(p, ok) \/ WriteIndex(ok) \/ WriteData(ok)
    PROVE  ok
<1>1. ok \/ Fault(ok)
  BY SaveFaults DEF Open, Reconcile, Stage, NoteStaged, NoteMigrated, NoteBackedUp, Note, Rename,
                    Backup, RemoveSidecar, Fail, Close, Replace
<1> QED
  BY <1>1, Faulting

\* A call that does not fail writes the journal.
LEMMA Written ==
    ASSUME NEW j, Replace(TRUE, j)
    PROVE  log' = j /\ kept' = j
BY DEF Replace, Lands

LEMMA Noted ==
    ASSUME TypeOK, NEW p \in Presets, NEW item, work' = [work EXCEPT !.items[p] = item]
    PROVE  \A q \in Presets : work'.items[q] = IF q = p THEN item ELSE work.items[q]
<1>1. work'.items = [work.items EXCEPT ![p] = item]
  BY JournalTypes DEF Journals
<1> QED
  BY <1>1, JournalTypes DEF Journals

LEMMA CalmPlanning ==
    ASSUME TypeOK, TypeOK', Within, began' = began, CalmInv, NEW p \in Presets,
           \/ Plan \/ Open(TRUE) \/ Reconcile(TRUE) \/ Partial \/ Fail(TRUE) \/ Close(TRUE)
           \/ Take(p) \/ Stage(TRUE) \/ Rename(TRUE) \/ Mismatch \/ Trash
    PROVE  CalmInv'
<1> USE DEF CalmInv, SavesOK, StartsAlone, Packed, BindingOK, BackupOK, JournalsOK, InStep, RunOK,
           VersionOK, AllMoved, BackupsOK, BackedUp, Loading, Starting, InRun, AfterBinding, InHand,
           ItemOK, Movable, Settles, at
<1>1. CASE Plan
  <2>1. work'.items = Items /\ pc = "loaded" /\ mem.version = 0 /\ pc' = "open"
    BY <1>1 DEF Plan
  <2>2. /\ UNCHANGED <<sidecar, indexed, data, mem, pkg, turn, backup, log, kept, hand,
                       ready, editable, queued>>
    BY <1>1 DEF Plan, storeVars, store, files, user
  <2>3. \A q \in Presets : ItemOK(work'.items[q])
    BY <2>1, PlanTypes
  <2>4. BackedUp(work)'
    BY <2>1, <2>2, PlanTypes
  <2> QED
    BY <2>1, <2>2, <2>3, <2>4
<1>2. CASE Open(TRUE)
  <2>1. /\ log' = work /\ kept' = work /\ pc' = "items" /\ pc = "open"
        /\ todo' = {q \in Presets : work.items[q].class \notin {"none", "blocked"}
                                 /\ work.items[q].outcome # "backed-up"}
        /\ hand' = NoHand
        /\ UNCHANGED <<sidecar, indexed, data, mem, pkg, turn, backup, work,
                       ready, editable, queued>>
    BY <1>2, Written DEF Open, storeVars, store, user
  <2> QED
    BY <2>1
<1>3. CASE Reconcile(TRUE)
  <2>1. /\ log'.items = kept'.items /\ kept'.items = log.items
        /\ pc = "loaded" /\ pc' = "registry" /\ mem.version = 1
        /\ UNCHANGED <<sidecar, indexed, data, mem, pkg, turn, backup, work, hand,
                       ready, editable>>
    <3>1. pc = "loaded" /\ kept.items = log.items
      BY <1>3 DEF Reconcile
    <3>2. [kept EXCEPT !.status = "completed"].items = kept.items
      BY JournalTypes DEF Journals
    <3> QED
      BY <1>3, <3>1, <3>2, Written DEF Reconcile, storeVars, store
  <2> QED
    BY <2>1
<1>4. CASE Partial
  <2>1. work'.items = work.items
    BY <1>4, JournalTypes DEF Partial, Journals
  <2> QED
    BY <1>4, <2>1 DEF Partial, storeVars, store, files, user
<1>5. CASE Fail(TRUE)
  <2>1. pc = "failed" /\ at \in Presets \cup {NoOne}
    BY <1>5 DEF Fail, TypeOK
  <2>2. \A q \in Presets : /\ work'.items[q].class = work.items[q].class
                           /\ work'.items[q].sig = work.items[q].sig
                           /\ work'.items[q].outcome =
                                IF q = at THEN "failed" ELSE work.items[q].outcome
    BY <1>5, <2>1, JournalTypes, TablePresetMigrationAssumption
    DEF Fail, WithItem, Journals, ItemType
  <2>3. log' = work' /\ kept' = work'
    BY <1>5, Written DEF Fail
  <2> QED
    BY <1>5, <2>1, <2>2, <2>3 DEF Fail, storeVars, store, user
<1>6. CASE Close(TRUE)
  <2>1. log' = work /\ kept' = work
    BY <1>6, Written DEF Close
  <2> QED
    BY <1>6, <2>1 DEF Close, storeVars, store, user
<1>7. CASE Take(p)
  BY <1>7 DEF Take, storeVars, store, files, user
<1>8. CASE Stage(TRUE)
  BY <1>8 DEF Stage, storeVars, store, run, user
<1>9. CASE Rename(TRUE)
  BY <1>9 DEF Rename, storeVars, store, run, user
<1>10. CASE Mismatch
  BY <1>10 DEF Mismatch, storeVars, store, files, run, user
<1>11. CASE Trash
  BY <1>11 DEF Trash, storeVars, store, run, user
<1> QED
  BY <1>1, <1>2, <1>3, <1>4, <1>5, <1>6, <1>7, <1>8, <1>9, <1>10, <1>11

\* A note leaves the journals in step, and changes the outcome of the item in hand.
LEMMA Noting ==
    ASSUME TypeOK, at \in Presets,
           NoteStaged(TRUE) \/ NoteMigrated(TRUE) \/ NoteBackedUp(TRUE)
    PROVE  /\ log' = work' /\ kept' = work'
           /\ \A q \in Presets :
                /\ work'.items[q].class = work.items[q].class
                /\ work'.items[q].sig = work.items[q].sig
                /\ q # at => work'.items[q] = work.items[q]
           /\ work'.items[at].outcome \in {"staged", "migrated", "adopted", "backed-up"}
           /\ work'.items[at].outcome = "backed-up" <=> pc = "moved"
<1>1. CASE NoteStaged(TRUE)
  <2> DEFINE item == [Item EXCEPT !.outcome = "staged", !.made = hand.read]
  <2>1. /\ work' = [work EXCEPT !.items[at] = item] /\ Replace(TRUE, work')
        /\ pc = "staged"
    BY <1>1 DEF NoteStaged, Note
  <2>2. item.class = Item.class /\ item.sig = Item.sig /\ item.outcome = "staged"
    BY JournalTypes DEF Item, ItemType
  <2> HIDE DEF item
  <2>3. \A q \in Presets : work'.items[q] = IF q = at THEN item ELSE work.items[q]
    BY <2>1, Noted
  <2> QED
    BY <2>1, <2>2, <2>3, Written DEF Item
<1>2. CASE NoteMigrated(TRUE)
  <2> DEFINE outcome == IF Item.class = "create" THEN "migrated" ELSE "adopted"
             item == [Item EXCEPT !.outcome = outcome]
  <2>1. /\ work' = [work EXCEPT !.items[at] = item] /\ Replace(TRUE, work')
        /\ pc = "bound"
    BY <1>2 DEF NoteMigrated, Note
  <2>2. item.class = Item.class /\ item.sig = Item.sig /\ item.outcome \in {"migrated", "adopted"}
    BY JournalTypes DEF Item, ItemType
  <2> HIDE DEF item
  <2>3. \A q \in Presets : work'.items[q] = IF q = at THEN item ELSE work.items[q]
    BY <2>1, Noted
  <2> QED
    BY <2>1, <2>2, <2>3, Written DEF Item
<1>3. CASE NoteBackedUp(TRUE)
  <2> DEFINE item == [Item EXCEPT !.outcome = "backed-up"]
  <2>1. /\ work' = [work EXCEPT !.items[at] = item] /\ Replace(TRUE, work')
        /\ pc = "moved"
    BY <1>3 DEF NoteBackedUp, Note
  <2>2. item.class = Item.class /\ item.sig = Item.sig /\ item.outcome = "backed-up"
    BY JournalTypes DEF Item, ItemType
  <2> HIDE DEF item
  <2>3. \A q \in Presets : work'.items[q] = IF q = at THEN item ELSE work.items[q]
    BY <2>1, Noted
  <2> QED
    BY <2>1, <2>2, <2>3, Written DEF Item
<1> QED
  BY <1>1, <1>2, <1>3

LEMMA CalmNoting ==
    ASSUME TypeOK, TypeOK', Within, began' = began, CalmInv,
           NoteStaged(TRUE) \/ NoteMigrated(TRUE) \/ NoteBackedUp(TRUE)
    PROVE  CalmInv'
<1> USE DEF CalmInv, SavesOK, StartsAlone, Packed, BindingOK, BackupOK, JournalsOK, InStep, RunOK,
           VersionOK, AllMoved, BackupsOK, BackedUp, Loading, Starting, InRun, AfterBinding, InHand,
           ItemOK, Movable, Settles, at
<1>0. at \in Presets /\ pc \in {"staged", "bound", "moved"} /\ work.items = log.items
  BY DEF NoteStaged, NoteMigrated, NoteBackedUp, Note, TypeOK
<1>1. /\ log' = work' /\ kept' = work'
      /\ \A q \in Presets :
           /\ work'.items[q].class = work.items[q].class
           /\ work'.items[q].sig = work.items[q].sig
           /\ q # at => work'.items[q] = work.items[q]
      /\ work'.items[at].outcome \in {"staged", "migrated", "adopted", "backed-up"}
      /\ work'.items[at].outcome = "backed-up" <=> pc = "moved"
  BY <1>0, Noting
<1>2. /\ pc' = CASE pc = "staged" -> "rename" [] pc = "bound" -> "backup" [] pc = "moved" -> "items"
      /\ UNCHANGED <<sidecar, indexed, data, mem, pkg, turn, backup, todo, hand,
                     ready, editable, queued>>
  BY DEF NoteStaged, NoteMigrated, NoteBackedUp, Note, storeVars, store, user
<1>3. SavesOK' /\ BindingOK' /\ BackupOK' /\ VersionOK'
  BY <1>0, <1>1, <1>2
<1>4. JournalsOK'
  BY <1>0, <1>1, <1>2, TablePresetMigrationAssumption
<1>5. RunOK'
  BY <1>0, <1>1, <1>2, TablePresetMigrationAssumption
<1>6. BackupsOK'
  BY <1>0, <1>1, <1>2
<1> QED
  BY <1>3, <1>4, <1>5, <1>6

LEMMA CalmMoving ==
    ASSUME TypeOK, TypeOK', Within, began' = began, CalmInv,
           Backup(TRUE) \/ RemoveSidecar(TRUE)
    PROVE  CalmInv'
<1> USE DEF CalmInv, SavesOK, StartsAlone, Packed, BindingOK, BackupOK, JournalsOK, InStep, RunOK,
           VersionOK, AllMoved, BackupsOK, BackedUp, Loading, Starting, InRun, AfterBinding, InHand,
           ItemOK, Movable, Settles, at
<1>0. at \in Presets
  BY DEF Backup, RemoveSidecar, TypeOK
<1>1. CASE Backup(TRUE)
  <2>1. /\ backup' \in {backup, [backup EXCEPT ![at] = sidecar[at]]}
        /\ backup' # backup => backup[at] = 0 /\ sidecar[at] # 0
        /\ pc = "backup" /\ pc' \in {"remove", "moved", "failed"}
        /\ pc' = "remove" => sidecar[at] # 0 /\ backup'[at] = sidecar[at]
        /\ pc' = "moved" => backup'[at] = Item.sig
        /\ UNCHANGED <<sidecar, indexed, data, mem, pkg, turn, log, kept, work, todo, hand,
                       ready, editable, queued>>
    BY <1>0, <1>1, JournalTypes DEF Backup, Lands, storeVars, store, run, user
  <2>2. Item.sig # 0
    BY <1>0, <2>1, TablePresetMigrationAssumption DEF Item
  <2>3. \A p \in Presets : backup[p] # 0 => backup'[p] # 0
    BY <2>1, JournalTypes
  <2>4. pc' = "moved" => backup'[at] # 0
    BY <2>1, <2>2
  <2>5. BackupsOK'
    BY <2>1, <2>3
  <2> QED
    BY <2>1, <2>4, <2>5
<1>2. CASE RemoveSidecar(TRUE)
  BY <1>0, <1>2 DEF RemoveSidecar, Lands, files, run, user
<1> QED
  BY <1>1, <1>2

LEMMA CalmBinding ==
    ASSUME TypeOK, TypeOK', Within, began' = began, CalmInv,
           Bind \/ Bound \/ Unbound \/ Finish \/ Finished(TRUE) \/ Finished(FALSE) \/ Registry
    PROVE  CalmInv'
<1> USE DEF CalmInv, SavesOK, StartsAlone, Packed, BindingOK, BackupOK, JournalsOK, InStep, RunOK,
           VersionOK, AllMoved, BackupsOK, BackedUp, Loading, Starting, InRun, AfterBinding, InHand,
           ItemOK, Movable, Settles, at
<1>0. StoreTypeOK /\ mem \in Settings
  BY CallerTypes DEF TypeOK
<1>1. CASE Bind
  <2> DEFINE s == [mem EXCEPT !.bound = @ \cup {at}]
  <2>1. at \in Presets /\ pc = "verify"
    BY <1>1 DEF Bind, TypeOK
  <2>2. s \in Settings /\ s.bound = mem.bound \cup {at} /\ s.version = mem.version
    BY <2>1, CallerTypes DEF Settings
  <2>3. Begin("binding", s) /\ "binding" \in Callers
    BY <1>1 DEF Bind, Callers
  <2> HIDE DEF s
  <2>4. /\ turn.by = "none" /\ turn'.by = "binding"
        /\ mem'.bound = mem.bound \cup {at} /\ mem'.version = mem.version
        /\ \/ turn'.phase = "data" /\ turn'.pack = mem'
           \/ turn'.phase = "store"
    BY <1>0, <2>2, <2>3, Beginning
  <2> QED
    BY <1>1, <2>1, <2>4 DEF Bind, files, run, user
<1>2. CASE Bound
  BY <1>2 DEF Bound, Settled, Free, files, run, user
<1>3. CASE Unbound
  BY <1>3 DEF Unbound, Settled
<1>4. CASE Finish
  <2> DEFINE s == [mem EXCEPT !.version = 1]
  <2>1. s \in Settings /\ s.bound = mem.bound /\ s.version = 1
    BY CallerTypes DEF Settings
  <2>2. Begin("version", s) /\ "version" \in Callers
    BY <1>4 DEF Finish, Callers
  <2> HIDE DEF s
  <2>3. /\ turn.by = "none" /\ turn'.by = "version"
        /\ mem'.bound = mem.bound /\ mem'.version = 1
        /\ \/ turn'.phase = "data" /\ turn'.pack = mem'
           \/ turn'.phase = "store"
    BY <1>0, <2>1, <2>2, Beginning
  <2>4. AllMoved
    BY <1>4 DEF Finish, Unfinished
  <2> QED
    BY <1>4, <2>3, <2>4 DEF Finish, files, run, user
<1>5. CASE Finished(TRUE)
  <2>1. work'.items = work.items
    BY <1>5, JournalTypes DEF Finished, Journals
  <2> QED
    BY <1>5, <2>1 DEF Finished, Settled, Free, files, user
<1>6. CASE Finished(FALSE)
  BY <1>6 DEF Finished, Settled
<1>7. CASE Registry
  <2>1. /\ mem.bound \subseteq mem'.bound /\ mem'.version = mem.version
        /\ pc = "registry" /\ pc' = "idle" /\ ready' = TRUE
        /\ UNCHANGED <<sidecar, indexed, data, pkg, turn, content, files, run>>
    BY <1>0, <1>7 DEF Registry, Settings
  <2> QED
    BY <2>1 DEF files, run
<1> QED
  BY <1>1, <1>2, <1>3, <1>4, <1>5, <1>6, <1>7

LEMMA CalmSaving ==
    ASSUME TypeOK, TypeOK', Within, began' = began, CalmInv, NEW p \in Presets,
           WriteSidecar(p, TRUE) \/ WriteIndex(TRUE) \/ WriteData(TRUE),
           UNCHANGED <<files, run, pc, user>>
    PROVE  CalmInv'
<1> USE DEF CalmInv, SavesOK, StartsAlone, Packed, BindingOK, BackupOK, JournalsOK, InStep, RunOK,
           VersionOK, AllMoved, BackupsOK, BackedUp, Loading, Starting, InRun, AfterBinding, InHand,
           ItemOK, Movable, Settles, at, files, run, user
<1>0. StoreTypeOK /\ turn \in Turns /\ at \in Presets \cup {NoOne}
  BY DEF TypeOK, StoreTypeOK
<1>1. CASE WriteSidecar(p, TRUE)
  <2>1. /\ turn.phase = "store" /\ p \in turn.rest
        /\ sidecar' = [sidecar EXCEPT ![p] = turn.next[p]]
        /\ turn' = [turn EXCEPT !.rest = @ \ {p}]
        /\ UNCHANGED <<indexed, data, mem, pkg, shown, store>>
    <3>1. turn' = [turn EXCEPT !.rest = @ \ {p}, !.phase = IF TRUE THEN @ ELSE "failed"]
      BY <1>1 DEF WriteSidecar
    <3>2. turn' = [turn EXCEPT !.rest = @ \ {p}]
      BY <3>1, <1>0 DEF Turns
    <3> QED
      BY <1>1, <3>2 DEF WriteSidecar, Lands
  <2>2. /\ turn'.by = turn.by /\ turn'.phase = turn.phase /\ turn'.rest = turn.rest \ {p}
        /\ turn'.pack = turn.pack
    BY <2>1, <1>0 DEF Turns
  <2>3. \A q \in Presets : q # p => sidecar'[q] = sidecar[q]
    BY <1>0, <2>1, Typed
  <2>4. UNCHANGED <<mem, pkg, data, pc, hand, backup, log, kept, work, todo, ready,
                    editable, queued>>
    BY <2>1
  <2>5. SavesOK' /\ BindingOK' /\ JournalsOK' /\ RunOK' /\ VersionOK' /\ BackupsOK'
    BY <2>1, <2>2, <2>4 DEF Free
  <2>6. BackupOK'
    <3>1. pc \in AfterBinding => at \in Presets /\ at # p
      BY <2>1 DEF TypeOK
    <3> QED
      BY <2>1, <2>2, <2>3, <2>4, <3>1
  <2> QED
    BY <2>5, <2>6
<1>2. CASE WriteIndex(TRUE)
  <2>1. /\ turn.phase = "store" /\ turn.rest = {}
        /\ turn' = IF turn.by = "load" THEN [turn EXCEPT !.phase = "done"]
                   ELSE [turn EXCEPT !.phase = "data", !.pack = mem]
        /\ UNCHANGED <<sidecar, data, mem, pkg, shown, content>>
    BY <1>2 DEF WriteIndex
  <2>2. /\ turn'.by = turn.by /\ turn'.rest = turn.rest
        /\ \/ turn.by = "load" /\ turn'.phase = "done"
           \/ turn.by # "load" /\ turn'.phase = "data" /\ turn'.pack = mem
    BY <2>1, <1>0 DEF Turns
  <2>3. turn.by = "load" => pc = "load"
    BY <2>1 DEF Free
  <2>4. turn.by # "load" => pc \notin Loading
    BY <2>1 DEF Free
  <2> QED
    BY <2>1, <2>2, <2>3, <2>4
<1>3. CASE WriteData(TRUE)
  <2>0. turn.phase = "data" /\ pc \notin Loading /\ pkg = data
    BY <1>3 DEF WriteData, Free
  <2>1. /\ data' = turn.pack /\ pkg' = turn.pack
        /\ turn' = [turn EXCEPT !.phase = "done"]
        /\ UNCHANGED <<sidecar, indexed, mem, shown, store, content>>
    BY <1>3, <2>0 DEF WriteData, Lands
  <2>2. turn'.by = turn.by /\ turn'.phase = "done" /\ turn'.rest = turn.rest
    BY <2>1, <1>0 DEF Turns
  <2> QED
    BY <2>0, <2>1, <2>2
<1> QED
  BY <1>1, <1>2, <1>3

LEMMA CalmDown ==
    ASSUME TypeOK, began' = began, CalmInv, Down
    PROVE  CalmInv'
<1> USE DEF CalmInv, SavesOK, StartsAlone, Packed, BindingOK, BackupOK, JournalsOK, InStep, RunOK,
           VersionOK, AllMoved, BackupsOK, BackedUp, Loading, Starting, InRun, AfterBinding, InHand,
           ItemOK, at
<1>1. /\ turn' = Free /\ pc' = "down" /\ ready' = FALSE /\ editable' = {} /\ queued' = {}
      /\ mem'.version = 0
      /\ UNCHANGED <<data, backup, log>>
  BY DEF Down, Ended, files, NoSettings
<1>2. turn'.phase = "free" /\ turn'.by = "none"
  BY <1>1 DEF Free
<1> QED
  BY <1>1, <1>2

LEMMA Loads ==
    ASSUME Load
    PROVE  turn' = turn \/ (turn'.by = "load" /\ turn'.phase = "store")
<1> DEFINE next  == IF Found = NoPreset THEN Defaults ELSE Found
           order == FoundOrder \cup Held(next)
           rest  == Rest(next, {})
<1>1. turn' = turn \/ turn' = [Free EXCEPT !.by = "load", !.phase = "store", !.next = next,
                                          !.order = order, !.rest = rest]
  BY DEF Load
<1> HIDE DEF next, order, rest
<1> QED
  BY <1>1 DEF Free

LEMMA CalmStarting ==
    ASSUME TypeOK, TypeOK', Within, began' = began, CalmInv,
           Startup \/ Loaded \/ SaveLoaded \/ Initialized \/ Abort
    PROVE  CalmInv'
<1> USE DEF CalmInv, SavesOK, StartsAlone, Packed, BindingOK, BackupOK, JournalsOK, InStep, RunOK,
           VersionOK, AllMoved, BackupsOK, BackedUp, Loading, Starting, InRun, AfterBinding, InHand,
           ItemOK, Movable, Settles, at, files, run, user
<1>0. StoreTypeOK /\ data \in Settings /\ mem \in Settings
  BY Typed, CallerTypes DEF TypeOK
<1>1. CASE Startup
  <2>1. /\ pc = "down" /\ pc' = "load" /\ pkg' = data
        /\ UNCHANGED <<sidecar, indexed, data, mem, shown, content>>
    BY <1>1 DEF Startup, Load
  <2>2. turn' = turn \/ (turn'.by = "load" /\ turn'.phase = "store")
    BY <1>1, Loads DEF Startup
  <2> QED
    BY <1>1, <2>1, <2>2 DEF Startup, Free
<1>2. CASE Loaded
  <2>1. /\ pc = "load" /\ pc' = "hydrated"
        /\ mem'.bound = data.bound /\ mem'.version = data.version
        /\ UNCHANGED <<sidecar, indexed, data, pkg, store, content>>
    BY <1>0, <1>2 DEF Loaded, Hydrate, Settings
  <2>2. turn'.by = "none" /\ turn'.phase = "free"
    BY <1>2, <2>1 DEF Loaded, Hydrate, Settled, Free
  <2> QED
    BY <1>2, <2>1, <2>2 DEF Loaded
<1>3. CASE SaveLoaded
  <2>1. Begin("startup", mem) /\ "startup" \in Callers
    BY <1>3 DEF SaveLoaded, Callers
  <2>2. /\ turn.by = "none" /\ turn'.by = "startup"
        /\ mem'.bound = mem.bound /\ mem'.version = mem.version
        /\ \/ turn'.phase = "data" /\ turn'.pack = mem'
           \/ turn'.phase = "store"
    BY <1>0, <2>1, Beginning
  <2> QED
    BY <1>3, <2>2 DEF SaveLoaded
<1>4. CASE Initialized
  BY <1>4 DEF Initialized, Settled, Free
<1>5. CASE Abort
  BY <1>5 DEF Abort
<1> QED
  BY <1>1, <1>2, <1>3, <1>4, <1>5

LEMMA CalmUser ==
    ASSUME TypeOK, TypeOK', Within, began' = began, CalmInv, NEW p \in Presets,
           NEW by \in {"edit", "other"}, NEW ok \in BOOLEAN,
           EditPreset(p) \/ EditSetting \/ Retry \/ SaveSettings(by) \/ Saved(by, ok)
    PROVE  CalmInv'
<1> USE DEF CalmInv, SavesOK, StartsAlone, Packed, BindingOK, BackupOK, JournalsOK, InStep, RunOK,
           VersionOK, AllMoved, BackupsOK, BackedUp, Loading, Starting, InRun, AfterBinding, InHand,
           ItemOK, Movable, Settles, at, files, run, user
<1>0. StoreTypeOK /\ mem \in Settings
  BY CallerTypes DEF TypeOK
<1>1. CASE EditPreset(p)
  BY <1>1 DEF EditPreset
<1>2. CASE EditSetting
  BY <1>2 DEF EditSetting, storeVars, store
<1>3. CASE Retry
  BY <1>3 DEF Retry, storeVars, store
<1>4. CASE SaveSettings(by)
  <2>1. Begin(by, mem) /\ by \in Callers /\ by \notin {"load", "binding", "none"}
    BY <1>4 DEF SaveSettings, Callers
  <2>2. /\ turn.by = "none" /\ turn'.by = by
        /\ mem'.bound = mem.bound /\ mem'.version = mem.version
        /\ \/ turn'.phase = "data" /\ turn'.pack = mem'
           \/ turn'.phase = "store" /\ turn'.rest \cap mem.bound = {}
    BY <1>0, <2>1, Beginning
  <2>3. pc \notin Starting
    BY <1>4 DEF SaveSettings
  <2> QED
    BY <1>4, <2>1, <2>2, <2>3 DEF SaveSettings
<1>5. CASE Saved(by, ok)
  <2>1. ok
    BY <1>5 DEF Saved, Settled
  <2>2. /\ turn' = Free /\ turn.by = by /\ turn.phase = "done"
        /\ UNCHANGED <<sidecar, indexed, data, mem, pkg, shown, store, content, files, run,
                       pc, ready, editable, queued>>
    BY <1>5, <2>1 DEF Saved, Settled
  <2> QED
    BY <2>2 DEF Free
<1> QED
  BY <1>1, <1>2, <1>3, <1>4, <1>5

\* A step after which no call has failed is no failing call, nor is one before it.
LEMMA CalmBefore ==
    ASSUME TypeOK, Within, Next, Calm'
    PROVE  Calm
<1>0. began' = began /\ {"edits", "retries", "crashes"} \subseteq Kinds \ {"failures"}
  BY DEF Next, Kinds
<1>1. UNCHANGED left => Calm
  BY <1>0, Keeping
<1>2. (\E ok \in BOOLEAN : Fault(ok)) => Calm
  BY <1>0, Faulting
<1>3. Spend("edits") \/ Spend("retries") \/ Spend("crashes") => Calm
  BY <1>0, Using
<1>4. CASE Migrate
  BY <1>1, <1>2, <1>4 DEF Migrate, Plan, Mismatch, Bind, Bound, Unbound, Trash, Partial, Finish,
                          Registry, Take, Open, Reconcile, Stage, NoteStaged, Rename,
                          NoteMigrated, Backup, RemoveSidecar, NoteBackedUp, Note, Fail, Finished,
                          Close, Replace
<1>5. CASE SaveStep
  BY <1>2, <1>5, SaveFaults, TablePresetStoreAssumption DEF SaveStep, Save
<1>6. CASE Saves
  BY <1>1, <1>6 DEF Saves, SaveSettings, Saved
<1>7. CASE Start
  BY <1>1, <1>7 DEF Start, Startup, Loaded, SaveLoaded, Initialized, Abort
<1>8. CASE (\E p \in Presets : EditPreset(p)) \/ EditSetting \/ Retry \/ Crash
  BY <1>3, <1>8 DEF EditPreset, EditSetting, Retry, Crash
<1> QED
  BY <1>4, <1>5, <1>6, <1>7, <1>8 DEF Next

LEMMA CalmStep ==
    ASSUME TypeOK, Within, CalmInv, Next, Calm'
    PROVE  CalmInv'
<1>0. began' = began /\ TypeOK' /\ Default \in Presets
  BY TypeStep, TablePresetStoreAssumption DEF Next
<1>1. CASE Migrate
  <2>1. CASE \/ Plan \/ Partial \/ Mismatch \/ Trash \/ \E p \in Presets : Take(p)
    BY <1>0, <2>1, CalmPlanning
  <2>2. CASE Bind \/ Bound \/ Unbound \/ Finish \/ Registry
    BY <1>0, <2>2, CalmBinding
  <2>3. ASSUME NEW ok \in BOOLEAN,
               \/ Open(ok) \/ Reconcile(ok) \/ Stage(ok) \/ Rename(ok) \/ Fail(ok) \/ Close(ok)
               \/ NoteStaged(ok) \/ NoteMigrated(ok) \/ NoteBackedUp(ok)
               \/ Backup(ok) \/ RemoveSidecar(ok)
        PROVE  CalmInv'
    <3>1. ok
      BY <1>0, <2>3, NoFailure
    <3>2. ok = TRUE
      BY <3>1
    <3> QED
      BY <1>0, <2>3, <3>2, CalmPlanning, CalmNoting, CalmMoving
  <2>4. ASSUME NEW ok \in BOOLEAN, Finished(ok)
        PROVE  CalmInv'
    <3>1. ok = TRUE \/ ok = FALSE
      OBVIOUS
    <3> QED
      BY <1>0, <2>4, <3>1, CalmBinding
  <2> QED
    BY <1>1, <2>1, <2>2, <2>3, <2>4 DEF Migrate
<1>2. CASE SaveStep
  <2>1. PICK ok \in BOOLEAN, p \in Presets : WriteSidecar(p, ok) \/ WriteIndex(ok) \/ WriteData(ok)
    BY <1>0, <1>2 DEF SaveStep, Save
  <2>2. ok
    BY <1>0, <2>1, NoFailure
  <2>3. ok = TRUE
    BY <2>2
  <2> QED
    BY <1>0, <1>2, <2>1, <2>3, CalmSaving DEF SaveStep
<1>3. CASE Start
  BY <1>0, <1>3, CalmStarting DEF Start
<1>4. CASE Crash
  BY <1>0, <1>4, CalmDown DEF Crash
<1>5. CASE Saves
  BY <1>0, <1>5, CalmUser DEF Saves
<1>6. CASE (\E p \in Presets : EditPreset(p)) \/ EditSetting \/ Retry
  BY <1>0, <1>6, CalmUser
<1> QED
  BY <1>1, <1>2, <1>3, <1>4, <1>5, <1>6 DEF Next

LEMMA CalmInit ==
    ASSUME Init
    PROVE  CalmInv
<1> USE DEF CalmInv, SavesOK, StartsAlone, Packed, BindingOK, BackupOK, JournalsOK, InStep, RunOK,
           VersionOK, AllMoved, BackupsOK, BackedUp, Loading, Starting, InRun, AfterBinding, InHand,
           ItemOK, at
<1>1. /\ turn.phase = "free" /\ turn.by = "none" /\ pc = "loaded"
      /\ data.bound = {} /\ data.version = 0 /\ mem = data /\ pkg = data
      /\ editable = {}
      /\ log = kept /\ \A p \in Presets : log.items[p] = NoItem
  BY DEF Init, Free, NoJournal
<1> QED
  BY <1>1 DEF NoItem

LEMMA CalmStutter ==
    ASSUME CalmInv, UNCHANGED <<vars, began>>
    PROVE  CalmInv'
BY DEF CalmInv, SavesOK, StartsAlone, Packed, BindingOK, BackupOK, JournalsOK, InStep, RunOK,
       VersionOK, AllMoved, BackupsOK, BackedUp, vars, storeVars, store, files, run, user, at

LEMMA MigrationStep ==
    ASSUME MigrationInv, [Next]_<<vars, began>>
    PROVE  MigrationInv'
<1>1. TypeOK' /\ Within'
  BY TypeStep, TypeStutter DEF MigrationInv
<1>2. ASSUME Calm'
      PROVE  CalmInv'
  <2>1. Calm
    BY <1>2, CalmBefore DEF MigrationInv, vars, Calm, None
  <2>2. TypeOK /\ Within /\ CalmInv
    BY <2>1 DEF MigrationInv
  <2> QED
    BY <1>2, <2>2, CalmStep, CalmStutter
<1> QED
  BY <1>1, <1>2 DEF MigrationInv

LEMMA MigrationInvariant == Spec => []MigrationInv
<1>1. Init => MigrationInv
  BY TypeInit, CalmInit DEF MigrationInv
<1>2. MigrationInv /\ [Next]_<<vars, began>> => MigrationInv'
  BY MigrationStep
<1> QED
  BY <1>1, <1>2, PTL DEF Spec

----------------------------------------------------------------------------
(* What follows, as long as no call fails: whatever the user edits, however   *)
(* often the process ends, and whatever files of the same ids are there       *)

\* An old file is removed only when its backup holds what it holds now: no save
\* that had its turn since the copy was made has written the file again
\* (backupLegacyPresetSidecar compares the two before it removes one).
THEOREM RemovedWhenBackedUp ==
    Spec => [](Calm /\ pc = "remove" => sidecar[at] # 0 /\ backup[at] = sidecar[at])
<1>1. MigrationInv => (Calm /\ pc = "remove" => sidecar[at] # 0 /\ backup[at] = sidecar[at])
  BY DEF MigrationInv, CalmInv, BackupOK
<1> QED
  BY <1>1, MigrationInvariant, PTL

\* An item whose journal says that it is backed up has its binding in data.json
\* and a backup: the binding is committed first, and no later save, of the
\* migration, of a start or of the user, takes it out of data.json again.
THEOREM BackedUpIsBound ==
    Spec => [](Calm => \A p \in Presets : log.items[p].outcome = "backed-up" =>
                                             p \in data.bound /\ backup[p] # 0)
<1>1. MigrationInv => (Calm => \A p \in Presets : log.items[p].outcome = "backed-up" =>
                                                    p \in data.bound /\ backup[p] # 0)
  BY DEF MigrationInv, CalmInv, BackupsOK, BackedUp
<1> QED
  BY <1>1, MigrationInvariant, PTL

\* data.json has the version only when the journal on disk has every item backed
\* up: an item that is blocked, failed or still to be done keeps it back, over any
\* number of interrupted runs.
THEOREM VersionAgreesWithJournal ==
    Spec => [](Calm /\ data.version = 1 =>
                  \A p \in Presets : log.items[p].outcome \in {"none", "backed-up"})
<1>1. MigrationInv => (Calm /\ data.version = 1 =>
                  \A p \in Presets : log.items[p].outcome \in {"none", "backed-up"})
  <2>1. ASSUME MigrationInv, Calm, data.version = 1
        PROVE  AllMoved
    BY <2>1 DEF MigrationInv, CalmInv, VersionOK
  <2> QED
    BY <2>1 DEF AllMoved
<1> QED
  BY <1>1, MigrationInvariant, PTL

----------------------------------------------------------------------------
(* ... and no preset had another file, and no start has put the program's     *)
(* default preset in the place of the user's                                  *)

\* A run that has not begun its items.
LEMMA SmoothOpening ==
    ASSUME TypeOK, TypeOK', CalmInv, SmoothInv, began' = began,
           Open(TRUE) \/ Reconcile(TRUE) \/ Partial \/ Fail(TRUE) \/ Close(TRUE)
    PROVE  SmoothInv'
<1> USE DEF SmoothInv, ValuesOK, CleanOK, CleanItem, FilesOK, KeptOK, StoreOK, IndexOK, EarlyOK,
           Early, DoneOK, had, Unread, Authority,
           Loading, Starting, InRun, AfterBinding, InHand, at
<1>0. /\ pc \notin Starting => kept.items = log.items
      /\ pc \in InRun => work.items = log.items
  BY DEF CalmInv, JournalsOK, InStep
<1>1. CASE Open(TRUE)
  <2>1. /\ log' = work /\ kept' = work /\ pc' = "items" /\ pc = "open" /\ hand' = NoHand
        /\ UNCHANGED <<sidecar, indexed, data, mem, pkg, shown, store, turn, content, staged, file,
                       backup, work, ready, editable, queued>>
    BY <1>1, Written DEF Open, storeVars, store, user
  <2>2. hand'.preset = NoOne /\ hand'.read = 0
    BY <2>1 DEF NoHand
  <2> QED
    BY <2>1, <2>2, TablePresetMigrationAssumption DEF store
<1>2. CASE Reconcile(TRUE)
  <2>1. /\ log'.items = log.items
        /\ pc = "loaded" /\ pc' = "registry" /\ mem.version = 1
        /\ UNCHANGED <<sidecar, indexed, data, mem, pkg, shown, legacy, known, turn, content,
                       staged, file, backup, work, hand, ready, editable>>
    <3>1. pc = "loaded" /\ kept.items = log.items
      BY <1>2, <1>0 DEF Reconcile
    <3>2. [kept EXCEPT !.status = "completed"].items = kept.items
      BY JournalTypes DEF Journals
    <3> QED
      BY <1>2, <3>1, <3>2, Written DEF Reconcile, storeVars, store
  <2> QED
    BY <2>1
<1>3. CASE Partial
  BY <1>0, <1>3 DEF Partial, Unfinished
<1>4. CASE Fail(TRUE)
  BY <1>4 DEF Fail
<1>5. CASE Close(TRUE)
  <2>1. /\ log' = work /\ pc = "close" /\ pc' = "registry"
        /\ UNCHANGED <<sidecar, indexed, data, mem, pkg, shown, legacy, known, turn, content,
                       staged, file, backup, work, hand, ready, editable, queued>>
    BY <1>5, Written DEF Close, storeVars, store, user
  <2>2. log'.items = log.items
    BY <1>0, <2>1
  <2> QED
    BY <2>1, <2>2
<1> QED
  BY <1>1, <1>2, <1>3, <1>4, <1>5

LEMMA SmoothPlan ==
    ASSUME TypeOK, TypeOK', CalmInv, SmoothInv, began' = began, Plan
    PROVE  SmoothInv'
<1> USE DEF SmoothInv, ValuesOK, CleanOK, CleanItem, FilesOK, KeptOK, StoreOK, IndexOK, EarlyOK,
           Early, DoneOK, had, Unread, Authority,
           Loading, Starting, InRun, AfterBinding, InHand, at
<1>1. /\ work'.items = Items /\ pc = "loaded" /\ mem.version = 0 /\ pc' = "open"
      /\ UNCHANGED <<sidecar, indexed, data, mem, pkg, shown, legacy, known, turn, content,
                     staged, file, backup, log, kept, hand, ready, editable, queued>>
  BY DEF Plan, storeVars, store, files, user
<1>2. kept.items = log.items /\ data.bound \subseteq mem.bound /\ BackedUp(log)
  BY <1>1 DEF CalmInv, JournalsOK, InStep, SavesOK, Packed, BackupsOK
<1>3. ASSUME NEW p \in Presets
      PROVE  /\ CleanItem(Items[p], p)
             /\ Items[p].outcome = "backed-up" => log.items[p].outcome = "backed-up"
             /\ had[p] # 0 => Items[p].class # "none"
  <2> DEFINE prior == kept.items[p]
  <2>1. /\ CleanItem(prior, p) /\ prior = log.items[p]
        /\ sidecar[p] \in {0, had[p]} /\ legacy[p] \in {0, had[p]} /\ file[p] \in {0, had[p]}
    BY <1>1, <1>2
  <2>2. prior = NoItem => prior.class = "none" /\ prior.sig = 0 /\ prior.outcome = "none"
    BY DEF NoItem
  <2>3. ASSUME NEW class \in {"create", "adopt", "already-migrated"}, had[p] # 0,
               class # "create" => file[p] # 0
        PROVE  /\ CleanItem(PlannedItem(p, class, had[p]), p)
               /\ PlannedItem(p, class, had[p]).outcome = "backed-up" =>
                    prior.outcome = "backed-up"
               /\ PlannedItem(p, class, had[p]).class # "none"
    BY <2>1, <2>2, <2>3 DEF PlannedItem
  <2>4. CASE p \notin mem.bound /\ legacy[p] # 0
    <3>1. Source(p) = had[p] /\ had[p] # 0
      BY <2>1, <2>4 DEF Source
    <3>2. /\ LegacyClass(p) \in {"create", "adopt", "already-migrated"}
          /\ LegacyClass(p) # "create" => file[p] # 0
      BY <2>1, <2>2, <3>1 DEF LegacyClass
    <3>3. Items[p] = PlannedItem(p, LegacyClass(p), had[p])
      BY <2>4, <3>1 DEF Items
    <3> QED
      BY <2>1, <2>3, <3>1, <3>2, <3>3
  <2>5. CASE p \in mem.bound /\ sidecar[p] # 0
    <3>1. file[p] # 0 /\ file[p] = had[p] /\ sidecar[p] = had[p]
      BY <2>1, <2>5
    <3>2. Items[p] = PlannedItem(p, "already-migrated", had[p])
      BY <2>5, <3>1 DEF Items, BoundClass
    <3> QED
      BY <2>1, <2>3, <3>1, <3>2
  <2>6. CASE ~(p \notin mem.bound /\ legacy[p] # 0) /\ ~(p \in mem.bound /\ sidecar[p] # 0)
    <3>1. Items[p] = prior
      BY <2>6 DEF Items
    <3>2. had[p] # 0 => prior.class # "none"
      BY <1>1, <2>1, <2>6
    <3> QED
      BY <2>1, <3>1, <3>2
  <2> QED
    BY <2>4, <2>5, <2>6
<1> QED
  BY <1>1, <1>3

LEMMA SmoothItem ==
    ASSUME TypeOK, TypeOK', CalmInv, SmoothInv, began' = began, NEW p \in Presets,
           \/ Take(p) \/ Stage(TRUE) \/ Rename(TRUE) \/ Mismatch \/ Trash
           \/ Backup(TRUE) \/ RemoveSidecar(TRUE)
    PROVE  SmoothInv'
<1> USE DEF SmoothInv, ValuesOK, CleanOK, CleanItem, FilesOK, KeptOK, StoreOK, IndexOK, EarlyOK,
           Early, DoneOK, had, Unread, Authority,
           Loading, Starting, InRun, AfterBinding, InHand, at
<1>0. /\ pc \in InRun => work.items = log.items
      /\ pc \in {"items", "stage"} => mem.version = 0 /\ data.version = 0
      /\ pc \in AfterBinding => at \in data.bound
      /\ pc = "remove" => sidecar[at] # 0 /\ backup[at] = sidecar[at]
      /\ pc = "items" => \A q \in todo : work.items[q].class \notin {"none", "blocked"}
      /\ pc \in InHand => at \in Presets
      /\ pc \in InHand => work.items[at].class \notin {"none", "blocked"}
  BY TablePresetMigrationAssumption, CallerTypes, Typed
  DEF CalmInv, JournalsOK, InStep, BindingOK, BackupOK, RunOK, Movable, VersionOK, TypeOK, Settings
<1>1. CASE Take(p)
  <2>1. /\ pc = "items" /\ p \in todo
        /\ hand' = [preset |-> p, read |-> legacy[p], made |-> work.items[p].made,
                    had |-> p \in mem.bound]
        /\ UNCHANGED <<sidecar, indexed, data, mem, pkg, shown, legacy, known, turn, content,
                       staged, file, backup, log, kept, work, ready, editable, queued>>
        /\ pc' = IF file[p] # 0 THEN "verify"
                 ELSE IF \/ work.items[p].class # "create" \/ legacy[p] = 0
                         \/ staged[p] \notin {0, legacy[p]}
                 THEN "failed"
                 ELSE IF staged[p] = 0 THEN "stage" ELSE "staged"
    BY <1>1 DEF Take, storeVars, store, files, user
  <2>2. hand'.preset = p /\ hand'.read = legacy[p]
    BY <2>1
  <2>3. file[p] = 0 => work.items[p].class = "create" /\ legacy[p] = had[p]
                       /\ staged[p] \in {0, legacy[p]} /\ had[p] # 0
    BY <1>0, <2>1
  <2> QED
    BY <2>1, <2>2, <2>3
<1>2. CASE Stage(TRUE)
  <2>1. /\ pc = "stage" /\ pc' = "staged"
        /\ staged' = [staged EXCEPT ![at] = hand.read]
        /\ UNCHANGED <<sidecar, indexed, data, mem, pkg, shown, legacy, known, turn, content,
                       file, backup, log, kept, work, hand, ready, editable, queued>>
    BY <1>2 DEF Stage, Lands, storeVars, store, run, user
  <2>2. \A q \in Presets : staged'[q] = IF q = at THEN hand.read ELSE staged[q]
    BY <2>1, JournalTypes
  <2> QED
    BY <1>0, <2>1, <2>2
<1>3. CASE Rename(TRUE)
  <2>1. /\ pc = "rename" /\ pc' = "verify"
        /\ file' = [file EXCEPT ![at] = staged[at]] /\ staged' = [staged EXCEPT ![at] = 0]
        /\ UNCHANGED <<sidecar, indexed, data, mem, pkg, shown, legacy, known, turn, content,
                       backup, log, kept, work, hand, ready, editable, queued>>
    BY <1>3 DEF Rename, storeVars, store, run, user
  <2>2. /\ \A q \in Presets : staged'[q] = IF q = at THEN 0 ELSE staged[q]
        /\ \A q \in Presets : file'[q] = IF q = at THEN staged[at] ELSE file[q]
    BY <2>1, JournalTypes
  <2> QED
    BY <1>0, <2>1, <2>2
<1>4. CASE Mismatch
  BY <1>0, <1>4 DEF Mismatch
<1>5. CASE Trash
  BY <1>5 DEF Trash
<1>6. CASE Backup(TRUE)
  <2>1. /\ pc = "backup"
        /\ IF sidecar[at] # 0 /\ backup[at] = 0
           THEN backup' = [backup EXCEPT ![at] = sidecar[at]] /\ pc' = "remove"
           ELSE /\ backup' = backup
                /\ pc' = IF sidecar[at] = 0
                         THEN IF backup[at] = Item.sig THEN "moved" ELSE "failed"
                         ELSE IF backup[at] = sidecar[at] THEN "remove" ELSE "failed"
        /\ UNCHANGED <<sidecar, indexed, data, mem, pkg, shown, legacy, known, turn, content,
                       staged, file, log, kept, work, hand, ready, editable, queued>>
    BY <1>6 DEF Backup, Lands, storeVars, store, run, user
  <2>2. Item.sig = had[at] /\ had[at] # 0
    BY <1>0, <2>1 DEF Item
  <2>3. /\ pc' \in {"remove", "moved"}
        /\ pc' = "moved" => sidecar[at] = 0
    BY <1>0, <2>1, <2>2
  <2>4. \A q \in Presets : backup'[q] = backup[q] \/ (backup[q] = 0 /\ backup'[q] = sidecar[q])
    BY <1>0, <2>1, JournalTypes
  <2> QED
    BY <1>0, <2>1, <2>3, <2>4
<1>7. CASE RemoveSidecar(TRUE)
  <2>1. /\ pc = "remove" /\ pc' = "moved"
        /\ sidecar' = [sidecar EXCEPT ![at] = 0]
        /\ UNCHANGED <<indexed, data, mem, pkg, shown, legacy, known, turn, content,
                       staged, file, backup, log, kept, work, hand, ready, editable, queued>>
    BY <1>7 DEF RemoveSidecar, Lands, store, files, run, user
  <2>2. \A q \in Presets : sidecar'[q] = IF q = at THEN 0 ELSE sidecar[q]
    BY <2>1, Typed DEF TypeOK
  <2>3. at \in data.bound /\ backup[at] # 0
    BY <1>0, <2>1
  <2> QED
    BY <1>0, <2>1, <2>2, <2>3
<1> QED
  BY <1>1, <1>2, <1>3, <1>4, <1>5, <1>6, <1>7

LEMMA SmoothNote ==
    ASSUME TypeOK, TypeOK', CalmInv, SmoothInv, began' = began,
           NoteStaged(TRUE) \/ NoteMigrated(TRUE) \/ NoteBackedUp(TRUE)
    PROVE  SmoothInv'
<1> USE DEF SmoothInv, ValuesOK, CleanOK, CleanItem, FilesOK, KeptOK, StoreOK, IndexOK, EarlyOK,
           Early, DoneOK, had, Unread, Authority,
           Loading, Starting, InRun, AfterBinding, InHand, at
<1>a. pc \in {"staged", "bound", "moved"} /\ at \in Presets
  BY DEF NoteStaged, NoteMigrated, NoteBackedUp, Note, TypeOK
<1>0. /\ at \in Presets /\ pc \in {"staged", "bound", "moved"} /\ work.items = log.items
      /\ work.items[at].class # "none"
  BY <1>a, TablePresetMigrationAssumption
  DEF CalmInv, JournalsOK, InStep, RunOK, Movable
<1>1. /\ log' = work' /\ kept' = work'
      /\ \A q \in Presets :
           /\ work'.items[q].class = work.items[q].class
           /\ work'.items[q].sig = work.items[q].sig
           /\ q # at => work'.items[q] = work.items[q]
      /\ work'.items[at].outcome \in {"staged", "migrated", "adopted", "backed-up"}
      /\ work'.items[at].outcome = "backed-up" <=> pc = "moved"
  BY <1>0, Noting
<1>2. /\ pc' = CASE pc = "staged" -> "rename" [] pc = "bound" -> "backup" [] pc = "moved" -> "items"
      /\ UNCHANGED <<sidecar, indexed, data, mem, pkg, shown, legacy, known, turn, content,
                     staged, file, backup, todo, hand, ready, editable, queued>>
  BY DEF NoteStaged, NoteMigrated, NoteBackedUp, Note, storeVars, store, user
<1>3. ValuesOK' /\ CleanOK' /\ FilesOK'
  BY <1>0, <1>1, <1>2
<1>4. KeptOK'
  BY <1>0, <1>1, <1>2
<1>5. StoreOK' /\ IndexOK' /\ DoneOK'
  BY <1>0, <1>1, <1>2
<1>6. EarlyOK'
  BY <1>0, <1>1, <1>2
<1> QED
  BY <1>3, <1>4, <1>5, <1>6

\* What a save begins with when it is not the one of the version: the presets of
\* the settings without a file, of which there is one or a binding.
LEMMA SmoothBeginning ==
    ASSUME TypeOK, CalmInv, SmoothInv, NEW by \in Callers, NEW s \in Settings, Begin(by, s),
           mem.bound \subseteq s.bound, pc \notin Loading, s.order = mem.order,
           s.version = 0 => mem.version = 0
    PROVE  /\ turn.by = "none" /\ turn.phase = "free" /\ turn'.by = by
           /\ shown' = shown /\ mem'.bound = s.bound /\ mem'.version = s.version
           /\ \A p \in mem'.order : had[p] # 0
           /\ \/ /\ s.version = 1 /\ turn'.phase = "data" /\ turn'.pack = mem'
                 /\ turn'.next = NoPreset /\ turn'.order = {}
              \/ /\ s.version = 0 /\ turn'.phase = "store" /\ turn'.pack = NoSettings
                 /\ turn'.order = mem'.order \ s.bound
                 /\ \A p \in Presets : /\ turn'.next[p] = IF p \in s.bound THEN 0 ELSE shown[p]
                                       /\ turn'.next[p] # 0 => p \in mem'.order
                                       /\ p \in turn'.rest => turn'.next[p] # 0
<1> DEFINE share == [p \in Presets |-> IF p \in s.bound THEN 0 ELSE shown[p]]
           now   == [s EXCEPT !.order = @ \cup Held(share)]
<1>0. StoreTypeOK /\ turn.by = "none" /\ turn.phase = "free"
  BY DEF TypeOK, CalmInv, SavesOK, Packed, Begin
<1>1. s.version = 0 => \E p \in Presets : shown[p] # 0 \/ p \in s.bound
  BY DEF SmoothInv, StoreOK
<1>2. ~Seeded(s, share)
  BY <1>1 DEF Seeded, NoPreset
<1>3. /\ mem' = now /\ shown' = shown
      /\ turn' = IF now.version = 1
                 THEN [Free EXCEPT !.by = by, !.phase = "data", !.pack = now]
                 ELSE [by |-> by, phase |-> "store", next |-> share,
                       order |-> now.order \ now.bound, rest |-> Rest(share, now.bound),
                       active |-> TRUE, prev |-> legacy, prevOrder |-> known.order,
                       keep |-> now.bound, pack |-> NoSettings, was |-> content]
  BY <1>2 DEF Begin
<1>4. \A p \in Presets : shown[p] \in {0, had[p]}
  BY DEF SmoothInv, ValuesOK
<1>5. Held(share) = {p \in Presets : p \notin s.bound /\ shown[p] # 0}
  BY DEF Held
<1>6. /\ now.bound = s.bound /\ now.version = s.version /\ now.version \in {0, 1}
      /\ now.order = s.order \cup Held(share)
  BY DEF Settings
<1>7. \A p \in now.order : had[p] # 0
  BY <1>4, <1>5, <1>6 DEF SmoothInv, IndexOK
<1>8. ASSUME NEW p \in Rest(share, now.bound), s.version = 0
      PROVE  share[p] # 0
  <2>1. mem.version = 0 /\ \A q \in Presets : legacy[q] # 0 => q \in mem.bound \/ shown[q] # 0
    BY <1>8 DEF SmoothInv, StoreOK
  <2> QED
    BY <2>1, <1>5, <1>6, <1>8 DEF Rest, Changed, Held
<1>9. CASE now.version = 1
  <2>1. turn' = [Free EXCEPT !.by = by, !.phase = "data", !.pack = now]
    BY <1>3, <1>9
  <2> HIDE DEF now
  <2> QED
    BY <2>1, <1>0, <1>3, <1>6, <1>7, <1>9 DEF Free
<1>10. CASE now.version # 1
  <2>1. turn' = [by |-> by, phase |-> "store", next |-> share,
                 order |-> now.order \ now.bound, rest |-> Rest(share, now.bound),
                 active |-> TRUE, prev |-> legacy, prevOrder |-> known.order,
                 keep |-> now.bound, pack |-> NoSettings, was |-> content]
    BY <1>3, <1>10
  <2>2. \A p \in Presets : share[p] = (IF p \in s.bound THEN 0 ELSE shown[p])
                           /\ (share[p] # 0 => p \in now.order)
    BY <1>5, <1>6
  <2> HIDE DEF now, share
  <2> QED
    BY <2>1, <2>2, <1>0, <1>3, <1>6, <1>7, <1>8, <1>10
<1> QED
  BY <1>9, <1>10

LEMMA SmoothBinding ==
    ASSUME TypeOK, TypeOK', CalmInv, SmoothInv, began' = began,
           Bind \/ Bound \/ Unbound \/ Finish \/ Finished(TRUE) \/ Finished(FALSE)
    PROVE  SmoothInv'
<1> USE DEF SmoothInv, ValuesOK, CleanOK, CleanItem, FilesOK, KeptOK, StoreOK, IndexOK, EarlyOK,
           Early, DoneOK, had, Unread, Authority,
           Loading, Starting, InRun, AfterBinding, InHand, at
<1>0. /\ pc \in InRun => work.items = log.items
      /\ pc \in {"items", "verify"} => mem.version = 0 /\ data.version = 0
      /\ pc \in AfterBinding => at \in data.bound
      /\ pc \in InHand => at \in Presets
      /\ pc \notin Loading => data.bound \subseteq mem.bound
      /\ mem \in Settings
  BY CallerTypes, Typed
  DEF CalmInv, JournalsOK, InStep, BindingOK, SavesOK, Packed, VersionOK, TypeOK, Settings
<1>1. CASE Bind
  <2> DEFINE s == [mem EXCEPT !.bound = @ \cup {at}]
  <2>1. pc = "verify" /\ at \in Presets
    BY <1>0, <1>1 DEF Bind
  <2>2. s \in Settings /\ s.bound = mem.bound \cup {at} /\ s.version = mem.version
        /\ s.order = mem.order
    BY <1>0, <2>1, CallerTypes DEF Settings
  <2>3. Begin("binding", s) /\ "binding" \in Callers
    BY <1>1 DEF Bind, Callers
  <2> HIDE DEF s
  <2>4. /\ shown' = shown /\ mem'.bound = mem.bound \cup {at} /\ mem'.version = 0
        /\ \A p \in mem'.order : had[p] # 0
        /\ turn'.phase = "store" /\ turn'.pack = NoSettings
        /\ turn'.order = mem'.order \ mem'.bound
        /\ \A p \in Presets : /\ turn'.next[p] = IF p \in mem'.bound THEN 0 ELSE shown[p]
                              /\ turn'.next[p] # 0 => p \in mem'.order
                              /\ p \in turn'.rest => turn'.next[p] # 0
    BY <1>0, <2>1, <2>2, <2>3, SmoothBeginning
  <2>5. /\ pc' = "binding" /\ NoSettings.order = {} /\ turn'.rest \subseteq Presets
        /\ UNCHANGED <<sidecar, indexed, data, pkg, legacy, known, content, staged, file, backup,
                       log, kept, work, todo, hand, ready, editable, queued, snapshot>>
    BY <1>1 DEF Bind, files, run, user, store, NoSettings, TypeOK, StoreTypeOK, Turns
  <2>6. ValuesOK' /\ CleanOK' /\ FilesOK' /\ KeptOK' /\ DoneOK'
    BY <1>0, <2>1, <2>4, <2>5
  <2>7. StoreOK'
    BY <1>0, <2>1, <2>4, <2>5
  <2>8. IndexOK'
    BY <1>0, <2>1, <2>4, <2>5
  <2>9. EarlyOK'
    BY <1>0, <2>1, <2>4, <2>5
  <2> QED
    BY <2>6, <2>7, <2>8, <2>9
<1>2. CASE Bound
  <2>1. /\ pc = "binding" /\ pc' = "bound" /\ turn' = Free /\ turn.phase = "done"
        /\ UNCHANGED <<sidecar, indexed, data, mem, pkg, shown, legacy, known, content, staged,
                       file, backup, log, kept, work, todo, hand, ready, editable, queued>>
    BY <1>2 DEF Bound, Settled, files, run, user, store
  <2> QED
    BY <1>0, <2>1 DEF Free, NoPreset, NoSettings
<1>3. CASE Unbound
  BY <1>3 DEF Unbound, Settled, CalmInv, SavesOK, Packed
<1>4. CASE Finish
  <2> DEFINE s == [mem EXCEPT !.version = 1]
  <2>1. s \in Settings /\ s.bound = mem.bound /\ s.version = 1 /\ s.order = mem.order
    BY <1>0, CallerTypes DEF Settings
  <2>2. Begin("version", s) /\ "version" \in Callers /\ pc = "items"
    BY <1>4 DEF Finish, Callers
  <2> HIDE DEF s
  <2>3. /\ shown' = shown /\ mem'.bound = mem.bound /\ mem'.version = 1
        /\ \A p \in mem'.order : had[p] # 0
        /\ turn.phase = "free" /\ turn'.phase = "data" /\ turn'.pack = mem'
        /\ turn'.next = NoPreset /\ turn'.order = {}
    BY <1>0, <2>1, <2>2, SmoothBeginning
  <2>4. /\ pc' = "version"
        /\ UNCHANGED <<sidecar, indexed, data, pkg, legacy, known, content, staged, file, backup,
                       log, kept, work, todo, hand, ready, editable, queued, snapshot>>
    BY <1>4 DEF Finish, files, run, user, store
  <2> QED
    BY <1>0, <2>2, <2>3, <2>4 DEF NoPreset
<1>5. CASE Finished(TRUE)
  <2>1. /\ pc = "version" /\ pc' = "close" /\ turn' = Free /\ turn.phase = "done"
        /\ work'.items = work.items
        /\ UNCHANGED <<sidecar, indexed, data, mem, pkg, shown, legacy, known, content, staged,
                       file, backup, log, kept, todo, hand, ready, editable, queued>>
    BY <1>5, JournalTypes DEF Finished, Settled, files, user, store, Journals
  <2> QED
    BY <1>0, <2>1 DEF Free, NoPreset, NoSettings
<1>6. CASE Finished(FALSE)
  BY <1>6 DEF Finished, Settled, CalmInv, SavesOK, Packed
<1> QED
  BY <1>1, <1>2, <1>3, <1>4, <1>5, <1>6

LEMMA SmoothRegistry ==
    ASSUME TypeOK, TypeOK', CalmInv, SmoothInv, began' = began, Registry
    PROVE  SmoothInv'
<1> USE DEF SmoothInv, ValuesOK, CleanOK, CleanItem, FilesOK, KeptOK, StoreOK, IndexOK, EarlyOK,
           Early, DoneOK, had, Unread, Authority,
           Loading, Starting, InRun, AfterBinding, InHand, at
<1>1. /\ pc = "registry" /\ pc' = "idle" /\ mem.version = 1
      /\ UNCHANGED <<sidecar, indexed, data, pkg, legacy, known, turn, content, staged, file,
                     backup, log, kept, work, todo, hand>>
  BY DEF Registry, files, run, store
<1>2. \A p \in Presets : file[p] # 0 \/ had[p] # 0 => p \in data.bound /\ p \in mem.bound
  <2>1. /\ \A p \in Presets : log.items[p].outcome \in {"none", "backed-up"}
        /\ \A p \in Presets : log.items[p].outcome = "backed-up" => p \in data.bound
        /\ data.bound \subseteq mem.bound
    BY <1>1 DEF CalmInv, VersionOK, AllMoved, BackupsOK, BackedUp, SavesOK, Packed
  <2> QED
    BY <1>1, <2>1
<1>3. /\ mem' = [mem EXCEPT !.bound = mem.bound, !.order = mem.bound]
      /\ \A p \in Presets : shown'[p] = 0
      /\ ready' = TRUE
  <2> DEFINE adopted == {p \in Presets \ (mem.bound \cup {}) : file[p] # 0}
             bound   == mem.bound \cup adopted
  <2>1. /\ mem' = [mem EXCEPT !.bound = bound, !.order = bound \cup {}]
        /\ shown' = [p \in Presets |-> IF p \in {} \ bound /\ file[p] = 0 THEN legacy[p] ELSE 0]
        /\ ready' = TRUE
    BY <1>1 DEF Registry
  <2>2. adopted = {}
    BY <1>2
  <2>3. bound = mem.bound /\ bound \cup {} = mem.bound
    BY <2>2
  <2> HIDE DEF bound
  <2> QED
    BY <2>1, <2>3
<1>4. mem'.bound = mem.bound /\ mem'.order = mem.bound /\ mem'.version = mem.version
      /\ mem.bound \subseteq Presets
  BY <1>3, CallerTypes DEF Settings
<1>5. \A p \in mem.bound : had[p] # 0
  BY <1>4
<1>6. ValuesOK' /\ CleanOK' /\ FilesOK' /\ KeptOK' /\ DoneOK'
  BY <1>1, <1>2, <1>3, <1>4
<1>7. StoreOK'
  BY <1>1, <1>2, <1>3, <1>4
<1>8. IndexOK'
  BY <1>1, <1>2, <1>3, <1>4, <1>5
<1>9. EarlyOK'
  BY <1>1, <1>2, <1>3, <1>4
<1> QED
  BY <1>6, <1>7, <1>8, <1>9

LEMMA SmoothSaving ==
    ASSUME TypeOK, TypeOK', CalmInv, CalmInv', SmoothInv, began' = began, NEW p \in Presets,
           WriteSidecar(p, TRUE) \/ WriteIndex(TRUE) \/ WriteData(TRUE),
           UNCHANGED <<files, run, pc, user>>
    PROVE  SmoothInv'
<1> USE DEF SmoothInv, ValuesOK, CleanOK, CleanItem, FilesOK, KeptOK, StoreOK, IndexOK, EarlyOK,
           Early, DoneOK, had, Unread, Authority,
           Loading, Starting, InRun, AfterBinding, InHand, at, files, run, user
<1>0. /\ StoreTypeOK /\ turn \in Turns /\ turn.phase \notin {"undo", "failed"}
      /\ turn.phase # "free" => pc # "down"
      /\ pc = "load" /\ turn.phase # "free" => turn.phase \in {"store", "done"} /\ turn.by = "load"
      /\ turn.by = "load" => pc \in Loading
      /\ pc \in AfterBinding => at \in data.bound
      /\ pc \in AfterBinding => at \in Presets
      /\ \A q \in Presets : log.items[q].outcome = "backed-up" => q \in data.bound
      /\ pc = "open" => \A q \in Presets : work.items[q].outcome = "backed-up" => q \in data.bound
  BY DEF TypeOK, StoreTypeOK, CalmInv, SavesOK, StartsAlone, Packed, BindingOK, BackupsOK, BackedUp,
         Free
<1>1. CASE WriteSidecar(p, TRUE)
  <2>0. /\ turn.phase = "store" /\ p \in turn.rest
        /\ sidecar' = [sidecar EXCEPT ![p] = turn.next[p]]
        /\ content' \in {content, [content EXCEPT ![p] = 2]}
        /\ content' # content => turn.next[p] = 2
        /\ turn' = [turn EXCEPT !.rest = @ \ {p}, !.phase = IF TRUE THEN @ ELSE "failed"]
        /\ UNCHANGED <<indexed, data, mem, pkg, shown, legacy, known>>
    BY <1>0, <1>1 DEF WriteSidecar, Lands, store
  <2>1. turn' = [turn EXCEPT !.rest = @ \ {p}]
    BY <1>0, <2>0 DEF Turns
  <2>2. /\ turn'.phase = turn.phase /\ turn'.rest = turn.rest \ {p} /\ turn'.by = turn.by
        /\ turn'.pack = turn.pack /\ turn'.next = turn.next /\ turn'.order = turn.order
    BY <2>1, <1>0 DEF Turns
  <2>3. \A q \in Presets : sidecar'[q] = IF q = p THEN turn.next[p] ELSE sidecar[q]
    BY <1>0, <2>0, Typed
  <2>4. /\ turn.next[p] # 0 /\ turn.next[p] = had[p] /\ p \notin data.bound
        /\ content' = content
    BY <2>0
  <2>5. UNCHANGED <<indexed, data, mem, shown, legacy, known, content, staged, file, backup,
                    log, work, hand, pc, ready, queued>>
    BY <2>0, <2>4
  <2>6. ValuesOK' /\ CleanOK' /\ FilesOK' /\ DoneOK'
    BY <2>2, <2>3, <2>4, <2>5
  <2>7. KeptOK'
    BY <1>0, <2>2, <2>3, <2>4, <2>5
  <2>8. StoreOK'
    BY <2>2, <2>3, <2>4, <2>5
  <2>9. IndexOK'
    BY <2>2, <2>3, <2>4, <2>5
  <2>10. EarlyOK'
    BY <2>2, <2>3, <2>4, <2>5
  <2> QED
    BY <2>6, <2>7, <2>8, <2>9, <2>10
<1>2. CASE WriteIndex(TRUE)
  <2>1. /\ turn.phase = "store" /\ turn.rest = {} /\ known.pending = {}
        /\ turn' = IF turn.by = "load" THEN [turn EXCEPT !.phase = "done"]
                   ELSE [turn EXCEPT !.phase = "data", !.pack = mem]
        /\ legacy' = turn.next
        /\ known' = [order |-> turn.order, serialized |-> turn.order \cup {},
                     pending |-> {} \ turn.order]
        /\ indexed' = turn.order \cup {} \/ (turn.order \cup {} = known.serialized
                                             /\ indexed' = indexed)
        /\ UNCHANGED <<sidecar, data, mem, pkg, shown, content>>
    BY <1>0, <1>2 DEF WriteIndex, Lands
  <2>2. /\ turn'.by = turn.by /\ turn'.rest = turn.rest
        /\ turn'.next = turn.next /\ turn'.order = turn.order
        /\ \/ turn.by = "load" /\ turn'.phase = "done" /\ turn'.pack = turn.pack
           \/ turn.by # "load" /\ turn'.phase = "data" /\ turn'.pack = mem
    BY <2>1, <1>0 DEF Turns
  <2>3. /\ known'.order = turn.order /\ known'.serialized = turn.order /\ known'.pending = {}
        /\ indexed' \subseteq turn.order /\ turn.order \subseteq Presets
        /\ \A q \in indexed : q \in turn.order => q \in indexed'
    BY <1>0, <2>1 DEF Turns
  <2>4. UNCHANGED <<sidecar, data, mem, shown, content, staged, file, backup,
                    log, work, hand, pc, ready, queued>>
    BY <2>1
  <2>5. ValuesOK' /\ CleanOK' /\ FilesOK' /\ KeptOK' /\ DoneOK'
    BY <1>0, <2>1, <2>2, <2>4
  <2>6. StoreOK'
    BY <1>0, <2>1, <2>2, <2>4
  <2>7. IndexOK'
    BY <1>0, <2>1, <2>2, <2>3, <2>4
  <2>8. EarlyOK'
    BY <1>0, <2>1, <2>2, <2>3, <2>4
  <2> QED
    BY <2>5, <2>6, <2>7, <2>8
<1>3. CASE WriteData(TRUE)
  <2>0. turn.phase = "data" /\ pc \notin Loading /\ pkg = data
    BY <1>0, <1>3 DEF WriteData, CalmInv, SavesOK, Packed
  <2>1. /\ data' = turn.pack
        /\ turn' = [turn EXCEPT !.phase = "done"]
        /\ UNCHANGED <<sidecar, indexed, mem, shown, legacy, known, content>>
    BY <1>3, <2>0 DEF WriteData, Lands, store
  <2>2. /\ turn'.by = turn.by /\ turn'.phase = "done" /\ turn'.rest = turn.rest
        /\ turn'.pack = turn.pack /\ turn'.next = turn.next /\ turn'.order = turn.order
    BY <2>1, <1>0 DEF Turns
  <2>3. /\ data.bound \subseteq data'.bound /\ data'.bound \subseteq mem.bound
        /\ data'.version = 1 => mem.version = 1
    BY <2>0, <2>1 DEF CalmInv, SavesOK, Packed
  <2>4. UNCHANGED <<sidecar, indexed, mem, shown, legacy, known, content, staged, file, backup,
                    log, work, hand, pc, ready, queued>>
    BY <2>1
  <2>5. ValuesOK' /\ CleanOK' /\ FilesOK' /\ KeptOK' /\ DoneOK'
    BY <1>0, <2>0, <2>1, <2>2, <2>3, <2>4
  <2>6. StoreOK'
    BY <1>0, <2>0, <2>1, <2>2, <2>3, <2>4
  <2>7. IndexOK'
    BY <1>0, <2>0, <2>1, <2>2, <2>3, <2>4
  <2>8. EarlyOK'
    BY <1>0, <2>0, <2>1, <2>2, <2>3, <2>4
  <2> QED
    BY <2>5, <2>6, <2>7, <2>8
<1> QED
  BY <1>1, <1>2, <1>3

LEMMA SmoothUser ==
    ASSUME TypeOK, TypeOK', CalmInv, SmoothInv, began' = began, NEW p \in Presets,
           NEW by \in {"edit", "other"}, NEW ok \in BOOLEAN,
           EditPreset(p) \/ EditSetting \/ Retry \/ SaveSettings(by) \/ Saved(by, ok)
    PROVE  SmoothInv'
<1> USE DEF SmoothInv, ValuesOK, CleanOK, CleanItem, FilesOK, KeptOK, StoreOK, IndexOK, EarlyOK,
           Early, DoneOK, had, Unread, Authority,
           Loading, Starting, InRun, AfterBinding, InHand, at, files, run, user
<1>0. /\ mem \in Settings
      /\ pc \in Starting => queued = {} /\ ~ready /\ editable = {}
      /\ pc \notin Starting => ready \/ pc # "down"
  BY CallerTypes DEF CalmInv, SavesOK, StartsAlone
<1>1. CASE EditPreset(p)
  <2>1. mem.version = 1 /\ shown[p] = 0
    <3>1. ready
      BY <1>1 DEF EditPreset, CalmInv, SavesOK, StartsAlone
    <3> QED
      BY <3>1
  <2> QED
    BY <1>1, <2>1 DEF EditPreset
<1>2. CASE EditSetting
  <2>1. /\ mem.version = 1
        /\ UNCHANGED <<sidecar, indexed, data, mem, shown, legacy, known, turn, content, staged,
                       file, backup, log, work, hand, pc, ready>>
    BY <1>2 DEF EditSetting, storeVars, store
  <2> QED
    BY <2>1
<1>3. CASE Retry
  BY <1>3 DEF Retry
<1>4. CASE SaveSettings(by)
  <2>1. Begin(by, mem) /\ by \in Callers /\ pc \notin Loading /\ mem.version = 1
    BY <1>0, <1>4 DEF SaveSettings, Callers
  <2>2. /\ turn.phase = "free" /\ shown' = shown /\ mem'.bound = mem.bound /\ mem'.version = 1
        /\ \A q \in mem'.order : had[q] # 0
        /\ turn'.phase = "data" /\ turn'.pack = mem' /\ turn'.next = NoPreset /\ turn'.order = {}
    BY <1>0, <2>1, SmoothBeginning
  <2>3. UNCHANGED <<sidecar, indexed, data, legacy, known, content, staged, file, backup, log,
                    kept, work, todo, hand, pc, ready>>
    BY <1>4 DEF SaveSettings, store
  <2> QED
    BY <2>1, <2>2, <2>3 DEF NoPreset
<1>5. CASE Saved(by, ok)
  <2>1. ok
    BY <1>5 DEF Saved, Settled, CalmInv, SavesOK, Packed
  <2>2. /\ turn' = Free /\ turn.phase = "done" /\ turn.by = by
        /\ UNCHANGED <<sidecar, indexed, data, mem, shown, legacy, known, content, staged, file,
                       backup, log, kept, work, todo, hand, pc, ready, editable, queued>>
    BY <1>5, <2>1 DEF Saved, Settled, store
  <2>3. pc # "load"
    BY <2>2 DEF CalmInv, SavesOK, StartsAlone
  <2> QED
    BY <2>2, <2>3 DEF Free, NoPreset, NoSettings
<1> QED
  BY <1>1, <1>2, <1>3, <1>4, <1>5

LEMMA SmoothDown ==
    ASSUME TypeOK, CalmInv, SmoothInv, began' = began, Down
    PROVE  SmoothInv'
<1> USE DEF SmoothInv, ValuesOK, CleanOK, CleanItem, FilesOK, KeptOK, StoreOK, IndexOK, EarlyOK,
           Early, DoneOK, had, Unread, Authority,
           Loading, Starting, InRun, AfterBinding, InHand, at
<1>1. /\ turn' = Free /\ pc' = "down" /\ ready' = FALSE /\ queued' = {}
      /\ mem' = NoSettings /\ shown' = NoPreset /\ legacy' = Defaults
      /\ known' = Constructed /\ hand' = NoHand
      /\ UNCHANGED <<sidecar, indexed, data, content, staged, file, backup, log>>
  BY DEF Down, Ended, files
<1>2. /\ turn'.phase = "free" /\ turn'.next = NoPreset /\ turn'.order = {} /\ turn'.pack.order = {}
      /\ mem'.bound = {} /\ mem'.version = 0 /\ mem'.order = {} /\ hand'.preset = NoOne
      /\ known'.pending = {} /\ \A p \in Presets : NoPreset[p] = 0
  BY <1>1 DEF Free, NoSettings, NoPreset, NoHand, Constructed
<1> QED
  BY <1>1, <1>2, TablePresetMigrationAssumption

\* A start loads what is there, and makes the default preset only where that is
\* what the default preset was.
LEMMA SmoothLoad ==
    ASSUME TypeOK, TypeOK', CalmInv, SmoothInv, began' = began, Startup, Unemptied
    PROVE  SmoothInv'
<1> USE DEF SmoothInv, ValuesOK, CleanOK, CleanItem, FilesOK, KeptOK, StoreOK, IndexOK, EarlyOK,
           Early, DoneOK, had, Unread,
           Loading, Starting, InRun, AfterBinding, InHand, at
<1>0. /\ pc = "down" /\ pc' = "load" /\ turn = Free /\ turn.phase = "free" /\ Load
      /\ turn.next = NoPreset /\ turn.order = {} /\ turn.pack.order = {}
      /\ indexed \subseteq Presets /\ \A p \in Presets : NoPreset[p] = 0
      /\ Default \in Presets /\ sidecar \in [Presets -> Versions]
      /\ legacy = Defaults /\ known.pending = {} /\ data.bound \subseteq Presets
  BY TablePresetStoreAssumption, Typed
  DEF Startup, CalmInv, SavesOK, StartsAlone, Free, NoPreset, NoSettings, TypeOK, StoreTypeOK,
      Settings
<1>1. UNCHANGED <<sidecar, indexed, data, mem, shown, content, staged, file, backup, log, kept,
                  work, todo, hand, ready, editable, queued>>
  BY DEF Startup, Load, files, run, user
<1>2. Listed = indexed /\ Missing = {} /\ \A p \in indexed : sidecar[p] # 0
  BY <1>0 DEF Listed, Missing
<1> DEFINE found == [p \in Presets |-> IF p \in indexed THEN sidecar[p] ELSE 0]
<1>3. Found = IF found = NoPreset /\ ~Authority THEN Defaults ELSE found
  BY <1>2 DEF Found
<1>4. \A p \in Presets : /\ p \in indexed <=> found[p] # 0
                         /\ found[p] = IF p \in indexed THEN sidecar[p] ELSE 0
  BY <1>2
<1>5. found \in [Presets -> Versions]
  BY <1>0 DEF Versions, Factory
<1>6. Held(found) = indexed
  BY <1>0, <1>4 DEF Held
<1> HIDE DEF found
<1>7. \A p \in Presets : Defaults[p] = IF p = Default THEN Factory ELSE 0
  BY <1>0 DEF Defaults, NoPreset
<1>8. Factory # 0
  BY DEF Factory
<1>9. Held(Defaults) = {Default}
  BY <1>0, <1>7, <1>8 DEF Held
<1>10. CASE Found = found
  <2>1. FoundOrder = indexed
    BY <1>2, <1>6, <1>10 DEF FoundOrder
  <2>2. /\ legacy' = found /\ turn' = turn
        /\ known' = [order |-> indexed, serialized |-> indexed, pending |-> {}]
    BY <1>0, <1>2, <1>10, <2>1 DEF Load
  <2>3. Authority \/ \E p \in Presets : found[p] # 0
    <3>1. Authority \/ indexed # {}
      <4>1. CASE indexed = {} /\ ~Authority
        <5>1. found = NoPreset
          BY <1>4, <1>5, <4>1 DEF NoPreset
        <5>2. Found = Defaults
          BY <1>3, <4>1, <5>1
        <5> QED
          BY <1>0, <1>7, <1>8, <1>10, <5>1, <5>2
      <4> QED
        BY <4>1
    <3> QED
      BY <1>0, <1>4, <3>1
  <2>4. known'.order = indexed /\ known'.serialized = indexed /\ known'.pending = {}
    BY <2>2
  <2>5. Authority' = Authority
    BY <1>1 DEF Authority
  <2>6. ValuesOK' /\ CleanOK' /\ FilesOK' /\ KeptOK' /\ DoneOK'
    BY <1>0, <1>1, <1>4, <2>2
  <2>7. StoreOK'
    BY <1>0, <1>1, <2>2, <2>3, <2>5
  <2>8. IndexOK'
    BY <1>0, <1>1, <2>2, <2>4
  <2>9. EarlyOK'
    BY <1>0, <1>1, <1>4, <2>2
  <2> QED
    BY <2>6, <2>7, <2>8, <2>9
<1>11. CASE Found # found
  <2>1. Found = Defaults /\ indexed = {} /\ ~Authority
    BY <1>0, <1>3, <1>4, <1>11
  <2>2. had[Default] = Factory /\ data.bound = {}
    BY <1>0, <2>1 DEF Unemptied, Emptied, Authority
  <2>3. FoundOrder = {Default}
    BY <1>2, <1>9, <2>1 DEF FoundOrder
  <2>4. Found # NoPreset
    BY <1>0, <1>7, <1>8, <2>1
  <2> DEFINE rest == Rest(Defaults, {})
             order == {Default} \cup Held(Defaults)
  <2>5. /\ turn' = [Free EXCEPT !.by = "load", !.phase = "store", !.next = Defaults,
                                !.order = order, !.rest = rest]
        /\ UNCHANGED <<legacy, known>>
    <3>1. Missing = {} /\ FoundOrder # indexed
      BY <1>2, <2>1, <2>3
    <3> QED
      BY <1>0, <2>1, <2>3, <2>4, <3>1 DEF Load, store
  <2>6. order = {Default}
    BY <1>9
  <2>7. \A p \in rest : Defaults[p] # 0
    BY <1>0 DEF Rest, Changed, Held
  <2> HIDE DEF order, rest
  <2>8. /\ turn'.phase = "store" /\ turn'.next = Defaults /\ turn'.order = {Default}
        /\ turn'.rest = rest /\ turn'.pack.order = {}
    BY <2>5, <2>6, <1>0 DEF Free, NoSettings
  <2>9. ValuesOK' /\ CleanOK' /\ FilesOK' /\ KeptOK' /\ DoneOK'
    BY <1>0, <1>1, <1>7, <1>8, <2>2, <2>5, <2>8
  <2>10. StoreOK'
    BY <1>0, <1>1, <1>7, <1>8, <2>2, <2>7, <2>8
  <2>11. IndexOK'
    BY <1>0, <1>1, <1>8, <2>1, <2>2, <2>5, <2>8
  <2>12. EarlyOK'
    BY <1>0, <1>1, <2>1, <2>5, <2>8
  <2> QED
    BY <2>9, <2>10, <2>11, <2>12
<1> QED
  BY <1>10, <1>11

LEMMA SmoothStarting ==
    ASSUME TypeOK, TypeOK', CalmInv, SmoothInv, began' = began,
           Loaded \/ SaveLoaded \/ Initialized \/ Abort
    PROVE  SmoothInv'
<1> USE DEF SmoothInv, ValuesOK, CleanOK, CleanItem, FilesOK, KeptOK, StoreOK, IndexOK, EarlyOK,
           Early, DoneOK, had, Unread, Authority,
           Loading, Starting, InRun, AfterBinding, InHand, at
<1>0. StoreTypeOK /\ data \in Settings /\ mem \in Settings
  BY Typed, CallerTypes DEF TypeOK
<1>1. CASE Loaded
  <2>1. /\ pc = "load" /\ pc' = "hydrated"
        /\ mem'.bound = data.bound /\ mem'.version = data.version
        /\ mem'.order = IF Authority THEN data.order ELSE known.order
        /\ shown' = legacy
        /\ UNCHANGED <<sidecar, indexed, data, pkg, legacy, known, content, staged, file, backup,
                       log, kept, work, todo, hand, ready, editable, queued>>
    BY <1>0, <1>1 DEF Loaded, Hydrate, Settings, store, files, run, user
  <2>2. turn.phase # "store"
    BY <1>1 DEF Loaded, Hydrate, Settled, CalmInv, SavesOK, Packed
  <2>3. turn'.phase = "free" /\ (turn' = turn \/ turn' = Free)
    BY <1>1 DEF Loaded, Hydrate, Settled, CalmInv, SavesOK, Packed, Free
  <2>4. /\ turn'.next = turn.next \/ turn'.next = NoPreset
        /\ turn'.order = turn.order \/ turn'.order = {}
        /\ turn'.pack.order = turn.pack.order \/ turn'.pack.order = {}
    BY <2>3 DEF Free, NoSettings
  <2>5. data.version \in {0, 1} /\ data.bound \subseteq Presets /\ ~ready /\ queued = {}
    BY <1>0, <2>1 DEF Settings, CalmInv, SavesOK, StartsAlone
  <2>6. ValuesOK' /\ CleanOK' /\ FilesOK' /\ KeptOK' /\ DoneOK'
    BY <2>1, <2>2, <2>3, <2>4, <2>5 DEF NoPreset
  <2>7. StoreOK'
    BY <2>1, <2>2, <2>3, <2>5
  <2>8. IndexOK'
    BY <2>1, <2>2, <2>3, <2>4
  <2>9. EarlyOK'
    BY <2>1, <2>2, <2>3
  <2> QED
    BY <2>6, <2>7, <2>8, <2>9
<1>2. CASE SaveLoaded
  <2>1. Begin("startup", mem) /\ "startup" \in Callers /\ pc = "hydrated" /\ pc' = "saving"
    BY <1>2 DEF SaveLoaded, Callers
  <2>2. /\ turn.phase = "free" /\ shown' = shown
        /\ mem'.bound = mem.bound /\ mem'.version = mem.version
        /\ \A p \in mem'.order : had[p] # 0
        /\ \/ /\ mem.version = 1 /\ turn'.phase = "data" /\ turn'.pack = mem'
              /\ turn'.next = NoPreset /\ turn'.order = {}
           \/ /\ mem.version = 0 /\ turn'.phase = "store" /\ turn'.pack = NoSettings
              /\ turn'.order = mem'.order \ mem.bound
              /\ \A p \in Presets : /\ turn'.next[p] = IF p \in mem.bound THEN 0 ELSE shown[p]
                                    /\ turn'.next[p] # 0 => p \in mem'.order
                                    /\ p \in turn'.rest => turn'.next[p] # 0
    BY <1>0, <2>1, SmoothBeginning
  <2>3. /\ data.bound \subseteq mem.bound /\ turn'.rest \subseteq Presets /\ NoSettings.order = {}
    BY <2>1 DEF CalmInv, SavesOK, Packed, TypeOK, StoreTypeOK, Turns, NoSettings
  <2>4. UNCHANGED <<sidecar, indexed, data, legacy, known, content, staged, file, backup, log,
                    kept, work, todo, hand, ready, editable, queued>>
    BY <1>2 DEF SaveLoaded, store, files, run, user
  <2>5. ValuesOK' /\ CleanOK' /\ FilesOK' /\ KeptOK' /\ DoneOK'
    BY <2>1, <2>2, <2>4 DEF NoPreset
  <2>6. StoreOK'
    BY <2>1, <2>2, <2>3, <2>4
  <2>7. IndexOK'
    BY <2>1, <2>2, <2>3, <2>4
  <2>8. EarlyOK'
    BY <2>1, <2>2, <2>3, <2>4
  <2> QED
    BY <2>5, <2>6, <2>7, <2>8
<1>3. CASE Initialized
  <2>1. /\ pc = "saving" /\ pc' = "loaded" /\ turn' = Free /\ turn.phase = "done"
        /\ UNCHANGED <<sidecar, indexed, data, mem, shown, legacy, known, content, staged, file,
                       backup, log, work, todo, hand, ready, editable, queued>>
    BY <1>3 DEF Initialized, Settled, store, files, user
  <2> QED
    BY <2>1 DEF Free, NoPreset, NoSettings
<1>4. CASE Abort
  BY <1>4 DEF Abort, CalmInv, SavesOK, Packed
<1> QED
  BY <1>1, <1>2, <1>3, <1>4

LEMMA SmoothInit ==
    ASSUME Init, NoForeignFile
    PROVE  SmoothInv
<1> USE DEF SmoothInv, ValuesOK, CleanOK, CleanItem, FilesOK, KeptOK, StoreOK, IndexOK, EarlyOK,
           Early, DoneOK, had, Unread, Authority,
           Loading, Starting, InRun, AfterBinding, InHand, at
<1>1. /\ turn = Free /\ pc = "loaded" /\ hand = NoHand /\ log = NoJournal
      /\ shown = sidecar /\ legacy = sidecar /\ content = sidecar /\ began.sidecar = sidecar
      /\ staged = NoPreset /\ backup = NoPreset /\ indexed = Held(sidecar)
      /\ data = [bound |-> {}, version |-> 0, order |-> indexed] /\ mem = data
      /\ known = [order |-> indexed, serialized |-> indexed, pending |-> {}]
      /\ ready = FALSE /\ queued = {}
  BY DEF Init
<1>2. /\ turn.phase = "free" /\ turn.next = NoPreset /\ turn.order = {} /\ turn.pack.order = {}
      /\ data.bound = {} /\ data.version = 0 /\ data.order = indexed
      /\ hand.preset = NoOne /\ hand.read = 0
      /\ known.order = indexed /\ known.serialized = indexed /\ known.pending = {}
      /\ \A p \in Presets : NoPreset[p] = 0
      /\ \A p \in Presets : log.items[p] = NoItem
  BY <1>1 DEF Free, NoPreset, NoSettings, NoHand, NoJournal
<1>3. \A p \in Presets : file[p] \in {0, had[p]}
  BY <1>1 DEF NoForeignFile, Init
<1>4. sidecar \in [Presets -> {0, 1, Factory}] /\ sidecar # NoPreset /\ 2 # Factory
  BY DEF Init, Factory
<1>5. \E p \in Presets : sidecar[p] # 0
  <2>1. CASE \A p \in Presets : sidecar[p] = 0
    BY <1>4, <2>1 DEF NoPreset
  <2> QED
    BY <2>1
<1>6. \A p \in Presets : p \in indexed <=> sidecar[p] # 0
  BY <1>1 DEF Held
<1>7. indexed \subseteq Presets
  BY <1>1 DEF Held
<1>8. NoItem.class = "none" /\ NoItem.outcome = "none"
  BY DEF NoItem
<1>9. ValuesOK /\ CleanOK /\ FilesOK /\ KeptOK /\ DoneOK
  BY <1>1, <1>2, <1>3, <1>4, <1>8
<1>10. StoreOK
  BY <1>1, <1>2, <1>5
<1>11. IndexOK
  BY <1>1, <1>2, <1>6, <1>7
<1>12. EarlyOK
  BY <1>1, <1>2, <1>6, <1>7
<1> QED
  BY <1>9, <1>10, <1>11, <1>12

LEMMA SmoothStutter ==
    ASSUME SmoothInv, UNCHANGED <<vars, began>>
    PROVE  SmoothInv'
BY DEF SmoothInv, ValuesOK, CleanOK, CleanItem, FilesOK, KeptOK, StoreOK, IndexOK, EarlyOK,
       Early, DoneOK, had, Unread, Authority, vars, storeVars, store, files, run, user, at

LEMMA SmoothStep ==
    ASSUME MigrationInv, SmoothInv, Next, Calm', Unemptied
    PROVE  SmoothInv'
<1>0. /\ began' = began /\ TypeOK /\ TypeOK' /\ Within /\ CalmInv /\ CalmInv'
      /\ Default \in Presets
  BY TypeStep, CalmBefore, CalmStep, TablePresetStoreAssumption DEF MigrationInv, Next
<1>1. CASE Migrate
  <2>1. CASE Plan
    BY <1>0, <2>1, SmoothPlan
  <2>2. CASE Partial
    BY <1>0, <2>2, SmoothOpening
  <2>3. CASE Mismatch \/ Trash \/ \E p \in Presets : Take(p)
    BY <1>0, <2>3, SmoothItem
  <2>4. CASE Bind \/ Bound \/ Unbound \/ Finish
    BY <1>0, <2>4, SmoothBinding
  <2>5. CASE Registry
    BY <1>0, <2>5, SmoothRegistry
  <2>6. ASSUME NEW ok \in BOOLEAN,
               \/ Open(ok) \/ Reconcile(ok) \/ Stage(ok) \/ Rename(ok) \/ Fail(ok) \/ Close(ok)
               \/ NoteStaged(ok) \/ NoteMigrated(ok) \/ NoteBackedUp(ok)
               \/ Backup(ok) \/ RemoveSidecar(ok)
        PROVE  SmoothInv'
    <3>1. ok
      BY <1>0, <2>6, NoFailure
    <3>2. ok = TRUE
      BY <3>1
    <3> QED
      BY <1>0, <2>6, <3>2, SmoothOpening, SmoothItem, SmoothNote
  <2>7. ASSUME NEW ok \in BOOLEAN, Finished(ok)
        PROVE  SmoothInv'
    <3>1. ok = TRUE \/ ok = FALSE
      OBVIOUS
    <3> QED
      BY <1>0, <2>7, <3>1, SmoothBinding
  <2> QED
    BY <1>1, <2>1, <2>2, <2>3, <2>4, <2>5, <2>6, <2>7 DEF Migrate
<1>2. CASE SaveStep
  <2>1. PICK ok \in BOOLEAN, p \in Presets : WriteSidecar(p, ok) \/ WriteIndex(ok) \/ WriteData(ok)
    BY <1>0, <1>2 DEF SaveStep, Save
  <2>2. ok
    BY <1>0, <2>1, NoFailure
  <2>3. ok = TRUE
    BY <2>2
  <2> QED
    BY <1>0, <1>2, <2>1, <2>3, SmoothSaving DEF SaveStep
<1>3. CASE Start
  BY <1>0, <1>3, SmoothLoad, SmoothStarting DEF Start
<1>4. CASE Crash
  BY <1>0, <1>4, SmoothDown DEF Crash
<1>5. CASE Saves
  BY <1>0, <1>5, SmoothUser DEF Saves
<1>6. CASE (\E p \in Presets : EditPreset(p)) \/ EditSetting \/ Retry
  BY <1>0, <1>6, SmoothUser
<1> QED
  BY <1>1, <1>2, <1>3, <1>4, <1>5, <1>6 DEF Next

\* The invariant holds as long as no start has found the store empty, or the
\* default preset was the program's.
LEMMA SmoothInvariant ==
    Spec /\ []Unemptied => [](Calm /\ NoForeignFile => SmoothInv)
<1> DEFINE Smooth == Calm /\ NoForeignFile => SmoothInv
<1>1. Init => Smooth
  BY SmoothInit
<1>2. MigrationInv /\ Unemptied /\ Smooth /\ [Next]_<<vars, began>> => Smooth'
  <2> SUFFICES ASSUME MigrationInv, Unemptied, Smooth, [Next]_<<vars, began>>, Calm',
                      NoForeignFile'
               PROVE  SmoothInv'
    OBVIOUS
  <2>1. Calm
    BY CalmBefore DEF MigrationInv, vars, Calm, None
  <2>2. NoForeignFile
    BY DEF NoForeignFile, Next, vars
  <2>3. SmoothInv
    BY <2>1, <2>2
  <2> QED
    BY <2>3, SmoothStep, SmoothStutter
<1> HIDE DEF Smooth
<1>3. Spec /\ []Unemptied => []Smooth
  BY <1>1, <1>2, MigrationInvariant, PTL DEF Spec
<1> QED
  BY <1>3 DEF Smooth

----------------------------------------------------------------------------
(* What follows for a run that is only interrupted *)

\* A run that is only interrupted never fails: wherever the process ends, no item
\* is blocked and nothing is rolled back when the next start runs the migration
\* from the journal again.  The premise is that of Completes: it does not hold of
\* a customised default preset that a start takes for missing, nor of the run
\* that follows where a start makes a default preset the user did not have.
THEOREM InterruptedRunsNeverFail ==
    Spec /\ []Unemptied =>
        [](Calm /\ NoForeignFile =>
              /\ pc \notin {"failed", "trash"}
              /\ \A p \in Presets : log.items[p].outcome \notin {"blocked", "failed"})
<1>1. (Calm /\ NoForeignFile => SmoothInv) =>
        (Calm /\ NoForeignFile =>
            /\ pc \notin {"failed", "trash"}
            /\ \A p \in Presets : log.items[p].outcome \notin {"blocked", "failed"})
  BY DEF SmoothInv, CleanOK, CleanItem
<1> QED
  BY <1>1, SmoothInvariant, PTL

\* data.json says that presets are migrated only when all that the user had are in
\* files, bound, with what was last saved of them in a backup and their old files
\* gone.
THEOREM VersionIsCommittedLast ==
    Spec /\ []Unemptied => [](Calm /\ NoForeignFile => VersionMeansMoved)
<1>1. ASSUME MigrationInv, Calm /\ NoForeignFile => SmoothInv, Calm, NoForeignFile
      PROVE  VersionMeansMoved
  <2>0. SmoothInv /\ CalmInv
    BY <1>1 DEF MigrationInv
  <2> SUFFICES ASSUME data.version = 1, NEW p \in Presets, content[p] # 0
               PROVE  Moved(p)
    BY DEF VersionMeansMoved, Held
  <2>1. had[p] # 0 /\ content[p] = had[p] /\ backup[p] \in {0, had[p]}
    BY <2>0 DEF SmoothInv, ValuesOK
  <2>2. log.items[p].outcome = "backed-up"
    <3>1. log.items[p].outcome \in {"none", "backed-up"}
      BY <2>0 DEF CalmInv, VersionOK, AllMoved
    <3>2. log.items[p].class # "none"
      BY <2>0, <2>1 DEF SmoothInv, DoneOK
    <3> QED
      BY <2>0, <3>1, <3>2 DEF SmoothInv, CleanOK, CleanItem
  <2>3. p \in data.bound /\ backup[p] # 0
    BY <2>0, <2>2 DEF CalmInv, BackupsOK, BackedUp
  <2>4. file[p] # 0 /\ sidecar[p] = 0
    BY <2>0, <2>2, <2>3 DEF SmoothInv, FilesOK, KeptOK
  <2> QED
    BY <2>1, <2>3, <2>4 DEF Moved
<1>2. MigrationInv /\ (Calm /\ NoForeignFile => SmoothInv) =>
        (Calm /\ NoForeignFile => VersionMeansMoved)
  BY <1>1
<1> QED
  BY <1>2, MigrationInvariant, SmoothInvariant, PTL

\* Nothing the user had is lost: what a preset held is in its old file or in its
\* backup at every moment, however often a run is interrupted.
THEOREM OldFilesAreKept ==
    Spec /\ []Unemptied => [](Calm /\ NoForeignFile => ContentKept)
<1>1. ASSUME MigrationInv, Calm /\ NoForeignFile => SmoothInv, Calm, NoForeignFile
      PROVE  ContentKept
  <2>0. SmoothInv
    BY <1>1
  <2>1. ~OneFailed
    <3>1. began.bounds \in [Kinds -> Nat] /\ "failures" \in Kinds
      BY <1>1, TablePresetStoreAssumption DEF MigrationInv, TypeOK, Kinds
    <3> QED
      BY <1>1, <3>1 DEF OneFailed, Calm, None
  <2>2. ASSUME NEW p \in Presets, content[p] # 0
        PROVE  content[p] \in {sidecar[p], backup[p]}
    BY <2>0, <2>2 DEF SmoothInv, ValuesOK, KeptOK
  <2> QED
    BY <2>1, <2>2 DEF ContentKept, Held
<1>2. MigrationInv /\ (Calm /\ NoForeignFile => SmoothInv) =>
        (Calm /\ NoForeignFile => ContentKept)
  BY <1>1
<1> QED
  BY <1>2, MigrationInvariant, SmoothInvariant, PTL

=============================================================================
