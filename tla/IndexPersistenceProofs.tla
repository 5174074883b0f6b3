------------------------- MODULE IndexPersistenceProofs -------------------------
(***************************************************************************)
(* The safety of IndexPersistence, for any files and any number of         *)
(* sessions, edits, peer changes and faults.                               *)
(***************************************************************************)
EXTENDS IndexPersistenceInvariant, TLAPS

----------------------------------------------------------------------------
(* Saves *)

LEMMA JobTyped ==
    ASSUME NEW data \in [Paths -> Record], NEW id \in Nat, NEW dirty \in SUBSET Paths,
           NEW full \in BOOLEAN
    PROVE  LET job == Job(data, id, dirty, full) IN
           /\ job \in Save /\ job # NoJob
           /\ job.data = data /\ job.scan = id /\ job.retry = 0
           /\ \A p : Carries(job, p) <=> full \/ p \in dirty
  BY NoValueAssumption DEF Job, Save, Carries

\* A merged save carries what either of the two does, and holds the data of the
\* second one if there is one.
LEMMA MergeTyped ==
    ASSUME NEW prev \in Save \cup {NoJob}, NEW next \in Save \cup {NoJob}
    PROVE  LET job == Merge(prev, next) IN
           /\ job \in Save \cup {NoJob}
           /\ job = NoJob <=> prev = NoJob /\ next = NoJob
           /\ \A p : Carries(job, p) <=> Carries(prev, p) \/ Carries(next, p)
           /\ next = NoJob => job = prev
           /\ next # NoJob => job.data = next.data /\ job.retry = next.retry
<1>1. CASE prev = NoJob \/ next = NoJob
  BY <1>1 DEF Merge, Carries
<1>2. CASE prev # NoJob /\ next # NoJob
  <2>1. Merge(prev, next) = [next EXCEPT !.dirty = @ \cup prev.dirty,
                                         !.full = @ \/ prev.full]
    BY <1>2 DEF Merge
  <2>2. prev \in Save /\ next \in Save
    BY <1>2
  <2>3. Merge(prev, next) \in Save
    BY <2>1, <2>2 DEF Save
  <2> QED
    BY <1>2, <2>1, <2>2, <2>3, NoValueAssumption DEF Save, Carries
<1> QED
  BY <1>1, <1>2

LEMMA RetryTyped ==
    ASSUME NEW job \in Save
    PROVE  LET again == [job EXCEPT !.retry = 1] IN
           /\ again \in Save /\ again # NoJob /\ again.data = job.data /\ again.retry = 1
           /\ \A p : Carries(again, p) <=> Carries(job, p)
  BY NoValueAssumption DEF Save, Carries

LEMMA NewDataTyped ==
    ASSUME NEW f \in Flights, f.job # NoJob
    PROVE  /\ f.job \in Save
           /\ NewData(f) \in [Paths -> Record]
<1>1. f.job \in Save
  BY DEF Flights
<1>2. ~Full(f) => f.base \in Snapshot
  BY DEF Flights, Full
<1> QED
  BY <1>1, <1>2 DEF NewData, Save, Snapshot

----------------------------------------------------------------------------
(* Types *)

LEMMA SpendTyped ==
    ASSUME TypeOK, NEW what \in {"sessions", "edits", "scans", "peer", "faults"}, Spend(what)
    PROVE  left' \in [{"sessions", "edits", "scans", "peer", "faults"} -> Nat]
  BY DEF TypeOK, Spend

LEMMA NothingTyped == NoFlight \in Flights /\ NoOp \in Ops /\ NoRecover \in Recoveries
  BY DEF NoFlight, Flights, NoOp, Ops, NoRecover, Recoveries

LEMMA NoSessionTyped ==
    ASSUME NoSession
    PROVE  /\ ram' \in [Paths -> Record] /\ scan' \in Nat /\ events' \subseteq Paths
           /\ fullWanted' \in BOOLEAN /\ pending' \in Save \cup {NoJob}
           /\ timer' \in {"none", "debounce", "retry"} /\ flushQueued' \in BOOLEAN
           /\ phase' \in {"idle", "settling", "rebasing", "required"}
           /\ base' \in Snapshot \cup {NoManifest} /\ op' \in Ops
           /\ flight' \in [Slots -> Flights] /\ recovery' \in Recoveries
           /\ unmarked' \in BOOLEAN
           /\ \A slot \in Slots : HasJob(flight'[slot])
<1>1. Empty \in [Paths -> Record]
  BY DEF Empty, Gone, Record
<1> QED
  BY <1>1, NothingTyped DEF NoSession, HasJob, NoFlight

LEMMA LandTyped ==
    ASSUME Typed, NEW slot \in Slots, Land(slot)
    PROVE  /\ flight' \in [Slots -> Flights] /\ flight'[slot] = NoFlight
           /\ \A s \in Slots \ {slot} : flight'[s] = flight[s]
           /\ \A s \in Slots : HasJob(flight'[s])
  BY NothingTyped DEF Typed, TypeOK, Land, HasJob, NoFlight

LEMMA ReturnTyped ==
    ASSUME Typed, NEW slot \in Slots, Return(slot)
    PROVE  op' \in Ops /\ recovery' \in Recoveries
  BY NothingTyped DEF Typed, TypeOK, Return, Recoveries

LEMMA FreeOpTyped ==
    ASSUME Typed, NEW slot \in Slots, FreeOp(slot)
    PROVE  op' \in Ops
  BY NothingTyped DEF Typed, TypeOK, FreeOp

LEMMA StartTyped ==
    ASSUME Typed, NEW slot \in Slots, NEW job \in Save, NEW from \in Snapshot \cup {NoManifest},
           Start(slot, job, from)
    PROVE  /\ flight' \in [Slots -> Flights]
           /\ flight'[slot].at = (IF life = "closed" THEN "failed" ELSE "compiled")
           /\ flight'[slot].job = job /\ flight'[slot].base = from
           /\ \A s \in Slots \ {slot} : flight'[s] = flight[s]
           /\ \A s \in Slots : HasJob(flight'[s])
<1> DEFINE f == [at |-> IF life = "closed" THEN "failed" ELSE "compiled",
                 job |-> job, base |-> from,
                 error |-> IF life = "closed" THEN "fatal" ELSE "none"]
<1>1. f \in Flights /\ f.job # NoJob /\ f.at # "committed"
  BY NoValueAssumption DEF Flights
<1>2. flight' = [flight EXCEPT ![slot] = f] /\ flight \in [Slots -> Flights]
  BY DEF Start, Typed, TypeOK
<1> QED
  BY <1>1, <1>2 DEF HasJob, Typed

LEMMA FlushTyped ==
    ASSUME Typed, NEW slot \in Slots, Flush(slot)
    PROVE  /\ flight' \in [Slots -> Flights] /\ \A s \in Slots : HasJob(flight'[s])
           /\ pending' \in Save \cup {NoJob} /\ timer' = "none"
<1>1. CASE pending # NoJob /\ phase = "idle"
  BY <1>1, StartTyped DEF Typed, TypeOK, Flush
<1>2. CASE ~(pending # NoJob /\ phase = "idle")
  BY <1>2 DEF Typed, TypeOK, Flush
<1> QED
  BY <1>1, <1>2

LEMMA RequestTyped ==
    ASSUME Typed, NEW data \in [Paths -> Record], NEW dirty \in SUBSET Paths,
           RequestSave(data, dirty)
    PROVE  pending' \in Save \cup {NoJob} /\ timer' \in {"none", "debounce", "retry"}
<1>1. CASE Coherent
  <2> DEFINE job == Job(data, scan, dirty, FALSE)
  <2>1. job \in Save
    BY JobTyped DEF Typed, TypeOK
  <2>2. Merge(pending, job) \in Save \cup {NoJob}
    BY <2>1, MergeTyped DEF Typed, TypeOK
  <2> QED
    BY <1>1, <2>2 DEF RequestSave, Typed, TypeOK, ArmDebounce
<1>2. CASE ~Coherent
  BY <1>2 DEF RequestSave, Typed, TypeOK
<1> QED
  BY <1>1, <1>2

LEMMA ScanTyped ==
    ASSUME Typed, CommitScan
    PROVE  /\ ram' \in [Paths -> Record]
           /\ serial' \in Nat /\ scan' \in Nat /\ scan' # 0 /\ unhealed' \subseteq Paths
<1>1. \A last \in Paths : Staged(last) \in [Paths -> Record]
  BY DEF Typed, TypeOK, Ops, Staged, StatOf, Record
<1>2. Empty \in [Paths -> Record]
  BY DEF Empty, Gone, Record
<1> QED
  BY <1>1, <1>2 DEF CommitScan, Typed, TypeOK

LEMMA MarkerTyped ==
    ASSUME Typed, WriteMarker
    PROVE  /\ marker' \in BOOLEAN /\ unmarked' \in BOOLEAN
           /\ left' \in [{"sessions", "edits", "scans", "peer", "faults"} -> Nat]
           /\ marker' \/ unmarked'
  BY SpendTyped DEF Typed, TypeOK, WriteMarker

LEMMA RequestRecoveryTyped ==
    ASSUME Typed, RequestRecovery
    PROVE  /\ recovery' \in Recoveries
           /\ phase' \in {"idle", "settling", "rebasing", "required"}
  BY NothingTyped DEF Typed, TypeOK, RequestRecovery, Recoveries

\* A commit activates a snapshot with a new number.
LEMMA CommittedTyped ==
    ASSUME Typed, NEW slot \in Slots, flight[slot].at = "compiled"
    PROVE  /\ flight[slot].job \in Save /\ NewData(flight[slot]) \in [Paths -> Record]
           /\ [id |-> serial + 1, data |-> NewData(flight[slot]),
               scan |-> flight[slot].job.scan] \in Snapshot
<1>1. flight[slot] \in Flights /\ flight[slot].job # NoJob
  BY DEF Typed, TypeOK, HasJob
<1>2. flight[slot].job \in Save /\ NewData(flight[slot]) \in [Paths -> Record]
  BY <1>1, NewDataTyped
<1> QED
  BY <1>2 DEF Typed, TypeOK, Snapshot, Save

LEMMA TypedInit == Init => Typed
<1> SUFFICES ASSUME Init PROVE Typed
  OBVIOUS
<1>1. Empty \in [Paths -> Record]
  BY DEF Empty, Gone, Record
<1>2. flight \in [Slots -> Flights] /\ \A slot \in Slots : HasJob(flight[slot])
  BY NothingTyped DEF Init, HasJob, NoFlight
<1>3. vault \in [Paths -> Nat] /\ left \in [{"sessions", "edits", "scans", "peer", "faults"} -> Nat]
  BY BoundsAssumption DEF Init
<1> QED
  BY <1>1, <1>2, <1>3, NothingTyped DEF Init, Typed, TypeOK

LEMMA TypedIndexSteps == Typed /\ (IndexStep \/ ReindexFails \/ ScanFails) => Typed'
<1> SUFFICES ASSUME Typed, IndexStep \/ ReindexFails \/ ScanFails PROVE Typed'
  OBVIOUS
<1> USE DEF Typed, TypeOK, HasJob
<1>1. ASSUME NEW p \in Paths, ReindexRead(p) PROVE Typed'
  BY <1>1 DEF ReindexRead, saving, writer, history, Ops, disk
<1>2. ASSUME NEW p \in Paths, FileDelete(p) PROVE Typed'
  <2>1. ram' \in [Paths -> Record]
    BY <1>2 DEF FileDelete, Gone, Record
  <2>2. pending' \in Save \cup {NoJob} /\ timer' \in {"none", "debounce", "retry"}
    <3>1. RequestSave(ram', {p}) /\ {p} \in SUBSET Paths
      BY <1>2 DEF FileDelete
    <3> QED
      BY <2>1, <3>1, RequestTyped
  <2> QED
    BY <1>2, <2>1, <2>2 DEF FileDelete, writer, disk
<1>3. ASSUME ReindexApply PROVE Typed'
  <2>1. PICK p \in op.paths :
          /\ ram' = [ram EXCEPT ![p] = [content |-> op.read[p], stat |-> StatOf(p, op.read)]]
          /\ RequestSave(ram', {p}) /\ unhealed' = unhealed \ {p}
    BY <1>3 DEF ReindexApply
  <2>2. p \in Paths /\ op.read \in [Paths -> Nat]
    BY DEF Ops
  <2>3. [content |-> op.read[p], stat |-> StatOf(p, op.read)] \in Record
    BY <2>2 DEF StatOf, Record
  <2>4. ram' \in [Paths -> Record]
    BY <2>1, <2>2, <2>3
  <2>5. pending' \in Save \cup {NoJob} /\ timer' \in {"none", "debounce", "retry"}
    <3>1. RequestSave(ram', {p}) /\ {p} \in SUBSET Paths
      BY <2>1, <2>2
    <3> QED
      BY <2>4, <3>1, RequestTyped
  <2> QED
    BY <1>3, <2>1, <2>4, <2>5, NothingTyped DEF ReindexApply, writer, disk
<1>4. ASSUME FullReindexRead PROVE Typed'
  <2>1. op' \in Ops
    BY <1>4 DEF FullReindexRead, Ops
  <2>2. fullWanted' \in BOOLEAN
    BY <1>4 DEF FullReindexRead
  <2> QED
    BY <1>4, <2>1, <2>2 DEF FullReindexRead, saving, writer, history, disk
<1>5. ASSUME FullReindexApply PROVE Typed'
  <2> DEFINE job == Job(ram', scan', {}, TRUE)
  <2>1. /\ ram' \in [Paths -> Record] /\ serial' \in Nat /\ scan' \in Nat
        /\ unhealed' \subseteq Paths /\ job \in Save
    BY <1>5, ScanTyped, JobTyped DEF FullReindexApply
  <2>2. CASE phase = "idle"
    <3>1. flight' \in [Slots -> Flights] /\ \A slot \in Slots : HasJob(flight'[slot])
      BY <1>5, <2>1, <2>2, StartTyped DEF FullReindexApply, Slots
    <3>2. op' \in Ops
      BY <1>5, <2>2, NothingTyped DEF FullReindexApply, Ops, NoOp
    <3> QED
      BY <1>5, <2>1, <2>2, <3>1, <3>2 DEF FullReindexApply, writer, disk
  <2>3. CASE phase # "idle"
    <3>1. pending' \in Save \cup {NoJob}
      <4>1. pending' = Merge(pending, job)
        BY <1>5, <2>3 DEF FullReindexApply
      <4> QED
        BY <2>1, <4>1, MergeTyped
    <3>2. op' \in Ops /\ timer' = timer /\ flight' = flight
      BY <1>5, <2>3, NothingTyped DEF FullReindexApply
    <3> QED
      BY <1>5, <2>1, <3>1, <3>2 DEF FullReindexApply, writer, disk
  <2> QED
    BY <2>2, <2>3
<1>6. ASSUME TimerFires PROVE Typed'
  BY <1>6 DEF TimerFires, QueueFlush, disk, index, writer, history
<1>7. ASSUME FlushOperation PROVE Typed'
  <2>1. op' \in Ops
    BY <1>7, NothingTyped DEF FlushOperation, Ops, NoOp
  <2> QED
    BY <1>7, <2>1, FlushTyped DEF FlushOperation, disk, index, writer, history, Slots
<1>8. ASSUME ReindexFails PROVE Typed'
  BY <1>8, SpendTyped, NothingTyped DEF ReindexFails, Ops, disk, index, saving, writer
<1>9. ASSUME ScanFails PROVE Typed'
  BY <1>9, SpendTyped, NothingTyped
     DEF ScanFails, Recoveries, disk, index, saving, writer, history
<1> QED
  BY <1>1, <1>2, <1>3, <1>4, <1>5, <1>6, <1>7, <1>8, <1>9 DEF IndexStep

LEMMA TypedSaveSteps ==
    ASSUME Typed, NEW slot \in Slots,
           \/ CommitSave(slot) \/ SaveUnchanged(slot) \/ AdoptCommitted(slot)
           \/ ClearMarker(slot) \/ FailedToSync(slot) \/ FailedToRetry(slot)
           \/ FailedForGood(slot) \/ FailedInRebase(slot) \/ CommitFault(slot)
    PROVE  Typed'
<1> DEFINE f == flight[slot]
           new == [id |-> serial + 1, data |-> NewData(f), scan |-> f.job.scan]
<1>1. /\ f \in Flights /\ HasJob(f)
      /\ f.at # "none" => f.job \in Save
  BY DEF Typed, TypeOK, HasJob, Flights
<1> USE DEF Typed, TypeOK
<1>2. CASE CommitSave(slot)
  <2>1. new \in Snapshot
    BY <1>2, CommittedTyped DEF CommitSave
  <2>2. CASE manifest = f.base
    <3>1. /\ manifest' = new /\ serial' = serial + 1
          /\ flight' = [flight EXCEPT ![slot].at = "committed", ![slot].base = new]
      BY <1>2, <2>2 DEF CommitSave
    <3> DEFINE g == [f EXCEPT !.at = "committed", !.base = new]
    <3>2. flight' = [flight EXCEPT ![slot] = g]
      BY <3>1
    <3>3. g \in Flights /\ HasJob(g)
      BY <1>1, <1>2, <2>1, NoValueAssumption DEF Flights, HasJob, CommitSave
    <3> QED
      BY <1>2, <2>1, <3>1, <3>2, <3>3 DEF CommitSave, index, saving, writer, history
  <2>3. CASE manifest # f.base
    <3> DEFINE g == [f EXCEPT !.at = "failed", !.error = "base"]
    <3>1. flight' = [flight EXCEPT ![slot] = g]
      BY <1>2, <2>3 DEF CommitSave
    <3>2. g \in Flights /\ HasJob(g)
      BY <1>1, <1>2 DEF Flights, HasJob, CommitSave
    <3> QED
      BY <1>2, <2>3, <3>1, <3>2 DEF CommitSave, index, saving, writer, history
  <2> QED
    BY <2>2, <2>3
<1>3. CASE SaveUnchanged(slot)
  BY <1>3, LandTyped, ReturnTyped DEF SaveUnchanged, disk, index, saving, writer, history
<1>4. CASE AdoptCommitted(slot)
  <2>1. base' \in Snapshot
    BY <1>1, <1>4 DEF AdoptCommitted, Flights, HasJob
  <2>2. CASE f.job.full
    <3> DEFINE g == [f EXCEPT !.at = "clearing"]
    <3>1. flight' = [flight EXCEPT ![slot] = g] /\ UNCHANGED <<op, recovery>>
      BY <1>4, <2>2 DEF AdoptCommitted
    <3>2. g \in Flights /\ HasJob(g)
      BY <1>1, <1>4 DEF Flights, HasJob, AdoptCommitted
    <3> QED
      BY <1>4, <2>1, <3>1, <3>2 DEF AdoptCommitted, disk, index, saving, history
  <2>3. CASE ~f.job.full
    BY <1>4, <2>1, <2>3, LandTyped, ReturnTyped DEF AdoptCommitted, disk, index, saving, history
  <2> QED
    BY <2>2, <2>3
<1>5. CASE ClearMarker(slot)
  <2>1. /\ flight' \in [Slots -> Flights] /\ \A s \in Slots : HasJob(flight'[s])
        /\ op' \in Ops /\ recovery' \in Recoveries
    BY <1>5, LandTyped, ReturnTyped DEF ClearMarker
  <2>2. marker' \in BOOLEAN
    BY <1>5 DEF ClearMarker
  <2> QED
    BY <1>5, <2>1, <2>2 DEF ClearMarker, index, saving, writer, history
<1>6. CASE FailedToSync(slot)
  BY <1>1, <1>6, LandTyped, FreeOpTyped, MergeTyped, RequestRecoveryTyped
     DEF FailedToSync, disk, index, history
<1>7. CASE FailedToRetry(slot)
  BY <1>1, <1>7, LandTyped, FreeOpTyped, MergeTyped, RetryTyped
     DEF FailedToRetry, KeepForRetry, disk, index, writer, history
<1>8. CASE FailedForGood(slot)
  BY <1>8, LandTyped, FreeOpTyped, MarkerTyped DEF FailedForGood, index, saving
<1>9. CASE FailedInRebase(slot)
  <2>1. op' \in Ops /\ recovery' \in Recoveries
        /\ phase' \in {"idle", "settling", "rebasing", "required"}
    BY <1>9, NothingTyped DEF FailedInRebase, Recoveries
  <2> QED
    BY <1>9, <2>1, LandTyped DEF FailedInRebase, disk, index, saving, history
<1>10. CASE CommitFault(slot)
  <2>1. new \in Snapshot
    BY <1>10, CommittedTyped DEF CommitFault
  <2>2. PICK e \in {"io", "postflight", "fatal"} :
          flight' = [flight EXCEPT ![slot].at = "failed", ![slot].error = e]
    BY <1>10 DEF CommitFault
  <2>3. manifest' \in Snapshot \cup {NoManifest} /\ serial' \in Nat
    BY <1>10, <2>1 DEF CommitFault
  <2> DEFINE g == [f EXCEPT !.at = "failed", !.error = e]
  <2>4. flight' = [flight EXCEPT ![slot] = g]
    BY <2>2
  <2>5. g \in Flights /\ HasJob(g)
    BY <1>1, <1>10 DEF Flights, HasJob, CommitFault
  <2>6. left' \in [{"sessions", "edits", "scans", "peer", "faults"} -> Nat]
    BY <1>10, SpendTyped DEF CommitFault
  <2>7. flight' \in [Slots -> Flights] /\ \A s \in Slots : HasJob(flight'[s])
    BY <2>4, <2>5
  <2> QED
    BY <1>10, <2>3, <2>6, <2>7 DEF CommitFault, index, saving, writer, history
<1> QED
  BY <1>2, <1>3, <1>4, <1>5, <1>6, <1>7, <1>8, <1>9, <1>10

LEMMA TypedOtherSteps ==
    Typed /\ (RecoveryStep \/ UnloadStep \/ EnvironmentStep) => Typed'
<1> SUFFICES ASSUME Typed, RecoveryStep \/ UnloadStep \/ EnvironmentStep PROVE Typed'
  OBVIOUS
<1> USE DEF Typed, TypeOK
<1>1. CASE Settle
  <2>1. recovery' \in Recoveries
    BY <1>1 DEF Settle, Recoveries
  <2>2. left' \in [{"sessions", "edits", "scans", "peer", "faults"} -> Nat]
    BY <1>1, SpendTyped DEF Settle, GivesUp
  <2> QED
    BY <1>1, <2>1, <2>2 DEF Settle, disk, index, saving, writer, history
<1>2. CASE RebaseRead
  BY <1>2 DEF RebaseRead, Recoveries, Ops, disk, index, saving, history
<1>3. CASE RebaseApply
  <2> DEFINE job == Job(ram', scan', {}, TRUE)
  <2>1. /\ ram' \in [Paths -> Record] /\ serial' \in Nat /\ scan' \in Nat
        /\ unhealed' \subseteq Paths /\ job \in Save
    BY <1>3, ScanTyped, JobTyped DEF RebaseApply
  <2>2. recovery.stable \in Snapshot \cup {NoManifest}
    BY DEF Recoveries
  <2>3. CASE phase = "required"
    BY <1>3, <2>1, <2>2, <2>3, NothingTyped DEF RebaseApply, Recoveries, disk
  <2>4. CASE phase # "required"
    <3>1. op' \in Ops
      BY <1>3, <2>4, NothingTyped DEF RebaseApply, Ops, NoOp
    <3>2. flight' \in [Slots -> Flights] /\ \A slot \in Slots : HasJob(flight'[slot])
      BY <1>3, <2>1, <2>2, <2>4, StartTyped DEF RebaseApply, Slots
    <3> QED
      BY <1>3, <2>1, <2>2, <2>4, <3>1, <3>2 DEF RebaseApply, disk
  <2> QED
    BY <2>3, <2>4
<1>4. CASE RecoveryEnds
  BY <1>4, NothingTyped DEF RecoveryEnds, disk, index, saving, history
<1>5. CASE RecoveryRefused
  BY <1>5, NothingTyped, MarkerTyped DEF RecoveryRefused, index, saving
<1>6. CASE UnloadFlush
  <2>1. op' \in Ops
    BY <1>6, NothingTyped DEF UnloadFlush, Ops, NoOp
  <2> QED
    BY <1>6, <2>1, FlushTyped DEF UnloadFlush, AfterFlush, disk, index, writer, history, Slots
<1>7. CASE Destroy
  BY <1>7 DEF Destroy, disk, index, writer, history
<1>8. CASE StartLoaded
  <2>1. manifest \in Snapshot
    BY <1>8 DEF StartLoaded
  <2> QED
    BY <1>8, <2>1, SpendTyped DEF StartLoaded, Stale, Snapshot, disk, saving
<1>9. CASE StartEmpty
  BY <1>9, SpendTyped DEF StartEmpty, disk, saving, writer
<1>10. CASE RequestFullReindex
  BY <1>10 DEF RequestFullReindex, disk, saving, writer, history
<1>11. CASE FlushOutsideQueue
  BY <1>11, FlushTyped DEF FlushOutsideQueue, disk, index, writer, history, Slots
<1>12. CASE ObserveManifest
  BY <1>12, RequestRecoveryTyped DEF ObserveManifest, disk, index, saving, history
<1>13. CASE BeginUnload
  BY <1>13 DEF BeginUnload, disk, saving, writer, history
<1>14. CASE Quit
  BY <1>14, NoSessionTyped DEF Quit, disk
<1>15. CASE PeerManifest
  <2>1. ASSUME NEW seen \in SUBSET Paths,
               manifest' = [id |-> serial', scan |-> serial',
                 data |-> [p \in Paths |-> IF p \in seen
                             THEN [content |-> vault[p], stat |-> vault[p]] ELSE Gone]],
               serial' = serial + 1
        PROVE  manifest' \in Snapshot
    BY <2>1 DEF Snapshot, Record, Gone
  <2>2. manifest' \in Snapshot \cup {NoManifest} /\ serial' \in Nat
    BY <1>15, <2>1 DEF PeerManifest
  <2> QED
    BY <1>15, <2>2, SpendTyped DEF PeerManifest, index, saving, writer, history
<1>16. ASSUME NEW p \in Paths, NEW v \in 0 .. Bounds["edits"] + 2, Edit(p, v) PROVE Typed'
  <2>1. v \in Nat
    BY BoundsAssumption
  <2> QED
    BY <1>16, <2>1, SpendTyped DEF Edit, saving, writer, history
<1>17. CASE \E slot \in Slots : CommitFault(slot)
  BY <1>17, TypedSaveSteps
<1>18. CASE ReindexFails \/ ScanFails
  BY <1>18, TypedIndexSteps
<1> QED
  BY <1>1, <1>2, <1>3, <1>4, <1>5, <1>6, <1>7, <1>8, <1>9, <1>10, <1>11, <1>12, <1>13,
     <1>14, <1>15, <1>16, <1>17, <1>18 DEF RecoveryStep, UnloadStep, EnvironmentStep

LEMMA TypedStep == Typed /\ [Next]_vars => Typed'
<1>1. Typed /\ UNCHANGED vars => Typed'
  BY DEF Typed, TypeOK, HasJob, vars, disk, index, saving, writer, history
<1> QED
  BY <1>1, TypedIndexSteps, TypedSaveSteps, TypedOtherSteps DEF Next, SaveStep

THEOREM TypesHold == Spec => []Typed
  BY TypedInit, TypedStep, PTL DEF Spec

\* Every variable keeps its type, however saves are flushed.
THEOREM PersistenceTypes == Spec => []TypeOK
  BY TypesHold, PTL DEF Typed

----------------------------------------------------------------------------
(* The index queue, the recovery and the phase *)

LEMMA QueueInit == Init => QueueInv
  BY DEF Init, QueueInv, OperationOfQueue, RecoveryOfSession, NothingInMemory, Slots,
         NoFlight, NoOp, NoRecover, Coherent

\* Where the flights are when a save of this queue starts or not, ...
LEMMA FlushFlies ==
    ASSUME Typed, NEW slot \in Slots, Flush(slot), flight[slot].at = "none"
    PROVE  /\ \A s \in Slots \ {slot} : flight'[s] = flight[s]
           /\ flight' # flight <=> pending # NoJob /\ phase = "idle"
           /\ flight' # flight => /\ flight'[slot].at \in {"compiled", "failed"}
                                  /\ flight'[slot].job = pending
                                  /\ flight'[slot].base = base /\ pending' = NoJob
           /\ flight' = flight => pending' = pending
<1>1. CASE pending # NoJob /\ phase = "idle"
  <2>1. pending \in Save /\ base \in Snapshot \cup {NoManifest}
    BY <1>1 DEF Typed, TypeOK
  <2>2. Start(slot, pending, base) /\ pending' = NoJob
    BY <1>1 DEF Flush
  <2> QED
    BY <1>1, <2>1, <2>2, StartTyped
<1>2. CASE ~(pending # NoJob /\ phase = "idle")
  BY <1>2 DEF Flush
<1> QED
  BY <1>1, <1>2

\* ... and when one lands.
LEMMA Returns ==
    ASSUME Typed, QueueInv, NEW slot \in Slots, flight[slot].at # "none",
           Land(slot), Return(slot), UNCHANGED <<life, phase>>
    PROVE  OperationOfQueue' /\ RecoveryOfSession'
<1>1. flight'[slot].at = "none" /\ \A s \in Slots \ {slot} : flight'[s] = flight[s]
  BY LandTyped DEF NoFlight
<1>2. CASE slot = "queue"
  <2>1. op' = NoOp /\ op.at \in {"save", "rebase"}
    BY <1>2 DEF Return, QueueInv, OperationOfQueue, Slots
  <2>2. OperationOfQueue'
    BY <1>1, <1>2, <2>1 DEF OperationOfQueue, NoOp
  <2>3. CASE op.at = "rebase"
    <3>1. recovery'.at = "ending" /\ recovery.at = "queued"
      BY <1>2, <2>3 DEF Return, Allowed, QueueInv, OperationOfQueue, Typed, TypeOK, Recoveries
    <3> QED
      BY <2>2, <3>1 DEF QueueInv, RecoveryOfSession
  <2>4. CASE op.at # "rebase"
    BY <1>2, <2>2, <2>4 DEF Return, Allowed, QueueInv, RecoveryOfSession
  <2> QED
    BY <2>3, <2>4
<1>3. CASE slot # "queue"
  BY <1>1, <1>3 DEF Return, QueueInv, OperationOfQueue, RecoveryOfSession, Slots
<1> QED
  BY <1>2, <1>3

LEMMA QueueIndexSteps ==
    Typed /\ QueueInv /\ (IndexStep \/ ReindexFails \/ ScanFails) => QueueInv'
<1> SUFFICES ASSUME Typed, QueueInv, IndexStep \/ ReindexFails \/ ScanFails PROVE QueueInv'
  OBVIOUS
<1> USE DEF QueueInv, OperationOfQueue, RecoveryOfSession, NothingInMemory
<1>1. ASSUME NEW p \in Paths, ReindexRead(p) PROVE QueueInv'
  BY <1>1 DEF ReindexRead, QueueFree, saving, writer, Coherent
<1>2. ASSUME NEW p \in Paths, FileDelete(p) PROVE QueueInv'
  BY <1>2 DEF FileDelete, QueueFree, writer, Coherent
<1>3. ASSUME ReindexApply PROVE QueueInv'
  BY <1>3 DEF ReindexApply, NoOp, writer, Coherent
<1>4. ASSUME FullReindexRead PROVE QueueInv'
  BY <1>4 DEF FullReindexRead, QueueFree, saving, writer, Coherent, NoOp
<1>5. ASSUME FullReindexApply PROVE QueueInv'
  <2> DEFINE job == Job(ram', scan', {}, TRUE)
  <2>1. life # "off" /\ UNCHANGED <<life, writer, recovery>>
    BY <1>5 DEF FullReindexApply, NoOp
  <2>2. CASE phase = "idle"
    <3>1. job \in Save
      BY <1>5, ScanTyped, JobTyped DEF FullReindexApply
    <3>2. Start("queue", job, base) /\ op' = [NoOp EXCEPT !.at = "save"]
      BY <1>5, <2>2 DEF FullReindexApply
    <3>3. flight'["queue"].at # "none"
      BY <3>1, <3>2, StartTyped DEF Slots, Typed, TypeOK
    <3> QED
      BY <2>1, <2>2, <3>2, <3>3 DEF NoOp, writer
  <2>3. CASE phase # "idle"
    <3>1. op' = NoOp /\ flight' = flight /\ op.at = "scan"
      BY <1>5, <2>3 DEF FullReindexApply
    <3> QED
      BY <2>1, <3>1 DEF NoOp, writer
  <2> QED
    BY <2>2, <2>3
<1>6. ASSUME TimerFires PROVE QueueInv'
  BY <1>6 DEF TimerFires, index, writer, Coherent
<1>7. ASSUME FlushOperation PROVE QueueInv'
  <2>1. flight["queue"].at = "none" /\ Flush("queue") /\ "queue" \in Slots /\ QueueFree
    BY <1>7 DEF FlushOperation, QueueFree, Slots
  <2>2. CASE flight' = flight
    <3>1. op' = NoOp /\ pending' = pending
      BY <1>7, <2>1, <2>2, FlushFlies DEF FlushOperation
    <3> QED
      BY <1>7, <2>1, <2>2, <3>1 DEF FlushOperation, NoOp, index, writer, QueueFree, Coherent
  <2>3. CASE flight' # flight
    <3>1. op' = [NoOp EXCEPT !.at = "save"] /\ flight'["queue"].at # "none" /\ life # "off"
      BY <1>7, <2>1, <2>3, FlushFlies DEF FlushOperation
    <3> QED
      BY <1>7, <3>1 DEF FlushOperation, NoOp, index, writer
  <2> QED
    BY <2>2, <2>3
<1>8. ASSUME ReindexFails PROVE QueueInv'
  BY <1>8 DEF ReindexFails, NoOp, index, saving, writer, Coherent
<1>9. ASSUME ScanFails PROVE QueueInv'
  <2>1. /\ op' = NoOp /\ op.at \in {"scan", "rebaseScan"}
        /\ UNCHANGED <<life, index, saving, writer, flight>>
        /\ recovery' = IF op.at = "scan" THEN recovery ELSE [recovery EXCEPT !.at = "refused"]
    BY <1>9 DEF ScanFails
  <2>2. op.at = "rebaseScan" => recovery'.at = "refused" /\ recovery.at = "queued"
    BY <2>1 DEF Typed, TypeOK, Recoveries
  <2> QED
    BY <2>1, <2>2 DEF NoOp, index, saving, writer
<1> QED
  BY <1>1, <1>2, <1>3, <1>4, <1>5, <1>6, <1>7, <1>8, <1>9 DEF IndexStep

LEMMA QueueSaveSteps ==
    ASSUME Typed, QueueInv, NEW slot \in Slots,
           \/ CommitSave(slot) \/ SaveUnchanged(slot) \/ AdoptCommitted(slot)
           \/ ClearMarker(slot) \/ FailedToSync(slot) \/ FailedToRetry(slot)
           \/ FailedForGood(slot) \/ FailedInRebase(slot) \/ CommitFault(slot)
    PROVE  QueueInv'
<1>1. flight[slot].at # "none"
  BY DEF CommitSave, SaveUnchanged, AdoptCommitted, ClearMarker, FailedToSync,
         FailedToRetry, FailedForGood, FailedInRebase, CommitFault
<1>2. life # "off"
  BY <1>1 DEF QueueInv, NothingInMemory, NoFlight
<1>3. life' = life
  BY DEF CommitSave, SaveUnchanged, AdoptCommitted, ClearMarker, FailedToSync,
         FailedToRetry, FailedForGood, FailedInRebase, CommitFault
<1>4. SUFFICES OperationOfQueue' /\ RecoveryOfSession'
  BY <1>2, <1>3 DEF QueueInv, NothingInMemory
<1>5. CASE CommitSave(slot) \/ CommitFault(slot)
  <2>1. /\ flight'[slot].at # "none"
        /\ \A s \in Slots \ {slot} : flight'[s] = flight[s]
        /\ UNCHANGED <<life, phase, op, recovery>>
    BY <1>5 DEF CommitSave, CommitFault, writer, Typed, TypeOK, Flights
  <2> QED
    BY <1>1, <2>1 DEF QueueInv, OperationOfQueue, RecoveryOfSession, Slots
<1>6. CASE SaveUnchanged(slot)
  BY <1>1, <1>6, Returns DEF SaveUnchanged, writer
<1>7. CASE ClearMarker(slot)
  BY <1>1, <1>7, Returns DEF ClearMarker, writer
<1>8. CASE AdoptCommitted(slot)
  <2>1. CASE flight[slot].job.full
    <3>1. /\ flight'[slot].at # "none"
          /\ \A s \in Slots \ {slot} : flight'[s] = flight[s]
          /\ UNCHANGED <<life, phase, op, recovery>>
      BY <1>8, <2>1 DEF AdoptCommitted, Typed, TypeOK, Flights
    <3> QED
      BY <1>1, <3>1 DEF QueueInv, OperationOfQueue, RecoveryOfSession, Slots
  <2>2. CASE ~flight[slot].job.full
    BY <1>1, <1>8, <2>2, Returns DEF AdoptCommitted
  <2> QED
    BY <2>1, <2>2
<1>9. ASSUME Land(slot), FreeOp(slot), ~Allowed, recovery' = recovery PROVE OperationOfQueue'
  <2>1. flight'[slot].at = "none" /\ \A s \in Slots \ {slot} : flight'[s] = flight[s]
    BY <1>9, LandTyped DEF NoFlight
  <2> QED
    BY <1>9, <2>1 DEF FreeOp, NoOp, Allowed, QueueInv, OperationOfQueue, Slots
<1>10. CASE FailedToSync(slot)
  <2> USE <1>10 DEF FailedToSync
  <2>1. CASE CanRecover
    <3>1. recovery' = [NoRecover EXCEPT !.at = "settle"] /\ phase' = "settling"
          /\ life = "running" /\ recovery.at = "none"
      BY <2>1 DEF RequestRecovery, CanRecover
    <3>2. op.at \notin {"rebaseScan", "rebase"} /\ op' \in {op, NoOp}
      BY <3>1 DEF FreeOp, QueueInv, OperationOfQueue
    <3>3. OperationOfQueue'
      <4>1. flight'[slot].at = "none" /\ \A s \in Slots \ {slot} : flight'[s] = flight[s]
        BY LandTyped DEF NoFlight
      <4> QED
        BY <3>1, <3>2, <4>1 DEF FreeOp, NoOp, QueueInv, OperationOfQueue, Slots
    <3> QED
      BY <1>3, <3>1, <3>3 DEF RecoveryOfSession, NoRecover
  <2>2. CASE ~CanRecover
    <3>1. UNCHANGED <<recovery, phase>>
      BY <2>2 DEF RequestRecovery
    <3> QED
      BY <1>3, <1>9, <3>1 DEF QueueInv, RecoveryOfSession, OperationOfQueue
  <2> QED
    BY <2>1, <2>2
<1>11. CASE FailedToRetry(slot)
  <2>1. OperationOfQueue'
    BY <1>9, <1>11 DEF FailedToRetry
  <2> QED
    BY <1>11, <2>1 DEF FailedToRetry, writer, QueueInv, RecoveryOfSession
<1>12. CASE FailedForGood(slot)
  <2>1. OperationOfQueue'
    BY <1>9, <1>12 DEF FailedForGood
  <2> QED
    BY <1>12, <2>1 DEF FailedForGood, QueueInv, RecoveryOfSession
<1>13. CASE FailedInRebase(slot)
  <2>1. op.at = "rebase" /\ recovery.at = "queued" /\ life = "running" /\ phase # "idle"
    BY <1>13 DEF FailedInRebase, Allowed, QueueInv, OperationOfQueue, RecoveryOfSession
  <2>2. flight'[slot].at = "none" /\ \A s \in Slots \ {slot} : flight'[s] = flight[s]
    BY <1>13, LandTyped DEF NoFlight, FailedInRebase
  <2>3. CASE slot = "free"
    BY <1>13, <2>1, <2>2, <2>3
       DEF FailedInRebase, QueueInv, OperationOfQueue, RecoveryOfSession, Slots
  <2>4. CASE slot # "free"
    <3>1. op' = NoOp /\ recovery'.at \in {"settle", "refused"} /\ phase' \in {phase, "settling"}
      BY <1>13, <2>4 DEF FailedInRebase, NoRecover, Typed, TypeOK, Recoveries
    <3> QED
      BY <1>3, <2>1, <2>2, <2>4, <3>1
         DEF OperationOfQueue, RecoveryOfSession, NoOp, Slots
  <2> QED
    BY <2>3, <2>4
<1> QED
  BY <1>5, <1>6, <1>7, <1>8, <1>10, <1>11, <1>12, <1>13

LEMMA QueueOtherSteps ==
    Typed /\ QueueInv /\ (RecoveryStep \/ UnloadStep \/ EnvironmentStep) => QueueInv'
<1> SUFFICES ASSUME Typed, QueueInv, RecoveryStep \/ UnloadStep \/ EnvironmentStep
             PROVE  QueueInv'
  OBVIOUS
<1> USE DEF QueueInv, OperationOfQueue, RecoveryOfSession, NothingInMemory
<1>1. CASE Settle
  <2>1. recovery'.at \in {"queued", "refused"} /\ recovery.at = "settle"
    BY <1>1 DEF Settle, Typed, TypeOK, Recoveries
  <2> QED
    BY <1>1, <2>1 DEF Settle, index, saving, writer
<1>2. CASE RebaseRead
  <2>1. recovery.at = "queued" /\ life = "running" /\ op.at = "none"
        /\ UNCHANGED <<life, flight>>
    BY <1>2 DEF RebaseRead, QueueFree
  <2>2. CASE Closing \/ phase = "required"
    <3>1. recovery'.at = "ending" /\ UNCHANGED <<phase, op>>
      BY <1>2, <2>2 DEF RebaseRead, Typed, TypeOK, Recoveries
    <3> QED
      BY <2>1, <3>1
  <2>3. CASE ~(Closing \/ phase = "required")
    <3>1. /\ phase' = "rebasing" /\ recovery' = recovery
          /\ op' = [at |-> "rebaseScan", paths |-> Paths, read |-> vault]
      BY <1>2, <2>3 DEF RebaseRead
    <3> QED
      BY <2>1, <3>1
  <2> QED
    BY <2>2, <2>3
<1>3. CASE RebaseApply
  <2>1. recovery.at = "queued" /\ life = "running" /\ phase # "idle"
        /\ UNCHANGED <<life, phase>> /\ op.at = "rebaseScan"
    BY <1>3 DEF RebaseApply
  <2>2. CASE phase = "required"
    <3>1. recovery'.at = "ending" /\ op' = NoOp /\ flight' = flight
      BY <1>3, <2>2 DEF RebaseApply, Typed, TypeOK, Recoveries
    <3> QED
      BY <2>1, <3>1 DEF NoOp
  <2>3. CASE phase # "required"
    <3> DEFINE job == Job(ram', scan', {}, TRUE)
    <3>1. job \in Save /\ recovery.stable \in Snapshot \cup {NoManifest}
      BY <1>3, ScanTyped, JobTyped DEF RebaseApply, Typed, TypeOK, Recoveries
    <3>2. /\ Start("queue", job, recovery.stable) /\ recovery' = recovery
          /\ op' = [NoOp EXCEPT !.at = "rebase"]
      BY <1>3, <2>3 DEF RebaseApply
    <3>3. flight'["queue"].at # "none"
      BY <3>1, <3>2, StartTyped DEF Slots
    <3> QED
      BY <2>1, <3>2, <3>3 DEF NoOp
  <2> QED
    BY <2>2, <2>3
<1>4. CASE RecoveryEnds
  <2>1. /\ recovery.at = "ending" /\ recovery'.at = "none" /\ life = "running"
        /\ phase' \in {"idle", "required"} /\ UNCHANGED <<life, op, flight>>
    BY <1>4 DEF RecoveryEnds, NoRecover
  <2> QED
    BY <2>1
<1>5. CASE RecoveryRefused
  <2>1. recovery.at = "refused" /\ life = "running" /\ op.at = "none"
        /\ UNCHANGED <<life, op, flight>> /\ recovery'.at = "none"
    BY <1>5 DEF RecoveryRefused, QueueFree, NoRecover
  <2>2. phase' \in {"idle", "required"}
    BY <1>5, <2>1 DEF RecoveryRefused, Closing
  <2> QED
    BY <2>1, <2>2
<1>6. CASE UnloadFlush
  <2>1. /\ flight["queue"].at = "none" /\ Flush("queue") /\ "queue" \in Slots
        /\ life \notin {"off", "running"} /\ life' # "off"
    BY <1>6 DEF UnloadFlush, TailDone, QueueFree, Slots, AfterFlush
  <2>2. CASE flight' = flight
    BY <1>6, <2>1, <2>2 DEF UnloadFlush, NoOp, writer
  <2>3. CASE flight' # flight
    <3>1. op' = [NoOp EXCEPT !.at = "save"] /\ flight'["queue"].at # "none"
      BY <1>6, <2>1, <2>3, FlushFlies DEF UnloadFlush
    <3> QED
      BY <1>6, <2>1, <3>1 DEF UnloadFlush, NoOp, writer
  <2> QED
    BY <2>2, <2>3
<1>7. CASE Destroy
  BY <1>7 DEF Destroy, writer
<1>8. CASE StartLoaded
  BY <1>8 DEF StartLoaded, Slots, NoFlight, NoOp
<1>9. CASE StartEmpty
  BY <1>9 DEF StartEmpty, writer
<1>10. CASE RequestFullReindex
  BY <1>10 DEF RequestFullReindex, saving, writer
<1>11. CASE FlushOutsideQueue
  <2>1. /\ flight["free"].at = "none" /\ Flush("free") /\ "free" \in Slots /\ "queue" \in Slots
        /\ life = "running" /\ UNCHANGED <<life, op, recovery, phase>>
    BY <1>11 DEF FlushOutsideQueue, NoFlight, Slots, writer
  <2>2. flight'["queue"] = flight["queue"]
    BY <2>1, FlushFlies
  <2> QED
    BY <2>1, <2>2
<1>12. CASE ObserveManifest
  BY <1>12 DEF ObserveManifest, RequestRecovery, CanRecover, NoRecover
<1>13. CASE BeginUnload
  BY <1>13 DEF BeginUnload, writer
<1>14. CASE Quit
  BY <1>14 DEF Quit, NoSession, NoOp, NoFlight, NoRecover, Slots, Coherent
<1>15. CASE PeerManifest
  BY <1>15 DEF PeerManifest, index, saving, writer, Coherent
<1>16. ASSUME NEW p \in Paths, NEW v \in 0 .. Bounds["edits"] + 2, Edit(p, v) PROVE QueueInv'
  BY <1>16 DEF Edit, saving, writer, Coherent
<1>17. CASE \E slot \in Slots : CommitFault(slot)
  BY <1>17, QueueSaveSteps
<1>18. CASE ReindexFails \/ ScanFails
  BY <1>18, QueueIndexSteps
<1> QED
  BY <1>1, <1>2, <1>3, <1>4, <1>5, <1>6, <1>7, <1>8, <1>9, <1>10, <1>11, <1>12, <1>13,
     <1>14, <1>15, <1>16, <1>17, <1>18 DEF RecoveryStep, UnloadStep, EnvironmentStep

LEMMA QueueStep == Typed /\ QueueInv /\ [Next]_vars => QueueInv'
<1>1. QueueInv /\ UNCHANGED vars => QueueInv'
  BY DEF QueueInv, OperationOfQueue, RecoveryOfSession, NothingInMemory, Coherent,
         vars, index, saving, writer
<1> QED
  BY <1>1, QueueIndexSteps, QueueSaveSteps, QueueOtherSteps DEF Next, SaveStep

THEOREM QueueInvariant == Spec => []QueueInv
  BY TypesHold, QueueInit, QueueStep, PTL DEF Spec

----------------------------------------------------------------------------
(* The index follows the vault *)

LEMMA FollowsInit == Init => FollowsInv
  BY DEF Init, FollowsInv, ReadsWatched, Follows

LEMMA IndexLeftAlone ==
    ASSUME FollowsInv, UNCHANGED <<vault, life, ram, scan, events, unhealed>>,
           op' = op \/ (op.at \notin Reading /\ op'.at \notin Reading)
    PROVE  FollowsInv'
<1>1. CASE op' = op
  BY <1>1 DEF FollowsInv, ReadsWatched, Follows, Coherent
<1>2. CASE op.at \notin Reading /\ op'.at \notin Reading
  BY <1>2 DEF FollowsInv, ReadsWatched, Follows, Coherent, Reading
<1> QED
  BY <1>1, <1>2

\* A full scan, whichever file is read last: each file has been read in the
\* version it has, or waits for another read.
LEMMA ScanFollows ==
    ASSUME Typed, QueueInv, FollowsInv, CommitScan, op.at \in {"scan", "rebaseScan"},
           op'.at \notin Reading, UNCHANGED <<vault, life, events>>
    PROVE  FollowsInv'
<1>1. op.paths = Paths /\ op.read \in [Paths -> Nat]
  BY DEF QueueInv, OperationOfQueue, Typed, TypeOK, Ops
<1>2. \A p \in Paths : ram'[p].content = op.read[p]
  BY <1>1 DEF CommitScan, Staged, Empty, Gone
<1> QED
  BY <1>1, <1>2 DEF FollowsInv, ReadsWatched, Follows, Reading

LEMMA FollowsIndexSteps ==
    ASSUME Typed, QueueInv, FollowsInv, IndexStep \/ ReindexFails \/ ScanFails
    PROVE  FollowsInv'
<1>1. ASSUME NEW p \in Paths, ReindexRead(p) PROVE FollowsInv'
  <2>1. op'.at = "reindex" /\ op'.paths = {p} /\ op'.read = vault /\ events' = events \ {p}
        /\ op.at = "none" /\ UNCHANGED <<vault, life, ram, scan, unhealed>>
    BY <1>1 DEF ReindexRead, QueueFree, disk, history
  <2> QED
    BY <2>1 DEF FollowsInv, ReadsWatched, Follows, Coherent, Reading
<1>2. ASSUME NEW p \in Paths, FileDelete(p) PROVE FollowsInv'
  <2>1. /\ ram' = [ram EXCEPT ![p] = Gone] /\ vault[p] = 0 /\ op.at = "none"
        /\ events' = events \ {p} /\ unhealed' = unhealed \ {p}
        /\ UNCHANGED <<vault, life, scan, op>>
    BY <1>2 DEF FileDelete, QueueFree, disk
  <2>2. \A q \in Paths : ram'[q] = IF q = p THEN Gone ELSE ram[q]
    BY <2>1 DEF Typed, TypeOK
  <2> QED
    BY <2>1, <2>2 DEF FollowsInv, ReadsWatched, Follows, Coherent, Reading, Gone
<1>3. ASSUME ReindexApply PROVE FollowsInv'
  <2>1. PICK p \in op.paths :
          /\ ram' = [ram EXCEPT ![p] = [content |-> op.read[p], stat |-> StatOf(p, op.read)]]
          /\ unhealed' = unhealed \ {p}
    BY <1>3 DEF ReindexApply
  <2>2. op.at = "reindex" /\ op' = NoOp /\ UNCHANGED <<vault, life, scan, events>>
    BY <1>3 DEF ReindexApply, disk
  <2>3. op.paths = {p} /\ p \in Paths
    BY <2>1, <2>2 DEF QueueInv, OperationOfQueue
  <2>4. \A q \in Paths : ram'[q].content = IF q = p THEN op.read[p] ELSE ram[q].content
    BY <2>1, <2>3 DEF Typed, TypeOK
  <2> QED
    BY <2>1, <2>2, <2>3, <2>4
       DEF FollowsInv, ReadsWatched, Follows, Coherent, Reading, NoOp
<1>4. ASSUME FullReindexRead PROVE FollowsInv'
  <2>1. op'.at = "scan" /\ op'.read = vault /\ op'.paths = Paths /\ op.at = "none"
        /\ UNCHANGED <<vault, life, ram, scan, events, unhealed>>
    BY <1>4 DEF FullReindexRead, QueueFree, disk, history
  <2> QED
    BY <2>1 DEF FollowsInv, ReadsWatched, Follows, Coherent, Reading
<1>5. ASSUME FullReindexApply PROVE FollowsInv'
  <2>1. /\ CommitScan /\ op.at = "scan" /\ UNCHANGED <<vault, life, events>>
        /\ op' \in {NoOp, [NoOp EXCEPT !.at = "save"]}
    BY <1>5 DEF FullReindexApply, disk
  <2> QED
    BY <2>1, ScanFollows DEF NoOp, Reading
<1>6. ASSUME TimerFires PROVE FollowsInv'
  BY <1>6, IndexLeftAlone DEF TimerFires, disk, index, history
<1>7. ASSUME FlushOperation PROVE FollowsInv'
  <2>1. op.at = "none" /\ op' \in {NoOp, [NoOp EXCEPT !.at = "save"]}
        /\ UNCHANGED <<vault, life, ram, scan, events, unhealed>>
    BY <1>7 DEF FlushOperation, QueueFree, disk, index, history
  <2> QED
    BY <2>1, IndexLeftAlone DEF NoOp, Reading
<1>8. ASSUME ReindexFails PROVE FollowsInv'
  BY <1>8 DEF ReindexFails, NoOp, index, disk, FollowsInv, ReadsWatched, Follows, Coherent,
              Reading
<1>9. ASSUME ScanFails PROVE FollowsInv'
  BY <1>9 DEF ScanFails, NoOp, index, disk, history, FollowsInv, ReadsWatched, Follows,
              Coherent, Reading
<1> QED
  BY <1>1, <1>2, <1>3, <1>4, <1>5, <1>6, <1>7, <1>8, <1>9 DEF IndexStep

LEMMA FollowsSaveSteps ==
    ASSUME Typed, QueueInv, FollowsInv, NEW slot \in Slots,
           \/ CommitSave(slot) \/ SaveUnchanged(slot) \/ AdoptCommitted(slot)
           \/ ClearMarker(slot) \/ FailedToSync(slot) \/ FailedToRetry(slot)
           \/ FailedForGood(slot) \/ FailedInRebase(slot) \/ CommitFault(slot)
    PROVE  FollowsInv'
<1>1. UNCHANGED <<vault, life, ram, scan, events, unhealed>>
  BY DEF CommitSave, SaveUnchanged, AdoptCommitted, ClearMarker, FailedToSync,
         FailedToRetry, FailedForGood, FailedInRebase, CommitFault, disk, index, history
<1>2. flight[slot].at # "none"
  BY DEF CommitSave, SaveUnchanged, AdoptCommitted, ClearMarker, FailedToSync,
         FailedToRetry, FailedForGood, FailedInRebase, CommitFault
<1>3. op' = op \/ (op' = NoOp /\ slot = "queue")
  BY DEF CommitSave, SaveUnchanged, AdoptCommitted, ClearMarker, FailedToSync,
         FailedToRetry, FailedForGood, FailedInRebase, CommitFault, Return, FreeOp, Slots
<1>4. slot = "queue" => op.at \in {"save", "rebase"}
  BY <1>2 DEF QueueInv, OperationOfQueue
<1> QED
  BY <1>1, <1>3, <1>4, IndexLeftAlone DEF NoOp, Reading

LEMMA FollowsOtherSteps ==
    ASSUME Typed, QueueInv, FollowsInv, RecoveryStep \/ UnloadStep \/ EnvironmentStep
    PROVE  FollowsInv'
<1>1. CASE Settle
  BY <1>1, IndexLeftAlone DEF Settle, disk, index, history
<1>2. CASE RebaseRead
  <2>1. op.at = "none" /\ UNCHANGED <<vault, life, ram, scan, events, unhealed>>
    BY <1>2 DEF RebaseRead, QueueFree, disk, index, history
  <2>2. op' = op \/ op' = [at |-> "rebaseScan", paths |-> Paths, read |-> vault]
    BY <1>2 DEF RebaseRead
  <2> QED
    BY <2>1, <2>2 DEF FollowsInv, ReadsWatched, Follows, Coherent, Reading
<1>3. CASE RebaseApply
  <2>1. /\ CommitScan /\ op.at = "rebaseScan" /\ UNCHANGED <<vault, life, events>>
        /\ op' \in {NoOp, [NoOp EXCEPT !.at = "rebase"]}
    BY <1>3 DEF RebaseApply, disk
  <2> QED
    BY <2>1, ScanFollows DEF NoOp, Reading
<1>4. CASE RecoveryEnds
  BY <1>4, IndexLeftAlone DEF RecoveryEnds, disk, index, history
<1>5. CASE RecoveryRefused
  BY <1>5, IndexLeftAlone DEF RecoveryRefused, index
<1>6. CASE UnloadFlush \/ Destroy \/ BeginUnload
  <2>1. life' # "running"
    BY <1>6 DEF UnloadFlush, Destroy, BeginUnload, AfterFlush
  <2> QED
    BY <2>1 DEF FollowsInv, ReadsWatched, Follows
<1>7. CASE StartLoaded
  <2>1. /\ ram' = manifest.data /\ events' = Stale /\ op' = op /\ vault' = vault
        /\ unhealed' = {p \in Paths : manifest.data[p].stat # manifest.data[p].content}
        /\ op.at = "none"
    BY <1>7 DEF StartLoaded, disk, QueueInv, NothingInMemory, NoOp
  <2> QED
    BY <2>1 DEF FollowsInv, ReadsWatched, Follows, Reading, Stale
<1>8. CASE StartEmpty
  BY <1>8 DEF StartEmpty, QueueInv, NothingInMemory, NoOp, Coherent, FollowsInv,
              ReadsWatched, Follows, Reading
<1>9. CASE RequestFullReindex
  BY <1>9, IndexLeftAlone DEF RequestFullReindex, disk, history
<1>10. CASE FlushOutsideQueue
  BY <1>10, IndexLeftAlone DEF FlushOutsideQueue, disk, index, history
<1>11. CASE ObserveManifest
  BY <1>11, IndexLeftAlone DEF ObserveManifest, disk, index, history
<1>12. CASE Quit
  BY <1>12 DEF Quit, FollowsInv, ReadsWatched, Follows
<1>13. CASE PeerManifest
  BY <1>13, IndexLeftAlone DEF PeerManifest, index, history
<1>14. ASSUME NEW p \in Paths, NEW v \in 0 .. Bounds["edits"] + 2, Edit(p, v)
       PROVE  FollowsInv'
  <2>1. /\ vault' = [vault EXCEPT ![p] = v] /\ UNCHANGED <<life, ram, scan, op, unhealed>>
        /\ life = "running" => events' = events \cup {p}
    BY <1>14 DEF Edit, history
  <2>2. \A q \in Paths : q # p => vault'[q] = vault[q]
    BY <2>1 DEF Typed, TypeOK
  <2>3. op.paths \subseteq Paths
    BY DEF Typed, TypeOK, Ops
  <2> QED
    BY <2>1, <2>2, <2>3 DEF FollowsInv, ReadsWatched, Follows, Coherent
<1>15. CASE \E slot \in Slots : CommitFault(slot)
  BY <1>15, FollowsSaveSteps
<1>16. CASE ReindexFails \/ ScanFails
  BY <1>16, FollowsIndexSteps
<1> QED
  BY <1>1, <1>2, <1>3, <1>4, <1>5, <1>6, <1>7, <1>8, <1>9, <1>10, <1>11, <1>12, <1>13,
     <1>14, <1>15, <1>16 DEF RecoveryStep, UnloadStep, EnvironmentStep

LEMMA FollowsStep == Typed /\ QueueInv /\ FollowsInv /\ [Next]_vars => FollowsInv'
<1>1. FollowsInv /\ UNCHANGED vars => FollowsInv'
  BY IndexLeftAlone DEF vars, disk, index, history
<1> QED
  BY <1>1, FollowsIndexSteps, FollowsSaveSteps, FollowsOtherSteps DEF Next, SaveStep

\* The index catches up with the vault, whichever reads race an edit, whatever
\* fails and however often the session is recovered or started again: what is
\* older than its file is about to be read, or its last read failed.
THEOREM IndexAlwaysCatchesUp == Spec => []IndexCatchesUp
<1>1. FollowsInv => IndexCatchesUp
  BY DEF FollowsInv, Follows, IndexCatchesUp
<1>2. Spec => []FollowsInv
  BY TypesHold, QueueInvariant, FollowsInit, FollowsStep, PTL DEF Spec
<1> QED
  BY <1>1, <1>2, PTL

----------------------------------------------------------------------------
(* The durable snapshot follows the index *)

SaveState == <<manifest, marker, ram, scan, pending, phase, base, flight, unmarked, serial>>

LEMMA WaitingInQueue ==
    /\ flight["free"] = NoFlight =>
         \A p : Waiting(p) <=> \/ Carries(pending, p)
                               \/ /\ Flight.at \in {"compiled", "failed"}
                                  /\ Carries(Flight.job, p)
    /\ flight'["free"] = NoFlight =>
         \A p : Waiting(p)' <=> \/ Carries(pending', p)
                                \/ /\ Flight'.at \in {"compiled", "failed"}
                                   /\ Carries(Flight'.job, p)
<1>1. Slots = {"queue", "free"}
  BY DEF Slots
<1> QED
  BY <1>1 DEF Waiting, InFlight, Flight, NoFlight, Carries

LEMMA DurableInit == Init => DurableInv
<1> SUFFICES ASSUME Init PROVE DurableInv
  OBVIOUS
<1>1. flight["free"] = NoFlight /\ Flight = NoFlight
  BY DEF Init, Slots, Flight
<1> QED
  BY <1>1 DEF Init, DurableInv, SavesInv, SavesAreCurrent, CommitsAreNew, Numbered,
     BaseIsCovered, SealStands, UnloadFlushes, NoFlight, NoRecover, Settled, Coherent, QueueFree, NoOp

\* What happens in the index queue or in a recovery without touching a save.
LEMMA SavesLeftAlone ==
    ASSUME SavesInv, UNCHANGED SaveState, Numbered(recovery'.stable, serial),
           Settled' => Settled
    PROVE  SavesInv'
<1>1. \A p : Waiting(p)' <=> Waiting(p)
  BY DEF SaveState, Waiting, InFlight, Carries
<1> QED
  BY <1>1 DEF SavesInv, SaveState, SavesAreCurrent, CommitsAreNew, Numbered, BaseIsCovered,
     Baseline, SealStands, Flight, Coherent

\* A record changes and asks for a save.
LEMMA RequestKeeps ==
    ASSUME Typed, QueueInv, SavesInv, NEW p \in Paths, ram' \in [Paths -> Record],
           \A q \in Paths \ {p} : ram'[q] = ram[q], RequestSave(ram', {p}),
           op.at \in {"none", "reindex"}, op'.at = "none",
           UNCHANGED <<manifest, marker, scan, phase, base, flight, recovery, unmarked, serial>>
    PROVE  SavesInv'
<1>1. Flight.at = "none" /\ flight["free"] = NoFlight
  BY DEF QueueInv, OperationOfQueue, SavesInv, SavesAreCurrent, Flight
<1>2. CASE Coherent
  <2> DEFINE job == Job(ram', scan, {p}, FALSE)
  <2>1. /\ job \in Save /\ job # NoJob /\ job.data = ram'
        /\ \A q : Carries(job, q) <=> q = p
    <3>1. {p} \in SUBSET Paths /\ scan \in Nat
      BY DEF Typed, TypeOK
    <3>2. job \in Save /\ job.data = ram' /\ job.full = FALSE /\ job.dirty = {p}
      BY <3>1 DEF Job, Save
    <3> QED
      BY <3>2, NoValueAssumption DEF Carries
  <2>2. pending' = Merge(pending, job) /\ pending \in Save \cup {NoJob}
    BY <1>2 DEF RequestSave, Typed, TypeOK
  <2>3. /\ pending'.data = ram'
        /\ \A q : Carries(pending', q) <=> Carries(pending, q) \/ q = p
    BY <2>1, <2>2, MergeTyped
  <2>4. SavesAreCurrent'
    BY <1>1, <1>2, <2>3 DEF SavesAreCurrent, Flight, Coherent
  <2>5. \A q \in Paths : Waiting(q)' <=> Waiting(q) \/ q = p
    BY <1>1, <2>3, WaitingInQueue DEF Flight
  <2>6. Baseline' = Baseline
    BY DEF Baseline, Flight
  <2>7. Settled' => Settled
    BY DEF Settled, Coherent
  <2>8. BaseIsCovered'
    BY <2>5, <2>6, <2>7 DEF SavesInv, BaseIsCovered
  <2> QED
    BY <2>4, <2>8 DEF SavesInv, CommitsAreNew, Numbered, SealStands, Flight
<1>3. CASE ~Coherent
  <2>1. pending' = pending /\ pending = NoJob /\ ~Coherent'
    BY <1>3 DEF RequestSave, SavesInv, SavesAreCurrent, Coherent
  <2> QED
    BY <1>1, <2>1 DEF SavesInv, SavesAreCurrent, CommitsAreNew, Numbered, BaseIsCovered,
       Settled, SealStands, Flight
<1> QED
  BY <1>2, <1>3

\* The pending save takes off.
LEMMA FlushKeeps ==
    ASSUME Typed, QueueInv, SavesInv, Flush("queue"), QueueFree, op'.at \in {"none", "save"},
           UNCHANGED <<manifest, marker, ram, scan, phase, base, recovery, unmarked, serial>>
    PROVE  SavesInv'
<1>1. Flight.at = "none" /\ flight["free"] = NoFlight /\ "queue" \in Slots
  BY DEF QueueInv, OperationOfQueue, SavesInv, SavesAreCurrent, Flight, QueueFree, Slots
<1>2. flight'["free"] = NoFlight
  BY <1>1, FlushFlies DEF Flight, Slots
<1>3. Settled' => Settled
  BY DEF Settled, Coherent, QueueFree
<1>4. CASE flight' = flight
  BY <1>1, <1>3, <1>4, FlushFlies, SavesLeftAlone
     DEF SaveState, Flight, SavesInv, CommitsAreNew
<1>5. CASE flight' # flight
  <2>1. /\ pending # NoJob /\ phase = "idle" /\ pending' = NoJob
        /\ Flight'.at \in {"compiled", "failed"} /\ Flight'.job = pending /\ Flight'.base = base
    BY <1>1, <1>5, FlushFlies DEF Flight
  <2>2. SavesAreCurrent'
    BY <1>2, <2>1 DEF SavesInv, SavesAreCurrent, Coherent
  <2>3. \A p : Waiting(p) => Waiting(p)'
    BY <1>1, <1>2, <2>1, WaitingInQueue
  <2>4. Baseline' = Baseline
    BY <1>1, <2>1 DEF Baseline
  <2>5. BaseIsCovered'
    BY <1>3, <2>3, <2>4 DEF SavesInv, BaseIsCovered
  <2> QED
    BY <2>1, <2>2, <2>5 DEF SavesInv, CommitsAreNew, Numbered, SealStands
<1> QED
  BY <1>4, <1>5

\* A full scan takes off with everything it has found.
LEMMA FullSaveKeeps ==
    ASSUME Typed, QueueInv, SavesInv, CommitScan, op.at \in {"scan", "rebaseScan"},
           Start("queue", Job(ram', scan', {}, TRUE), base'), pending' = NoJob,
           phase' # "required", base' \in Snapshot \cup {NoManifest}, Numbered(base', serial),
           UNCHANGED <<manifest, recovery>>
    PROVE  SavesInv'
<1> DEFINE job == Job(ram', scan', {}, TRUE)
<1>1. /\ ram' \in [Paths -> Record] /\ scan' \in Nat /\ scan' # 0
      /\ serial \in Nat /\ serial' = serial + 1
  BY ScanTyped DEF CommitScan, Typed, TypeOK
<1>2. job \in Save /\ job.data = ram' /\ \A p : Carries(job, p)
  <2>1. /\ job \in Save /\ job.data = ram'
        /\ \A p : Carries(job, p) <=> TRUE \/ p \in {}
    BY <1>1, JobTyped
  <2> QED
    BY <2>1
<1>3. /\ Flight'.at \in {"compiled", "failed"} /\ Flight'.job = job /\ Flight'.base = base'
      /\ flight'["free"] = flight["free"]
  BY <1>1, <1>2, StartTyped DEF Flight, Slots
<1>4. SavesAreCurrent'
  BY <1>1, <1>3, <1>2 DEF SavesInv, SavesAreCurrent, Coherent
<1>5. BaseIsCovered'
  BY <1>3, <1>4, <1>2, WaitingInQueue DEF BaseIsCovered, SavesAreCurrent
<1>6. CommitsAreNew'
  <2>1. \A s \in Snapshot \cup {NoManifest} : Numbered(s, serial) => Numbered(s, serial')
    BY <1>1 DEF Numbered, Snapshot
  <2>2. recovery.stable \in Snapshot \cup {NoManifest} /\ manifest \in Snapshot \cup {NoManifest}
    BY DEF Typed, TypeOK, Recoveries
  <2> QED
    BY <1>3, <2>1, <2>2 DEF SavesInv, CommitsAreNew, Numbered
<1> QED
  BY <1>4, <1>5, <1>6 DEF SavesInv, SealStands

LEMMA SavesIndexSteps ==
    ASSUME Typed, QueueInv, SavesInv, IndexStep \/ ReindexFails \/ ScanFails
    PROVE  SavesInv'
<1>0. Numbered(recovery.stable, serial)
  BY DEF SavesInv, CommitsAreNew
<1>1. ASSUME NEW p \in Paths, ReindexRead(p) PROVE SavesInv'
  <2>1. UNCHANGED <<SaveState, recovery>> /\ op.at = "none" /\ op'.at = "reindex"
    BY <1>1 DEF ReindexRead, SaveState, disk, saving, writer, history, QueueFree
  <2> QED
    BY <1>0, <2>1, SavesLeftAlone DEF Settled, Coherent, SaveState
<1>2. ASSUME NEW p \in Paths, FileDelete(p) PROVE SavesInv'
  <2>1. /\ ram' = [ram EXCEPT ![p] = Gone] /\ RequestSave(ram', {p}) /\ op' = op /\ op.at = "none"
        /\ UNCHANGED <<manifest, marker, scan, phase, base, flight, recovery, unmarked, serial>>
    BY <1>2 DEF FileDelete, QueueFree, disk, writer
  <2>2. ram' \in [Paths -> Record] /\ \A q \in Paths \ {p} : ram'[q] = ram[q]
    BY <2>1 DEF Typed, TypeOK, Gone, Record
  <2> QED
    BY <2>1, <2>2, RequestKeeps
<1>3. ASSUME ReindexApply PROVE SavesInv'
  <2>1. PICK p \in op.paths :
          /\ ram' = [ram EXCEPT ![p] = [content |-> op.read[p], stat |-> StatOf(p, op.read)]]
          /\ RequestSave(ram', {p})
    BY <1>3 DEF ReindexApply
  <2>2. /\ op.at = "reindex" /\ op' = NoOp
        /\ UNCHANGED <<manifest, marker, scan, phase, base, flight, recovery, unmarked, serial>>
    BY <1>3 DEF ReindexApply, disk, writer
  <2>3. p \in Paths /\ op.read \in [Paths -> Nat]
    BY DEF Typed, TypeOK, Ops
  <2>4. [content |-> op.read[p], stat |-> StatOf(p, op.read)] \in Record
    BY <2>3 DEF StatOf, Record, Typed, TypeOK
  <2>5. ram' \in [Paths -> Record] /\ \A q \in Paths \ {p} : ram'[q] = ram[q]
    BY <2>1, <2>3, <2>4 DEF Typed, TypeOK
  <2> QED
    BY <2>1, <2>2, <2>3, <2>5, RequestKeeps DEF NoOp
<1>4. ASSUME FullReindexRead PROVE SavesInv'
  <2>1. UNCHANGED <<SaveState, recovery>> /\ op.at = "none" /\ op'.at = "scan"
    BY <1>4 DEF FullReindexRead, SaveState, disk, saving, writer, history, QueueFree
  <2> QED
    BY <1>0, <2>1, SavesLeftAlone DEF Settled, Coherent, SaveState
<1>5. ASSUME FullReindexApply PROVE SavesInv'
  <2> DEFINE job == Job(ram', scan', {}, TRUE)
  <2>1. /\ CommitScan /\ op.at = "scan"
        /\ UNCHANGED <<manifest, marker, phase, base, recovery, unmarked>>
    BY <1>5 DEF FullReindexApply, disk, writer
  <2>2. CASE phase = "idle"
    <3>1. Start("queue", job, base) /\ pending' = NoJob /\ base' = base
      BY <1>5, <2>1, <2>2 DEF FullReindexApply
    <3>2. Start("queue", job, base') /\ phase' # "required"
          /\ base' \in Snapshot \cup {NoManifest} /\ Numbered(base', serial)
      BY <2>1, <2>2, <3>1 DEF Typed, TypeOK, SavesInv, CommitsAreNew
    <3> QED
      BY <2>1, <3>1, <3>2, FullSaveKeeps
  <2>3. CASE phase # "idle"
    <3>1. /\ pending' = Merge(pending, job) /\ op' = NoOp /\ flight' = flight
      BY <1>5, <2>3 DEF FullReindexApply
    <3>2. /\ ram' \in [Paths -> Record] /\ scan' \in Nat /\ scan' # 0
          /\ serial \in Nat /\ serial' = serial + 1
      BY <2>1, ScanTyped DEF CommitScan, Typed, TypeOK
    <3>3. pending'.data = ram' /\ \A p : Carries(pending', p)
      <4>1. /\ job \in Save /\ job # NoJob /\ job.data = ram'
            /\ \A p : Carries(job, p) <=> TRUE \/ p \in {}
        BY <3>2, JobTyped
      <4> QED
        BY <3>1, <4>1, MergeTyped DEF Typed, TypeOK
    <3>4. Flight.at = "none" /\ Flight' = Flight /\ flight'["free"] = NoFlight
      BY <2>1, <3>1 DEF QueueInv, OperationOfQueue, Flight, SavesInv, SavesAreCurrent
    <3>5. SavesAreCurrent' /\ BaseIsCovered'
      BY <3>2, <3>3, <3>4, WaitingInQueue DEF SavesAreCurrent, BaseIsCovered, Coherent
    <3>6. \A s \in Snapshot \cup {NoManifest} : Numbered(s, serial) => Numbered(s, serial')
      BY <3>2 DEF Numbered, Snapshot
    <3>7. CommitsAreNew'
      BY <2>1, <3>4, <3>6 DEF SavesInv, CommitsAreNew, Typed, TypeOK, Recoveries
    <3> QED
      BY <2>1, <3>4, <3>5, <3>7 DEF SavesInv, SealStands
  <2> QED
    BY <2>2, <2>3
<1>6. ASSUME TimerFires PROVE SavesInv'
  BY <1>0, <1>6, SavesLeftAlone
     DEF TimerFires, SaveState, disk, index, writer, history, Settled, Coherent
<1>7. ASSUME FlushOperation PROVE SavesInv'
  <2>1. /\ Flush("queue") /\ QueueFree /\ op' \in {NoOp, [NoOp EXCEPT !.at = "save"]}
        /\ UNCHANGED <<manifest, marker, ram, scan, phase, base, recovery, unmarked, serial>>
    BY <1>7 DEF FlushOperation, disk, index, writer, history
  <2> QED
    BY <2>1, FlushKeeps DEF NoOp
<1>8. ASSUME ReindexFails PROVE SavesInv'
  BY <1>0, <1>8, SavesLeftAlone
     DEF ReindexFails, SaveState, disk, index, saving, writer, NoOp, Settled, Coherent
<1>9. ASSUME ScanFails PROVE SavesInv'
  <2>1. /\ op' = NoOp /\ op.at \in {"scan", "rebaseScan"} /\ UNCHANGED SaveState
        /\ recovery' = IF op.at = "scan" THEN recovery ELSE [recovery EXCEPT !.at = "refused"]
    BY <1>9 DEF ScanFails, SaveState, disk, index, saving, writer, history
  <2>2. /\ recovery'.stable = recovery.stable
        /\ recovery'.at \in {"none", "ending"} => recovery' = recovery
    BY <2>1 DEF Typed, TypeOK, Recoveries
  <2> QED
    BY <1>0, <2>1, <2>2, SavesLeftAlone DEF NoOp, Settled, Coherent, SaveState
<1> QED
  BY <1>1, <1>2, <1>3, <1>4, <1>5, <1>6, <1>7, <1>8, <1>9 DEF IndexStep

\* What a save that is compiled would write is the index as it is.
LEMMA CommitCovers ==
    ASSUME Typed, SavesInv, Settled, Flight.at = "compiled"
    PROVE  \A p \in Paths : NewData(Flight)[p] = ram[p]
<1>1. /\ Flight \in Flights /\ Flight.job \in Save /\ Flight.job # NoJob
      /\ Flight.job.data = ram /\ Flight.base = base /\ pending = NoJob
      /\ flight["free"] = NoFlight
  BY DEF Typed, TypeOK, HasJob, Flights, Flight, Slots, SavesInv, SavesAreCurrent
<1>2. CASE Full(Flight)
  BY <1>1, <1>2 DEF NewData
<1>3. CASE ~Full(Flight)
  <2>1. ~Flight.job.full /\ base # NoManifest
    BY <1>1, <1>3 DEF Full
  <2>2. Baseline = base
    BY DEF Baseline
  <2>3. \A p \in Paths : base.data[p] = ram[p] \/ p \in Flight.job.dirty
    BY <1>1, <2>1, <2>2, WaitingInQueue DEF SavesInv, BaseIsCovered, Carries
  <2> QED
    BY <1>1, <1>3, <2>3 DEF NewData
<1> QED
  BY <1>2, <1>3

\* A save that has landed after the baseline has taken over what it held.
LEMMA LandedSaves ==
    ASSUME Typed, QueueInv, SavesInv, Land("queue"), Flight.at # "none",
           UNCHANGED <<manifest, ram, scan, pending, phase, unmarked, serial>>,
           base' = Baseline, Numbered(base', serial),
           Numbered(recovery'.stable, serial), Settled' => Settled,
           Settled /\ base' # NoManifest => \A p \in Paths : base'.data[p] = ram[p]
    PROVE  SavesInv'
<1>1. Flight' = NoFlight /\ flight'["free"] = NoFlight
  BY LandTyped DEF Flight, Slots, SavesInv, SavesAreCurrent
<1>2. SavesAreCurrent' /\ pending = NoJob
  BY <1>1 DEF SavesInv, SavesAreCurrent, NoFlight, Coherent
<1>3. CommitsAreNew'
  BY <1>1 DEF SavesInv, CommitsAreNew, Numbered, NoFlight
<1>4. BaseIsCovered'
  BY <1>1 DEF SavesInv, BaseIsCovered, Baseline, NoFlight
<1> QED
  BY <1>1, <1>2, <1>3, <1>4 DEF SavesInv, SealStands, NoFlight

\* A save that failed is dropped or becomes pending again.
LEMMA FailedSaves ==
    ASSUME Typed, QueueInv, SavesInv, Land("queue"), Flight.at = "failed",
           UNCHANGED <<manifest, ram, scan, base, serial>>,
           Numbered(recovery'.stable, serial),
           phase' = "required" => marker' \/ unmarked',
           \/ pending' = NoJob /\ ~Settled'
           \/ /\ pending' # NoJob /\ pending'.data = Flight.job.data
              /\ \A p : Carries(pending', p) <=> Carries(Flight.job, p)
              /\ Settled' => Settled
    PROVE  SavesInv'
<1>1. Flight' = NoFlight /\ flight'["free"] = NoFlight
  BY LandTyped DEF Flight, Slots, SavesInv, SavesAreCurrent
<1>2. SavesAreCurrent'
  BY <1>1 DEF SavesInv, SavesAreCurrent, NoFlight, Coherent
<1>3. CommitsAreNew'
  BY <1>1 DEF SavesInv, CommitsAreNew, Numbered, NoFlight
<1>4. Baseline' = base /\ Baseline = base
  BY <1>1 DEF Baseline, NoFlight
<1>5. CASE pending' = NoJob /\ ~Settled'
  BY <1>1, <1>2, <1>3, <1>5 DEF SavesInv, BaseIsCovered, SealStands, NoFlight
<1>6. CASE ~(pending' = NoJob /\ ~Settled')
  <2>1. \A p : Waiting(p) => Waiting(p)'
    BY <1>1, <1>6, WaitingInQueue DEF SavesInv, SavesAreCurrent, Carries
  <2> QED
    BY <1>1, <1>2, <1>3, <1>4, <1>6, <2>1 DEF SavesInv, BaseIsCovered, SealStands, NoFlight
<1> QED
  BY <1>5, <1>6

\* A commit, whatever comes of it, is the flight of the same save.
LEMMA CommitsFly ==
    ASSUME Typed, CommitSave("queue") \/ CommitFault("queue")
    PROVE  Flight'.job = Flight.job /\ flight'["free"] = flight["free"]
<1> DEFINE new == [id |-> serial + 1, data |-> NewData(Flight), scan |-> Flight.job.scan]
           success    == [Flight EXCEPT !.at = "committed", !.base = new]
           failure(e) == [Flight EXCEPT !.at = "failed", !.error = e]
<1>1. flight \in [Slots -> Flights] /\ Flight \in Flights /\ {"queue", "free"} \subseteq Slots
  BY DEF Typed, TypeOK, Slots, Flight
<1>2. success.job = Flight.job /\ \A e : failure(e).job = Flight.job
  BY <1>1 DEF Flights
<1>3. \/ flight' = [flight EXCEPT !["queue"] = success]
      \/ \E e : flight' = [flight EXCEPT !["queue"] = failure(e)]
  BY DEF CommitSave, CommitFault, Flight
<1> HIDE DEF success, failure
<1> QED
  BY <1>1, <1>2, <1>3 DEF Flight

LEMMA SavesSaveSteps ==
    ASSUME Typed, QueueInv, SavesInv, NEW slot \in Slots,
           \/ CommitSave(slot) \/ SaveUnchanged(slot) \/ AdoptCommitted(slot)
           \/ ClearMarker(slot) \/ FailedToSync(slot) \/ FailedToRetry(slot)
           \/ FailedForGood(slot) \/ FailedInRebase(slot) \/ CommitFault(slot)
    PROVE  SavesInv'
<1> DEFINE new == [id |-> serial + 1, data |-> NewData(Flight), scan |-> Flight.job.scan]
<1>1. flight[slot].at # "none"
  BY DEF CommitSave, SaveUnchanged, AdoptCommitted, ClearMarker, FailedToSync,
         FailedToRetry, FailedForGood, FailedInRebase, CommitFault
<1>2. slot = "queue" /\ flight["queue"] = Flight /\ "queue" \in Slots
  BY <1>1 DEF SavesInv, SavesAreCurrent, NoFlight, Slots, Flight
<1>3. /\ Flight \in Flights /\ Flight.job \in Save /\ Flight.job # NoJob
      /\ op.at \in {"save", "rebase"} /\ pending = NoJob /\ flight["free"] = NoFlight
      /\ serial \in Nat /\ Numbered(recovery.stable, serial)
  BY <1>1, <1>2 DEF Typed, TypeOK, HasJob, Flights, SavesInv, SavesAreCurrent, CommitsAreNew,
     QueueInv, OperationOfQueue
<1>4. \A s \in Snapshot \cup {NoManifest} : Numbered(s, serial) => Numbered(s, serial + 1)
  BY <1>3 DEF Numbered, Snapshot
\* A commit: the new snapshot is newer than all there are.
<1>5. CASE CommitSave(slot) \/ CommitFault(slot)
  <2>0. /\ Flight.at = "compiled"
        /\ UNCHANGED <<marker, ram, scan, pending, phase, base, op, recovery, unmarked>>
    BY <1>2, <1>5 DEF CommitSave, CommitFault, index, saving, writer, history, Flight
  <2>1. /\ Flight.at = "compiled"
        /\ UNCHANGED <<marker, ram, scan, pending, phase, base, op, recovery, unmarked>>
        /\ flight'["free"] = NoFlight
        /\ Flight'.job = Flight.job
    BY <1>2, <1>3, <1>5, <2>0, CommitsFly
  <2>2. new \in Snapshot
    BY <1>2, <2>1, CommittedTyped
  <2>3. Settled' <=> Settled
    BY <2>1 DEF Settled, Coherent
  <2>4. \/ manifest' = manifest /\ serial' = serial
        \/ manifest' = new /\ serial' = serial + 1
    BY <1>2, <1>5 DEF CommitSave, CommitFault
  <2>5. /\ Numbered(manifest', serial') /\ Numbered(base', serial')
        /\ Numbered(recovery'.stable, serial')
    <3>1. Numbered(manifest, serial) /\ Numbered(base, serial) /\ Numbered(recovery.stable, serial)
      BY DEF SavesInv, CommitsAreNew
    <3>2. {manifest, base, recovery.stable} \subseteq Snapshot \cup {NoManifest}
      BY DEF Typed, TypeOK, Recoveries
    <3>3. Numbered(new, serial + 1)
      BY <1>3 DEF Numbered
    <3> QED
      BY <1>4, <2>1, <2>4, <3>1, <3>2, <3>3
  <2>6. CASE Flight'.at = "committed"
    <3>1. manifest' = new /\ Flight'.base = new /\ serial' = serial + 1
      BY <1>2, <1>5, <2>6 DEF CommitSave, CommitFault, Flight, Typed, TypeOK, Flights
    <3>2. SavesAreCurrent'
      BY <1>3, <2>1, <2>6 DEF SavesInv, SavesAreCurrent, Coherent
    <3>3. CommitsAreNew'
      <4>1. base # NoManifest => base.id <= serial /\ base.id \in Nat
        BY DEF SavesInv, CommitsAreNew, Numbered, Typed, TypeOK, Snapshot
      <4> QED
        BY <1>3, <2>1, <2>5, <3>1, <4>1 DEF CommitsAreNew
    <3>4. Settled => \A p \in Paths : new.data[p] = ram[p]
      BY <2>1, CommitCovers
    <3>5. BaseIsCovered'
      BY <2>1, <2>3, <2>6, <3>1, <3>4 DEF BaseIsCovered, Baseline
    <3> QED
      BY <2>1, <3>2, <3>3, <3>5 DEF SavesInv, SealStands
  <2>7. CASE Flight'.at # "committed"
    <3>1. Flight'.at = "failed" /\ Flight'.base = Flight.base
      BY <1>2, <1>5, <2>7 DEF CommitSave, CommitFault, Flight, Typed, TypeOK, Flights
    <3>2. SavesAreCurrent'
      BY <1>3, <2>1, <3>1 DEF SavesInv, SavesAreCurrent, Coherent
    <3>3. \A p : Waiting(p) <=> Waiting(p)'
      BY <1>3, <2>1, <3>1, WaitingInQueue
    <3>4. BaseIsCovered'
      BY <2>1, <2>3, <3>1, <3>3 DEF SavesInv, BaseIsCovered, Baseline
    <3> QED
      BY <2>1, <2>5, <3>1, <3>2, <3>4 DEF SavesInv, SealStands, CommitsAreNew
  <2> QED
    BY <2>6, <2>7
<1>6. ASSUME Return(slot), UNCHANGED phase, scan' = scan
      PROVE  Numbered(recovery'.stable, serial) /\ (Settled' => Settled)
  <2>1. /\ recovery' \in {recovery, [recovery EXCEPT !.at = "ending"]}
        /\ op' = NoOp
        /\ recovery' # recovery => op.at = "rebase"
    BY <1>2, <1>6 DEF Return, Allowed
  <2>2. recovery \in Recoveries
    BY DEF Typed, TypeOK
  <2>3. CASE recovery' = recovery
    BY <1>3, <1>6, <2>1, <2>3 DEF Settled, Coherent, NoOp
  <2>4. CASE recovery' # recovery
    <3>1. op.at = "rebase" /\ recovery' = [recovery EXCEPT !.at = "ending"]
      BY <2>1, <2>4
    <3>2. recovery'.stable = recovery.stable
      BY <2>2, <3>1 DEF Recoveries
    <3> QED
      BY <1>3, <1>6, <3>1, <3>2 DEF Settled, Coherent
  <2> QED
    BY <2>3, <2>4
<1>7. CASE SaveUnchanged(slot)
  <2>1. /\ Flight.at = "compiled" /\ Unchanged(Flight) /\ Land("queue") /\ Return(slot)
        /\ UNCHANGED <<manifest, marker, ram, scan, pending, phase, base, unmarked, serial>>
    BY <1>2, <1>7 DEF SaveUnchanged, disk, index, saving, writer, history
  <2>2. Flight.base = base /\ Baseline = base /\ Numbered(base, serial)
    BY <2>1 DEF SavesInv, SavesAreCurrent, CommitsAreNew, Baseline
  <2>3. Settled => \A p \in Paths : base.data[p] = ram[p]
    BY <2>1, <2>2, CommitCovers DEF Unchanged
  <2> QED
    BY <1>6, <2>1, <2>2, <2>3, LandedSaves
\* What has been committed is what there is; it becomes the baseline.
<1>8. CASE AdoptCommitted(slot) \/ ClearMarker(slot)
  <2>1. /\ Flight.at \in {"committed", "clearing"} /\ base' = Baseline
        /\ UNCHANGED <<manifest, ram, scan, pending, phase, unmarked, serial>>
    BY <1>2, <1>8
       DEF AdoptCommitted, ClearMarker, Baseline, disk, index, saving, writer, history, Flight
  <2>2. Settled /\ base' # NoManifest => \A p \in Paths : base'.data[p] = ram[p]
    BY <1>3, <2>1, WaitingInQueue DEF SavesInv, BaseIsCovered, Carries
  <2>3. Numbered(base', serial)
    BY <2>1 DEF SavesInv, CommitsAreNew, Baseline, Numbered
  <2>4. CASE Land("queue") /\ Return(slot)
    BY <1>6, <2>1, <2>2, <2>3, <2>4, LandedSaves
  <2>5. CASE ~(Land("queue") /\ Return(slot))
    <3>1. /\ flight' = [flight EXCEPT !["queue"].at = "clearing"]
          /\ UNCHANGED <<marker, op, recovery>> /\ Flight.at = "committed"
      BY <1>2, <1>8, <2>5 DEF AdoptCommitted, ClearMarker, disk
    <3>2. Flight'.at = "clearing" /\ flight'["free"] = NoFlight
      BY <1>2, <1>3, <3>1 DEF Flight, Typed, TypeOK, Flights
    <3>3. SavesAreCurrent'
      BY <1>3, <2>1, <3>2 DEF SavesInv, SavesAreCurrent, Coherent
    <3>4. BaseIsCovered'
      BY <2>1, <2>2, <3>1, <3>2 DEF BaseIsCovered, Baseline, Settled, Coherent
    <3> QED
      BY <1>3, <2>1, <2>3, <3>1, <3>2, <3>3, <3>4
         DEF SavesInv, CommitsAreNew, Numbered, SealStands
  <2> QED
    BY <2>4, <2>5
<1>9. CASE FailedToSync(slot)
  <2>1. /\ Flight.at = "failed" /\ Land("queue") /\ ~Allowed /\ pending' = Merge(Flight.job, pending)
        /\ op' = NoOp /\ RequestRecovery
        /\ UNCHANGED <<manifest, marker, ram, scan, base, unmarked, serial>>
    BY <1>2, <1>9 DEF FailedToSync, FreeOp, disk, index, history
  <2>2. pending' = Flight.job
    BY <1>3, <2>1, MergeTyped
  <2>3. \/ UNCHANGED <<recovery, phase>>
        \/ recovery' = [NoRecover EXCEPT !.at = "settle"] /\ phase' = "settling"
    BY <2>1 DEF RequestRecovery
  <2>4. Numbered(recovery'.stable, serial) /\ (Settled' => Settled)
    BY <1>3, <2>1, <2>3 DEF Settled, Coherent, NoRecover, NoOp, Numbered
  <2>5. phase' = "required" => marker' \/ unmarked'
    BY <2>1, <2>3 DEF SavesInv, SealStands
  <2> QED
    BY <1>3, <2>1, <2>2, <2>4, <2>5, FailedSaves
<1>10. CASE FailedToRetry(slot)
  <2>1. /\ Flight.at = "failed" /\ Land("queue") /\ ~Allowed /\ op' = NoOp
        /\ pending' = Merge([Flight.job EXCEPT !.retry = 1], pending)
        /\ UNCHANGED <<manifest, marker, ram, scan, base, phase, recovery, unmarked, serial>>
    BY <1>2, <1>10 DEF FailedToRetry, KeepForRetry, FreeOp, disk, index, writer, history
  <2>2. /\ pending' # NoJob /\ pending'.data = Flight.job.data
        /\ \A p : Carries(pending', p) <=> Carries(Flight.job, p)
    <3> DEFINE again == [Flight.job EXCEPT !.retry = 1]
    <3>1. /\ again \in Save /\ again # NoJob /\ again.data = Flight.job.data
          /\ \A p : Carries(again, p) <=> Carries(Flight.job, p)
      BY <1>3, RetryTyped
    <3>2. pending' = Merge(again, NoJob)
      BY <1>3, <2>1
    <3>3. pending' = again
      BY <3>1, <3>2 DEF Merge
    <3> QED
      BY <3>1, <3>3
  <2>3. Settled' => Settled
    BY <2>1 DEF Settled, Coherent, NoOp
  <2>4. phase # "required"
    BY <2>1 DEF SavesInv, SealStands
  <2> QED
    BY <1>3, <2>1, <2>2, <2>3, <2>4, FailedSaves
<1>11. CASE FailedForGood(slot)
  <2>1. /\ Flight.at = "failed" /\ Land("queue") /\ phase' = "required" /\ WriteMarker
        /\ UNCHANGED <<manifest, ram, scan, pending, base, recovery, serial>>
    BY <1>2, <1>11 DEF FailedForGood, index, saving
  <2>2. marker' \/ unmarked'
    BY <2>1, MarkerTyped
  <2> QED
    BY <1>3, <2>1, <2>2, FailedSaves DEF Settled
<1>12. CASE FailedInRebase(slot)
  <2>1. /\ Flight.at = "failed" /\ Land("queue") /\ op' = NoOp
        /\ recovery' \in {[NoRecover EXCEPT !.at = "settle", !.again = TRUE],
                          [recovery EXCEPT !.at = "refused"]}
        /\ phase' \in {phase, "settling"}
        /\ UNCHANGED <<manifest, marker, ram, scan, pending, base, unmarked, serial>>
    BY <1>2, <1>12 DEF FailedInRebase, disk, index, saving, history
  <2>2. Numbered(recovery'.stable, serial) /\ recovery'.at \in {"settle", "refused"}
    BY <1>3, <2>1 DEF NoRecover, Numbered, Typed, TypeOK, Recoveries
  <2>3. phase' # "required" /\ ~Settled'
    BY <2>1, <2>2 DEF SavesInv, SealStands, Settled, NoOp
  <2> QED
    BY <1>3, <2>1, <2>2, <2>3, FailedSaves
<1> QED
  BY <1>5, <1>7, <1>8, <1>9, <1>10, <1>11, <1>12

LEMMA SavesOtherSteps ==
    ASSUME Typed, QueueInv, SavesInv, ~Maintenance,
           RecoveryStep \/ UnloadStep \/ EnvironmentStep
    PROVE  SavesInv'
<1>0. Numbered(recovery.stable, serial) /\ Numbered(manifest, serial) /\ Numbered(base, serial)
  BY DEF SavesInv, CommitsAreNew
<1>1. CASE Settle
  <2>1. /\ UNCHANGED SaveState /\ op' = op /\ recovery.at = "settle"
        /\ recovery' \in {[recovery EXCEPT !.at = "queued", !.stable = manifest],
                          [recovery EXCEPT !.at = "refused"]}
    BY <1>1 DEF Settle, SaveState, disk, index, saving, writer, history
  <2>2. recovery'.at \in {"queued", "refused"} /\ recovery'.stable \in {manifest, recovery.stable}
    BY <2>1 DEF Typed, TypeOK, Recoveries
  <2>3. Settled' => Settled
    BY <2>1, <2>2 DEF Settled, Coherent, SaveState
  <2> QED
    BY <1>0, <2>1, <2>2, <2>3, SavesLeftAlone
<1>2. CASE RebaseRead
  <2>1. /\ recovery.at = "queued" /\ life = "running" /\ op.at = "none"
        /\ UNCHANGED <<manifest, marker, ram, scan, pending, base, flight, unmarked, serial>>
    BY <1>2 DEF RebaseRead, QueueFree, disk, index, saving, history, QueueInv, RecoveryOfSession
  <2>2. CASE phase = "required"
    <3>1. UNCHANGED <<phase, op>> /\ recovery' = [recovery EXCEPT !.at = "ending"]
      BY <1>2, <2>2 DEF RebaseRead
    <3>2. recovery'.stable = recovery.stable /\ ~Settled'
      BY <2>2, <3>1 DEF Typed, TypeOK, Recoveries, Settled
    <3> QED
      BY <1>0, <2>1, <3>1, <3>2, SavesLeftAlone DEF SaveState
  <2>3. CASE phase # "required"
    <3>1. phase' = "rebasing" /\ op'.at = "rebaseScan" /\ recovery' = recovery
      BY <1>2, <2>1, <2>3 DEF RebaseRead, Closing
    <3>2. ~Settled' /\ Flight.at = "none"
      BY <2>1, <3>1 DEF Settled, QueueInv, OperationOfQueue, Flight
    <3> QED
      BY <2>1, <3>1, <3>2 DEF SavesInv, SavesAreCurrent, CommitsAreNew, Numbered,
         BaseIsCovered, SealStands, Flight, Coherent
  <2> QED
    BY <2>2, <2>3
<1>3. CASE RebaseApply
  <2> DEFINE job == Job(ram', scan', {}, TRUE)
  <2>1. /\ CommitScan /\ op.at = "rebaseScan" /\ pending' = NoJob /\ base' = recovery.stable
        /\ UNCHANGED <<manifest, marker, phase, unmarked>>
    BY <1>3 DEF RebaseApply, disk
  <2>2. base' \in Snapshot \cup {NoManifest} /\ Numbered(base', serial)
    BY <1>0, <2>1 DEF Typed, TypeOK, Recoveries
  <2>3. CASE phase # "required"
    <3>1. Start("queue", job, base') /\ recovery' = recovery
      BY <1>3, <2>1, <2>3 DEF RebaseApply
    <3> QED
      BY <2>1, <2>2, <2>3, <3>1, FullSaveKeeps
  <2>4. CASE phase = "required"
    <3>1. recovery' = [recovery EXCEPT !.at = "ending"] /\ flight' = flight
      BY <1>3, <2>4 DEF RebaseApply
    <3>2. /\ recovery'.stable = recovery.stable /\ ~Settled' /\ Flight.at = "none"
          /\ Flight' = Flight
      BY <2>1, <2>4, <3>1 DEF Typed, TypeOK, Recoveries, Settled, SavesInv, SealStands, Flight
    <3>3. \A s \in Snapshot \cup {NoManifest} : Numbered(s, serial) => Numbered(s, serial')
      BY <2>1 DEF CommitScan, Numbered, Snapshot, Typed, TypeOK
    <3>4. CommitsAreNew'
      BY <1>0, <2>1, <2>2, <3>2, <3>3 DEF CommitsAreNew, Typed, TypeOK, Recoveries
    <3> QED
      BY <2>1, <3>1, <3>2, <3>4 DEF SavesInv, SavesAreCurrent, BaseIsCovered, SealStands
  <2> QED
    BY <2>3, <2>4
<1>4. CASE RecoveryEnds
  <2>1. /\ recovery.at = "ending" /\ recovery' = NoRecover /\ op' = op /\ phase' \in {phase, "idle"}
        /\ phase = "required" => phase' = "required"
        /\ UNCHANGED <<manifest, marker, ram, scan, pending, base, flight, unmarked, serial>>
    BY <1>4 DEF RecoveryEnds, disk, index, saving, history
  <2>2. \A p : Waiting(p)' <=> Waiting(p)
    BY <2>1 DEF Waiting, InFlight, Carries
  <2>3. Settled' => Settled
    BY <2>1 DEF Settled, Coherent
  <2> QED
    BY <2>1, <2>2, <2>3 DEF SavesInv, SavesAreCurrent, CommitsAreNew, Numbered,
       BaseIsCovered, Baseline, SealStands, Flight, Coherent, NoRecover
<1>5. CASE RecoveryRefused
  <2>1. /\ recovery' = NoRecover /\ op' = op /\ op.at = "none" /\ life = "running"
        /\ UNCHANGED <<manifest, ram, scan, pending, base, flight, serial>>
    BY <1>5 DEF RecoveryRefused, QueueFree, index, saving, QueueInv, RecoveryOfSession
  <2>2. Flight.at = "none" /\ Flight' = Flight
    BY <2>1 DEF QueueInv, OperationOfQueue, Flight
  <2>3. ~Settled' /\ (phase' = "required" => marker' \/ unmarked')
    <3>1. CASE phase = "required"
      BY <1>5, <3>1 DEF RecoveryRefused, Settled, SavesInv, SealStands
    <3>2. CASE phase # "required" /\ ~Coherent
      BY <1>5, <2>1, <3>2 DEF RecoveryRefused, Settled, Coherent, Closing
    <3>3. CASE phase # "required" /\ Coherent
      BY <1>5, <2>1, <3>3, MarkerTyped DEF RecoveryRefused, Settled, Closing
    <3> QED
      BY <3>1, <3>2, <3>3
  <2> QED
    BY <2>1, <2>2, <2>3 DEF SavesInv, SavesAreCurrent, CommitsAreNew, Numbered,
       BaseIsCovered, SealStands, Coherent, NoRecover
<1>6. CASE UnloadFlush
  <2>1. /\ Flush("queue") /\ QueueFree /\ op' \in {NoOp, [NoOp EXCEPT !.at = "save"]}
        /\ UNCHANGED <<manifest, marker, ram, scan, phase, base, recovery, unmarked, serial>>
    BY <1>6 DEF UnloadFlush, TailDone, disk, index, writer, history
  <2> QED
    BY <2>1, FlushKeeps DEF NoOp
<1>7. CASE Destroy
  BY <1>0, <1>7, SavesLeftAlone
     DEF Destroy, SaveState, disk, index, writer, history, Settled, Coherent
<1>8. CASE StartLoaded
  <2>1. /\ ram' = manifest.data /\ base' = manifest /\ life = "off"
        /\ UNCHANGED <<manifest, marker, pending, phase, flight, recovery, unmarked, serial>>
    BY <1>8 DEF StartLoaded, disk, saving
  <2>2. Flight.at = "none" /\ Flight' = Flight /\ pending = NoJob /\ phase = "idle"
    BY <2>1 DEF QueueInv, NothingInMemory, NoFlight, Flight, Slots
  <2> QED
    BY <1>0, <2>1, <2>2 DEF SavesInv, SavesAreCurrent, CommitsAreNew, Numbered,
       BaseIsCovered, Baseline, SealStands
<1>9. CASE StartEmpty
  BY <1>0, <1>9, SavesLeftAlone DEF StartEmpty, SaveState, disk, saving, writer, Settled, Coherent
<1>10. CASE RequestFullReindex
  BY <1>0, <1>10, SavesLeftAlone
     DEF RequestFullReindex, SaveState, disk, saving, writer, history, Settled, Coherent
<1>11. CASE FlushOutsideQueue
  BY <1>11 DEF FlushOutsideQueue
<1>12. CASE ObserveManifest
  <2>1. /\ recovery' = [NoRecover EXCEPT !.at = "settle"] /\ phase' = "settling"
        /\ recovery.at = "none" /\ op' = op
        /\ UNCHANGED <<manifest, marker, ram, scan, pending, base, flight, unmarked, serial>>
    BY <1>12 DEF ObserveManifest, RequestRecovery, CanRecover, disk, index, saving, history
  <2>2. ~Settled'
    BY <2>1 DEF Settled, NoRecover, QueueInv, OperationOfQueue
  <2> QED
    BY <2>1, <2>2 DEF SavesInv, SavesAreCurrent, CommitsAreNew, Numbered,
       BaseIsCovered, SealStands, Flight, Coherent, NoRecover
<1>13. CASE BeginUnload
  BY <1>0, <1>13, SavesLeftAlone
     DEF BeginUnload, SaveState, disk, saving, writer, history, Settled, Coherent
<1>14. CASE Quit
  <2>1. NoSession /\ UNCHANGED <<manifest, marker, serial>>
    BY <1>14 DEF Quit, disk
  <2>2. Flight' = NoFlight /\ flight'["free"] = NoFlight
    BY <2>1 DEF NoSession, Flight, Slots
  <2> QED
    BY <1>0, <2>1, <2>2 DEF NoSession, SavesInv, SavesAreCurrent, CommitsAreNew, Numbered,
       BaseIsCovered, SealStands, Settled, Coherent, NoFlight, NoRecover
<1>15. CASE PeerManifest
  <2>1. /\ UNCHANGED <<marker, ram, scan, pending, phase, base, flight, unmarked, op, recovery>>
        /\ \/ serial' = serial + 1 /\ manifest'.id = serial'
           \/ serial' = serial /\ manifest' = NoManifest
    BY <1>15 DEF PeerManifest, index, saving, writer, history
  <2>2. \A s \in Snapshot \cup {NoManifest} : Numbered(s, serial) => Numbered(s, serial')
    BY <2>1 DEF Numbered, Snapshot, Typed, TypeOK
  <2>3. /\ Numbered(manifest', serial') /\ Numbered(base', serial')
        /\ Numbered(recovery'.stable, serial')
    BY <1>0, <2>1, <2>2 DEF Numbered, Typed, TypeOK, Recoveries
  <2>4. CommitsAreNew'
    <3>1. CASE Flight.at = "committed"
      <4>1. Flight.base \in Snapshot /\ Flight' = Flight
        BY <2>1, <3>1 DEF Typed, TypeOK, HasJob, Flights, Flight, Slots
      <4> QED
        BY <2>1, <2>3, <3>1, <4>1
           DEF SavesInv, CommitsAreNew, Snapshot, Typed, TypeOK
    <3>2. CASE Flight.at # "committed"
      BY <2>1, <2>3, <3>2 DEF CommitsAreNew, Flight
    <3> QED
      BY <3>1, <3>2
  <2>5. \A p : Waiting(p)' <=> Waiting(p)
    BY <2>1 DEF Waiting, InFlight, Carries
  <2> QED
    BY <2>1, <2>4, <2>5 DEF SavesInv, SavesAreCurrent, BaseIsCovered, Baseline, SealStands,
       Settled, Flight, Coherent
<1>16. ASSUME NEW p \in Paths, NEW v \in 0 .. Bounds["edits"] + 2, Edit(p, v) PROVE SavesInv'
  BY <1>0, <1>16, SavesLeftAlone DEF Edit, SaveState, saving, writer, history, Settled, Coherent
<1>17. CASE \E slot \in Slots : CommitFault(slot)
  BY <1>17, SavesSaveSteps
<1>18. CASE ReindexFails \/ ScanFails
  BY <1>18, SavesIndexSteps
<1> QED
  BY <1>1, <1>2, <1>3, <1>4, <1>5, <1>6, <1>7, <1>8, <1>9, <1>10, <1>11, <1>12, <1>13,
     <1>14, <1>15, <1>16, <1>17, <1>18 DEF RecoveryStep, UnloadStep, EnvironmentStep

LEMMA SavesStep == ~Maintenance /\ Typed /\ QueueInv /\ SavesInv /\ [Next]_vars => SavesInv'
<1>1. ASSUME SavesInv, UNCHANGED vars PROVE SavesInv'
  <2>1. UNCHANGED <<SaveState, recovery, op>>
    BY <1>1 DEF vars, SaveState, disk, index, saving, writer, history
  <2>2. Numbered(recovery'.stable, serial) /\ (Settled' => Settled)
    BY <1>1, <2>1 DEF SaveState, Settled, Coherent, SavesInv, CommitsAreNew
  <2> QED
    BY <1>1, <2>1, <2>2, SavesLeftAlone
<1>2. ASSUME Typed, QueueInv, SavesInv, ~Maintenance, Next PROVE SavesInv'
  BY <1>2, SavesIndexSteps, SavesSaveSteps, SavesOtherSteps DEF Next, SaveStep
<1> QED
  BY <1>1, <1>2

----------------------------------------------------------------------------
(* Unload flushes what is left *)

\* What the first flush has found the queue done with, nothing fills again.
Late == life \in {"flushed", "drained", "closed"}

LEMMA NotYetLate == ASSUME ~Late' PROVE UnloadFlushes'
  BY DEF Late, UnloadFlushes

LEMMA UnloadLeftAlone ==
    ASSUME UnloadFlushes, UNCHANGED <<life, events, fullWanted, op, phase, pending, flight>>
    PROVE  UnloadFlushes'
  BY DEF UnloadFlushes, Flight, QueueFree

\* Nothing is read and no recovery runs by then.
LEMMA LateIsQuiet ==
    ASSUME Typed, QueueInv, UnloadFlushes, Late
    PROVE  /\ events = {} /\ ~fullWanted /\ op.at \in {"none", "save"} /\ recovery.at = "none"
           /\ life # "running" /\ life # "off" /\ life # "tail" /\ Closing
  BY DEF UnloadFlushes, Late, QueueInv, RecoveryOfSession, Closing

LEMMA UnloadIndexSteps ==
    ASSUME Typed, QueueInv, UnloadFlushes, IndexStep \/ ReindexFails \/ ScanFails
    PROVE  UnloadFlushes'
<1>1. CASE (\E p \in Paths : ReindexRead(p) \/ FileDelete(p)) \/ FullReindexRead
  <2>1. life' = life /\ (events # {} \/ fullWanted)
    BY <1>1 DEF ReindexRead, FileDelete, FullReindexRead
  <2> QED
    BY <2>1, LateIsQuiet, NotYetLate DEF Late
<1>2. CASE ReindexApply \/ FullReindexApply \/ ReindexFails \/ ScanFails
  <2>1. life' = life /\ op.at \in Reading
    BY <1>2 DEF ReindexApply, FullReindexApply, ReindexFails, ScanFails, Reading
  <2> QED
    BY <2>1, LateIsQuiet, NotYetLate DEF Late, Reading
<1>3. CASE TimerFires
  BY <1>3, UnloadLeftAlone DEF TimerFires, index, writer
<1>4. CASE FlushOperation
  <2>1. /\ Flush("queue") /\ op.at = "none" /\ op' \in {NoOp, [NoOp EXCEPT !.at = "save"]}
        /\ op' = (IF flight' = flight THEN NoOp ELSE [NoOp EXCEPT !.at = "save"])
        /\ UNCHANGED <<life, events, fullWanted, phase>>
    BY <1>4 DEF FlushOperation, QueueFree, index, writer
  <2>2. Flight.at = "none" /\ "queue" \in Slots
    BY <2>1 DEF QueueInv, OperationOfQueue, Flight, Slots
  <2>3. CASE flight' # flight
    <3>1. pending # NoJob /\ phase = "idle" /\ pending' = NoJob
      BY <2>1, <2>2, <2>3, FlushFlies DEF Flight
    <3>2. life' \notin {"drained", "closed"} /\ op'.at = "save"
      BY <2>1, <2>3, <3>1 DEF UnloadFlushes, NoOp
    <3> QED
      BY <2>1, <3>1, <3>2 DEF UnloadFlushes
  <2>4. CASE flight' = flight
    <3>1. pending' = pending /\ op'.at = "none"
      BY <2>1, <2>2, <2>4, FlushFlies DEF Flight, NoOp
    <3> QED
      BY <2>1, <2>4, <3>1 DEF UnloadFlushes, Flight, QueueFree
  <2> QED
    BY <2>3, <2>4
<1> QED
  BY <1>1, <1>2, <1>3, <1>4 DEF IndexStep

LEMMA UnloadSaveSteps ==
    ASSUME Typed, QueueInv, SavesInv, UnloadFlushes, NEW slot \in Slots,
           \/ CommitSave(slot) \/ SaveUnchanged(slot) \/ AdoptCommitted(slot)
           \/ ClearMarker(slot) \/ FailedToSync(slot) \/ FailedToRetry(slot)
           \/ FailedForGood(slot) \/ FailedInRebase(slot) \/ CommitFault(slot)
    PROVE  UnloadFlushes'
<1>1. flight[slot].at # "none" /\ UNCHANGED <<life, events, fullWanted>>
  BY DEF CommitSave, SaveUnchanged, AdoptCommitted, ClearMarker, FailedToSync,
         FailedToRetry, FailedForGood, FailedInRebase, CommitFault, index
<1>2. slot = "queue" /\ flight["queue"] = Flight /\ "queue" \in Slots
  BY <1>1 DEF SavesInv, SavesAreCurrent, NoFlight, Slots, Flight
<1>3. CASE ~Late
  BY <1>1, <1>3, NotYetLate DEF Late
<1>4. ASSUME Late PROVE UnloadFlushes'
  <2>1. /\ op.at = "save" /\ life \in {"flushed", "drained"} /\ Closing /\ ~Allowed
        /\ events = {} /\ ~fullWanted /\ pending = NoJob
        /\ life = "drained" => Flight.job.retry = 1
        /\ Flight \in Flights /\ Flight.job \in Save
    <3>1. op.at = "save" /\ events = {} /\ ~fullWanted /\ Closing
      BY <1>1, <1>2, <1>4, LateIsQuiet DEF QueueInv, OperationOfQueue
    <3>2. life \in {"flushed", "drained"}
      BY <1>4, <3>1 DEF Late, UnloadFlushes, QueueFree
    <3>3. Flight \in Flights /\ Flight.job \in Save
      BY <1>1, <1>2 DEF Typed, TypeOK, HasJob, Flights
    <3> QED
      BY <1>1, <1>2, <3>1, <3>2, <3>3 DEF Allowed, SavesInv, SavesAreCurrent, UnloadFlushes
  <2>2. CASE CommitSave(slot) \/ CommitFault(slot)
    <3>1. UNCHANGED <<op, phase, pending>>
      BY <2>2 DEF CommitSave, CommitFault, saving, writer
    <3>2. Flight'.job = Flight.job
      BY <1>2, <2>2, CommitsFly
    <3> QED
      BY <1>1, <2>1, <3>1, <3>2 DEF UnloadFlushes
  <2>3. ASSUME Land("queue"), op' = NoOp,
               pending' = NoJob \/ phase' = "required" \/ (pending'.retry = 1 /\ life = "flushed")
        PROVE  UnloadFlushes'
    <3>1. Flight'.at = "none"
      BY <1>2, <2>3, LandTyped DEF Flight, NoFlight
    <3> QED
      BY <1>1, <2>1, <2>3, <3>1 DEF UnloadFlushes, NoOp
  <2>4. CASE SaveUnchanged(slot) \/ ClearMarker(slot)
    <3>1. Land("queue") /\ op' = NoOp /\ pending' = NoJob
      BY <1>2, <2>1, <2>4 DEF SaveUnchanged, ClearMarker, Return, saving
    <3> QED
      BY <2>3, <3>1
  <2>5. CASE AdoptCommitted(slot)
    <3>1. CASE Flight.job.full
      <4>1. flight' = [flight EXCEPT !["queue"].at = "clearing"] /\ UNCHANGED <<op, phase, pending>>
        BY <1>2, <2>5, <3>1 DEF AdoptCommitted, saving
      <4>2. Flight'.job = Flight.job
        BY <1>2, <2>1, <4>1 DEF Flight, Typed, TypeOK, Flights
      <4> QED
        BY <1>1, <2>1, <4>1, <4>2 DEF UnloadFlushes
    <3>2. CASE ~Flight.job.full
      <4>1. Land("queue") /\ op' = NoOp /\ pending' = NoJob
        BY <1>2, <2>1, <2>5, <3>2 DEF AdoptCommitted, Return, saving
      <4> QED
        BY <2>3, <4>1
    <3> QED
      BY <3>1, <3>2
  <2>6. CASE FailedToSync(slot)
    BY <2>1, <2>6 DEF FailedToSync
  <2>7. CASE FailedToRetry(slot)
    <3> DEFINE again == [Flight.job EXCEPT !.retry = 1]
    <3>1. again.retry = 1
      BY <2>1, RetryTyped
    <3>2. /\ Land("queue") /\ op' = NoOp /\ pending' = Merge(again, NoJob) /\ Flight.job.retry = 0
      BY <1>2, <2>1, <2>7 DEF FailedToRetry, KeepForRetry, FreeOp, Retryable
    <3>3. pending' = again
      BY <2>1, <3>2, RetryTyped DEF Merge
    <3>4. life = "flushed"
      BY <2>1, <3>2
    <3>5. pending'.retry = 1
      BY <3>1, <3>3
    <3> QED
      BY <2>3, <3>2, <3>4, <3>5
  <2>8. CASE FailedForGood(slot)
    <3>1. Land("queue") /\ op' = NoOp /\ phase' = "required"
      BY <1>2, <2>8 DEF FailedForGood, FreeOp
    <3> QED
      BY <2>3, <3>1
  <2>9. CASE FailedInRebase(slot)
    BY <2>1, <2>9 DEF FailedInRebase
  <2> QED
    BY <2>2, <2>4, <2>5, <2>6, <2>7, <2>8, <2>9
<1> QED
  BY <1>3, <1>4

LEMMA UnloadOtherSteps ==
    ASSUME Typed, QueueInv, SavesInv, UnloadFlushes, ~Maintenance,
           RecoveryStep \/ UnloadStep \/ EnvironmentStep
    PROVE  UnloadFlushes'
<1>1. CASE RecoveryStep
  <2>1. life' = life /\ recovery.at # "none"
    BY <1>1 DEF RecoveryStep, Settle, RebaseRead, RebaseApply, RecoveryEnds, RecoveryRefused,
       QueueInv, OperationOfQueue
  <2> QED
    BY <2>1, LateIsQuiet, NotYetLate DEF Late
<1>2. CASE UnloadFlush
  <2>1. /\ Flush("queue") /\ life \in {"tail", "flushed"} /\ life' = AfterFlush
        /\ op.at = "none" /\ events = {} /\ ~fullWanted
        /\ op' = (IF flight' = flight THEN NoOp ELSE [NoOp EXCEPT !.at = "save"])
        /\ UNCHANGED <<events, fullWanted, phase>>
    BY <1>2 DEF UnloadFlush, TailDone, QueueFree, index, writer
  <2>2. Flight.at = "none" /\ "queue" \in Slots
    BY <2>1 DEF QueueInv, OperationOfQueue, Flight, Slots
  <2>3. op'.at \in {"none", "save"} /\ life' \in {"flushed", "drained"}
    BY <2>1 DEF NoOp, AfterFlush
  <2>4. phase = "idle" => pending' = NoJob
    BY <2>1, <2>2, FlushFlies DEF Flight
  <2>5. life' = "drained" /\ Flight'.at # "none" => Flight'.job.retry = 1
    <3>1. HAVE life' = "drained" /\ Flight'.at # "none"
    <3>2. flight' # flight /\ life = "flushed"
      BY <2>1, <2>2, <3>1 DEF Flight, AfterFlush
    <3>3. pending # NoJob /\ phase = "idle" /\ Flight'.job = pending
      BY <2>1, <2>2, <3>2, FlushFlies DEF Flight
    <3> QED
      BY <3>2, <3>3 DEF UnloadFlushes
  <2> QED
    BY <2>1, <2>3, <2>4, <2>5 DEF UnloadFlushes
<1>3. CASE Destroy
  BY <1>3 DEF Destroy, TailDone, QueueFree, index, writer, UnloadFlushes
<1>4. CASE StartLoaded \/ StartEmpty \/ BeginUnload \/ Quit
  BY <1>4, NotYetLate DEF StartLoaded, StartEmpty, BeginUnload, Quit, Late
<1>5. CASE RequestFullReindex \/ ObserveManifest
  BY <1>5, NotYetLate DEF RequestFullReindex, ObserveManifest, CanRecover, Late
<1>6. CASE FlushOutsideQueue
  BY <1>6 DEF FlushOutsideQueue
<1>7. CASE PeerManifest
  BY <1>7, UnloadLeftAlone DEF PeerManifest, index, saving, writer
<1>8. ASSUME NEW p \in Paths, NEW v \in 0 .. Bounds["edits"] + 2, Edit(p, v)
      PROVE  UnloadFlushes'
  <2>1. UNCHANGED <<life, fullWanted, op, phase, pending, flight>>
    BY <1>8 DEF Edit, saving, writer
  <2>2. CASE life = "running"
    BY <2>1, <2>2, NotYetLate DEF Late
  <2>3. CASE life # "running"
    BY <1>8, <2>1, <2>3, UnloadLeftAlone DEF Edit
  <2> QED
    BY <2>2, <2>3
<1>9. CASE \E slot \in Slots : CommitFault(slot)
  BY <1>9, UnloadSaveSteps
<1>10. CASE ReindexFails \/ ScanFails
  BY <1>10, UnloadIndexSteps
<1> QED
  BY <1>1, <1>2, <1>3, <1>4, <1>5, <1>6, <1>7, <1>8, <1>9, <1>10
     DEF UnloadStep, EnvironmentStep

LEMMA UnloadStepKeeps ==
    ~Maintenance /\ Typed /\ QueueInv /\ SavesInv /\ UnloadFlushes /\ [Next]_vars => UnloadFlushes'
<1>1. ASSUME UnloadFlushes, UNCHANGED vars PROVE UnloadFlushes'
  BY <1>1, UnloadLeftAlone DEF vars, index, saving, writer
<1>2. ASSUME Typed, QueueInv, SavesInv, UnloadFlushes, ~Maintenance, Next PROVE UnloadFlushes'
  BY <1>2, UnloadIndexSteps, UnloadSaveSteps, UnloadOtherSteps DEF Next, SaveStep
<1> QED
  BY <1>1, <1>2

----------------------------------------------------------------------------
(* No change is lost *)

\* As long as every flush runs in the index queue, saves hold the index as it
\* is, commits are newer than what they replace, every difference from the
\* baseline waits in a save, and unload leaves none.
THEOREM SavesHoldTheIndex == ASSUME ~Maintenance PROVE Spec => []DurableInv
<1>1. Init => Typed /\ QueueInv /\ DurableInv
  BY TypedInit, QueueInit, DurableInit
<1>2. Typed /\ QueueInv /\ DurableInv /\ [Next]_vars => (Typed /\ QueueInv /\ DurableInv)'
  BY TypedStep, QueueStep, SavesStep, UnloadStepKeeps DEF DurableInv
<1> QED
  BY <1>1, <1>2, PTL DEF Spec

LEMMA NothingForgotten ==
    ASSUME Typed, QueueInv, SavesInv, phase = "idle", Coherent, Current
    PROVE  \A p \in Paths : manifest.data[p] = ram[p] \/ Waiting(p)
<1>1. manifest = base /\ manifest # NoManifest /\ phase = "idle" /\ Coherent
  BY DEF Current
<1>2. Settled
  BY <1>1 DEF Settled, QueueInv, RecoveryOfSession
<1>3. Flight.at # "committed"
  <2>1. SUFFICES ASSUME Flight.at = "committed" PROVE FALSE
    OBVIOUS
  <2>2. base.id < Flight.base.id /\ Flight.base.id <= base.id
    BY <1>1, <2>1 DEF SavesInv, CommitsAreNew
  <2>3. base.id \in Nat /\ Flight.base.id \in Nat
    BY <1>1, <2>1 DEF Typed, TypeOK, HasJob, Flights, Flight, Slots, Snapshot
  <2> QED
    BY <2>2, <2>3
<1>4. Baseline = manifest
  BY <1>1, <1>3 DEF Baseline
<1> QED
  BY <1>1, <1>2, <1>4 DEF SavesInv, BaseIsCovered

\* No change is forgotten, through merges, retries, lost swaps, recoveries,
\* crashes and unload, as long as every flush runs in the index queue.
THEOREM ChangesAreKept == ASSUME ~Maintenance PROVE Spec => []NoChangeForgotten
<1>1. DurableInv => SavesInv
  BY DEF DurableInv
<1>2. Typed /\ QueueInv /\ DurableInv => NoChangeForgotten
  BY <1>1, NothingForgotten DEF NoChangeForgotten, InStep
<1> QED
  BY <1>2, TypesHold, QueueInvariant, SavesHoldTheIndex, PTL

\* Only the end of an unload closes a session.
LEMMA ClosedByDestroy ==
    ASSUME [Next]_vars, life' = "closed" PROVE life = "closed" \/ Destroy
<1>1. CASE UNCHANGED vars
  BY <1>1 DEF vars
<1>2. CASE IndexStep \/ ReindexFails \/ ScanFails
  BY <1>2 DEF IndexStep, ReindexRead, FileDelete, ReindexApply, FullReindexRead,
     FullReindexApply, TimerFires, FlushOperation, ReindexFails, ScanFails
<1>3. CASE SaveStep \/ \E slot \in Slots : CommitFault(slot)
  BY <1>3 DEF SaveStep, CommitSave, SaveUnchanged, AdoptCommitted, ClearMarker, FailedToSync,
     FailedToRetry, FailedForGood, FailedInRebase, CommitFault
<1>4. CASE RecoveryStep
  BY <1>4 DEF RecoveryStep, Settle, RebaseRead, RebaseApply, RecoveryEnds, RecoveryRefused
<1>5. CASE UnloadStep
  BY <1>5 DEF UnloadStep, UnloadFlush, AfterFlush
<1>6. CASE StartLoaded \/ StartEmpty \/ BeginUnload \/ Quit
  BY <1>6 DEF StartLoaded, StartEmpty, BeginUnload, Quit
<1>7. CASE \/ RequestFullReindex \/ FlushOutsideQueue \/ ObserveManifest \/ PeerManifest
           \/ \E p \in Paths, v \in 0 .. Bounds["edits"] + 2 : Edit(p, v)
  BY <1>7 DEF RequestFullReindex, FlushOutsideQueue, ObserveManifest, PeerManifest, Edit
<1> QED
  BY <1>1, <1>2, <1>3, <1>4, <1>5, <1>6, <1>7 DEF Next, EnvironmentStep

\* A session that unloads has saved its index or has left the marker, unless the
\* marker could not be written or another device replaced the manifest.
THEOREM UnloadAccountsForAll == ASSUME ~Maintenance PROVE Spec => UnloadIsAccounted
<1> DEFINE Accounted == life' = "closed" /\ Coherent /\ Current
                        => marker \/ unmarked \/ manifest.data = ram
<1>1. Typed /\ QueueInv /\ DurableInv /\ [Next]_vars => [Accounted]_vars
  <2> SUFFICES ASSUME Typed, QueueInv, SavesInv, UnloadFlushes, [Next]_vars,
                      life' = "closed", Coherent, Current, ~marker, ~unmarked
               PROVE  manifest.data = ram
    BY DEF DurableInv
  <2>1. life \in {"drained", "closed"} /\ op.at = "none"
    BY ClosedByDestroy DEF Destroy, TailDone, QueueFree, UnloadFlushes
  <2>2. recovery.at = "none" /\ Flight.at = "none"
    BY <2>1 DEF QueueInv, RecoveryOfSession, OperationOfQueue, Flight
  <2>3. phase = "idle"
    BY <2>2 DEF QueueInv, RecoveryOfSession, SavesInv, SealStands
  <2>4. pending = NoJob /\ flight["free"] = NoFlight
    BY <2>1, <2>3 DEF UnloadFlushes, SavesInv, SavesAreCurrent
  <2>5. \A p : ~Waiting(p)
    BY <2>2, <2>4, WaitingInQueue DEF Carries
  <2>6. \A p \in Paths : manifest.data[p] = ram[p]
    BY <2>3, <2>5, NothingForgotten
  <2>7. manifest.data \in [Paths -> Record] /\ ram \in [Paths -> Record]
    BY DEF Current, Typed, TypeOK, Snapshot
  <2> QED
    BY <2>6, <2>7
<1> QED
  BY <1>1, TypesHold, QueueInvariant, SavesHoldTheIndex, PTL DEF Spec, UnloadIsAccounted
=============================================================================
