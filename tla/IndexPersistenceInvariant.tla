----------------------- MODULE IndexPersistenceInvariant -----------------------
(***************************************************************************)
(* The inductive invariants of IndexPersistence.  The first three hold     *)
(* however saves are flushed: the types, what the index queue and the      *)
(* recovery know of each other, and how the index follows the vault.  The  *)
(* last one relates the pending save, the one in flight and the baseline;  *)
(* it holds as long as every flush runs in the index queue.                *)
(***************************************************************************)
EXTENDS IndexPersistence

\* A save in flight is a save, and one that is committed has a new baseline.
HasJob(f) ==
    /\ f.at # "none" => f.job # NoJob
    /\ f.at = "committed" => f.base # NoManifest

Typed == TypeOK /\ \A slot \in Slots : HasJob(flight[slot])

----------------------------------------------------------------------------
(* The index queue, the Sync recovery and the phase of the writer *)

Reading == {"reindex", "scan", "rebaseScan"}

\* The operation that runs knows what it is for, and one that awaits a save has
\* one in flight.
OperationOfQueue ==
    /\ op.at \in {"save", "rebase"} <=> flight["queue"].at # "none"
    /\ op.at = "reindex" => \E p \in Paths : op.paths = {p}
    /\ op.at \in {"scan", "rebaseScan"} => op.paths = Paths
    /\ op.at \in {"rebaseScan", "rebase"} => recovery.at = "queued"

\* Recoveries belong to a running session, and the writer is idle only without one.
RecoveryOfSession ==
    /\ recovery.at # "none" => life = "running" /\ phase # "idle"
    /\ recovery.at = "none" => phase \in {"idle", "required"}

\* Between two sessions there is nothing in memory.
NothingInMemory ==
    life = "off" => /\ ~Coherent /\ op = NoOp /\ events = {} /\ ~fullWanted
                    /\ pending = NoJob
                    /\ phase = "idle" /\ base = NoManifest
                    /\ \A slot \in Slots : flight[slot] = NoFlight

QueueInv == OperationOfQueue /\ RecoveryOfSession /\ NothingInMemory

----------------------------------------------------------------------------
(* The index follows the vault *)

\* A read that an edit has overtaken is followed by another one.
ReadsWatched ==
    life = "running" /\ op.at \in Reading =>
        \A p \in op.paths : op.read[p] = vault[p] \/ p \in events

\* Only a reindex has taken its file off the list; a scan that fails has not.
Follows ==
    life = "running" /\ Coherent =>
        \A p \in Paths : \/ ram[p].content = vault[p]
                         \/ p \in events \cup unhealed
                         \/ op.at = "reindex" /\ p \in op.paths

FollowsInv == ReadsWatched /\ Follows

----------------------------------------------------------------------------
(* The durable snapshot follows the index *)

Flight == flight["queue"]

\* Saves hold the index as it is: none is requested while another is in flight,
\* and the latest one supersedes the data of those it is merged with.
SavesAreCurrent ==
    /\ flight["free"] = NoFlight
    /\ pending # NoJob => Coherent /\ pending.data = ram
    /\ Flight.at # "none" => pending = NoJob
    /\ Flight.at \in {"compiled", "failed"} =>
           Coherent /\ Flight.job.data = ram /\ Flight.base = base

\* A committed snapshot is newer than the baseline it replaces, and no other
\* manifest is older than it.
Numbered(s, n) == s # NoManifest => s.id <= n
CommitsAreNew ==
    /\ Numbered(manifest, serial) /\ Numbered(base, serial)
    /\ Numbered(recovery.stable, serial)
    /\ Flight.at = "committed" =>
         /\ Flight.base.id <= serial
         /\ base # NoManifest => base.id < Flight.base.id
         /\ manifest # NoManifest => Flight.base.id <= manifest.id

\* The snapshot that the next save will be compiled against.
Baseline == IF Flight.at = "committed" THEN Flight.base ELSE base

\* Outside of the time whose changes the full scan of a recovery replaces, every
\* record that differs from that snapshot is in a save, whatever the manifest is by now.
Settled ==
    /\ phase # "required" /\ Coherent
    /\ recovery.at \in {"none", "ending"} \/ op.at = "rebase"
BaseIsCovered ==
    Settled /\ Baseline # NoManifest =>
        \A p \in Paths : Baseline.data[p] = ram[p] \/ Waiting(p)

\* A sealed session writes nothing, so nothing takes its marker away.
SealStands == phase = "required" => (marker \/ unmarked) /\ Flight.at = "none"

\* Unload flushes twice, because a save is retried once.
UnloadFlushes ==
    /\ life \in {"flushed", "drained", "closed"} =>
           events = {} /\ ~fullWanted /\ op.at \in {"none", "save"}
    /\ life = "flushed" /\ phase = "idle" /\ pending # NoJob => pending.retry = 1
    /\ life \in {"drained", "closed"} /\ phase = "idle" => pending = NoJob
    /\ life = "drained" /\ Flight.at # "none" => Flight.job.retry = 1
    /\ life = "closed" => QueueFree

SavesInv   == SavesAreCurrent /\ CommitsAreNew /\ BaseIsCovered /\ SealStands
DurableInv == SavesInv /\ UnloadFlushes
=============================================================================
