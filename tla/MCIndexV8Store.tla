--------------------------- MODULE MCIndexV8Store ---------------------------
(***************************************************************************)
(* Small instances of IndexV8Store for TLC: three snapshots over three     *)
(* shards, any two of which share a shard, so that every commit reuses     *)
(* one, writes one and orphans one.                                        *)
(***************************************************************************)
EXTENDS IndexV8StoreInvariant

CONSTANTS m1, m2, m3, a, b, c

MCRefs == [m \in Snapshots |->
             IF m = m1 THEN {a, b} ELSE IF m = m2 THEN {b, c} ELSE {a, c}]

\* Commits against a peer that activates another snapshot, damages or deletes
\* the manifest, and adds, removes or damages a shard, and against calls that
\* fail or a process that dies.
CommitManifests == {m2, Invalid, NoFile}
CommitBounds    == [transactions |-> 2, peer |-> 2, faults |-> 1]

\* A behaviour has two peer changes, or one and a fault; cleanup has a run of
\* its own.
TwoTroubles ==
    /\ left.peer + left.faults >= Bounds.peer + Bounds.faults - 2
    /\ plan.at = "idle"

\* The first activation, or m1 active; any snapshot is then the same as any other.
CommitInit == Init /\ manifest \in {m1, NoFile} /\ shard[a] = "good"
CommitSpec == CommitInit /\ [][Next]_vars

\* Load, cleanup and a commit that reuses what the cleanup takes for an
\* orphan, with manifests arriving as the active or as an alternate one.
CleanupManifests  == {m2, m3}
CleanupAlternates == {m2, Newer}
CleanupBounds     == [transactions |-> 3, peer |-> 1, faults |-> 1]

\* A behaviour has a peer change or a fault.
OneTrouble  == left.peer + left.faults >= Bounds.peer + Bounds.faults - 1
CleanupInit == Init /\ manifest = m1 /\ shard[c] = "good"
CleanupSpec == CleanupInit /\ [][Next]_vars /\ Fairness
=============================================================================
