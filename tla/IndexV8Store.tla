------------------------------ MODULE IndexV8Store ------------------------------
(***************************************************************************)
(* The V8 index store (src/indexer/persistence/index-v8-store.ts): a       *)
(* directory of content-addressed shard files and one manifest.json that   *)
(* names the shards of the active snapshot.  A full commit, an incremental *)
(* commit and the removal of one orphan shard are transactions, which the  *)
(* adapter-wide write queue runs one at a time; planning a cleanup and     *)
(* loading a snapshot run outside the queue.  Between any two awaits of a  *)
(* transaction a Sync peer may change the manifest, an alternate ("sync    *)
(* conflict") manifest or a shard, an adapter call may fail, and the       *)
(* process may die.                                                        *)
(*                                                                         *)
(* A manifest payload is its snapshot; a shard is its content address.     *)
(* Every action is one awaited adapter call (or a run of calls between     *)
(* which nothing another actor does can be told apart).                    *)
(***************************************************************************)
EXTENDS Naturals, FiniteSets

CONSTANTS
    Snapshots,        \* snapshots, each standing for its manifest payload
    Shards,           \* content-addressed shard file names
    Refs,             \* Refs[m]: the shards snapshot m is made of
    NoFile,           \* the file does not exist
    Invalid,          \* bytes no version of the contract accepts
    Newer,            \* a manifest of a contract this version does not know
    AnyBase,          \* a commit that states no expected base (shadow writer)
    PeerManifests,    \* what the peer may put at manifest.json
    PeerAlternates,   \* what the peer may put at an alternate manifest
    PeerShards,       \* the shards the peer may add, remove or damage
    MaxFiles,         \* cleanup plans at most this many files (32 in the code)
    Bounds            \* how many transactions, peer changes and faults a run has

ASSUME DataAssumption ==
    /\ Refs \in [Snapshots -> SUBSET Shards]
    /\ NoFile \notin Snapshots /\ Invalid \notin Snapshots
    /\ Newer \notin Snapshots /\ AnyBase \notin Snapshots
    /\ NoFile # Invalid /\ NoFile # Newer /\ NoFile # AnyBase
    /\ Invalid # Newer

ASSUME PeerAssumption ==
    /\ PeerManifests \subseteq Snapshots \cup {NoFile, Invalid, Newer}
    /\ PeerAlternates \subseteq Snapshots \cup {Invalid, Newer}
    /\ PeerShards \subseteq Shards
    /\ Bounds \in [{"transactions", "peer", "faults"} -> Nat]

VARIABLES
    \* --- files
    manifest,    \* manifest.json
    alternates,  \* contents of the alternate manifest files
    shard,       \* each shard file: "absent", "good" or "bad" (wrong bytes)
    aged,        \* shard files older than the orphan retention
    claim,       \* the file cleanup has renamed aside
    \* --- memory of the process
    verified,    \* verifiedSnapshotId
    cached,      \* shards whose verifiedShardFingerprints entry equals their stat
    loading,     \* a load outside the queue: the snapshot it read and its shards to go
    plan,        \* the cleanup in progress outside the queue
    \* --- the transaction at the head of the write queue
    op, pc, base, cand, seen, attempted, loaded, todo, target, result,
    \* --- history, read by no action's guard
    peerSnaps,   \* snapshots the peer activated and no local commit published since
    peerShards,  \* shards the peer changed and no local step found good since
    quiet,       \* no peer step since a commit read its manifest back, or since
                 \* a cleanup sealed the manifest for the last time
    published,   \* the transaction at the head put its candidate at manifest.json
    left         \* how many more transactions, peer changes and faults may happen

disk    == <<manifest, alternates, shard, aged, claim>>
memory  == <<verified, cached, loading, plan>>
tx      == <<op, pc, base, cand, seen, attempted, loaded, todo, target, result>>
history == <<peerSnaps, peerShards, quiet, published>>
vars    == <<disk, memory, tx, history, left>>

----------------------------------------------------------------------------
(* Helpers *)

Files  == {"absent", "good", "bad"}
NoPlan == [at |-> "idle", manifest |-> NoFile, alternates |-> {},
           files |-> {}, unchanged |-> {}]
NoLoad == [snapshot |-> NoFile, todo |-> {}]

Protected(alts) == UNION {Refs[m] : m \in alts \cap Snapshots}

Spend(what) == /\ left[what] > 0
               /\ left' = [left EXCEPT ![what] = @ - 1]

\* The stat (size, mtime) of the files S is not what it was: no cached
\* fingerprint and no planned candidate matches it any longer.
Restat(S) ==
    /\ cached' = cached \ S
    /\ plan' = [plan EXCEPT !.unchanged = @ \ S]

Goto(label) == pc' = label /\ UNCHANGED <<op, result>>
Finish(how) == pc' = "idle" /\ op' = "none" /\ result' = how
Idle        == op = "none"
Committing  == op \in {"full", "incremental"}

Init ==
    /\ manifest \in Snapshots \cup {NoFile}
    /\ alternates = {}
    /\ shard \in [Shards -> {"absent", "good"}]
    /\ manifest \in Snapshots => \A s \in Refs[manifest] : shard[s] = "good"
    /\ aged = {s \in Shards : shard[s] = "good"}
    /\ claim = "absent"
    /\ verified = NoFile /\ cached = {} /\ loading = NoLoad /\ plan = NoPlan
    /\ op = "none" /\ pc = "idle" /\ result = "none"
    /\ base = NoFile /\ cand = NoFile /\ seen = NoFile /\ attempted = NoFile
    /\ loaded = NoFile /\ todo = {} /\ target = NoFile
    /\ peerSnaps = {} /\ peerShards = {} /\ quiet = FALSE /\ published = FALSE
    /\ left = Bounds

----------------------------------------------------------------------------
(* load() outside the queue: startup and the manual validation *)

BeginLoad ==
    /\ loading = NoLoad /\ manifest \in Snapshots
    /\ Spend("transactions")
    /\ loading' = [snapshot |-> manifest, todo |-> Refs[manifest]]
    /\ UNCHANGED <<disk, verified, cached, plan, tx, history>>

LoadShard(s) ==
    /\ s \in loading.todo
    /\ IF shard[s] = "good"
       THEN /\ loading' = [loading EXCEPT !.todo = @ \ {s}]
            /\ cached' = cached \cup {s}
       ELSE /\ loading' = NoLoad              \* incomplete or invalid
            /\ UNCHANGED cached
    /\ UNCHANGED <<disk, verified, plan, tx, history, left>>

EndLoad ==
    /\ loading.snapshot # NoFile /\ loading.todo = {}
    /\ verified' = loading.snapshot
    /\ loading' = NoLoad
    /\ UNCHANGED <<disk, cached, plan, tx, history, left>>

----------------------------------------------------------------------------
(* Commits *)

BeginFull(b, c) ==
    /\ Idle /\ Spend("transactions")
    /\ op' = "full" /\ pc' = "shards" /\ todo' = Refs[c]
    /\ base' = b /\ cand' = c /\ seen' = NoFile /\ attempted' = c
    /\ published' = FALSE /\ quiet' = FALSE
    /\ UNCHANGED <<disk, memory, loaded, target, result, peerSnaps, peerShards>>

BeginIncremental(b, c) ==
    /\ Idle /\ Spend("transactions")
    /\ op' = "incremental" /\ pc' = "active" /\ todo' = {}
    /\ base' = b /\ cand' = c /\ seen' = b /\ attempted' = c
    /\ published' = FALSE /\ quiet' = FALSE
    /\ UNCHANGED <<disk, memory, loaded, target, result, peerSnaps, peerShards>>

\* Variant: the shards an incremental commit reuses are not verified.
ReadActive_TrustReused ==
    /\ pc = "active"
    /\ IF manifest = base
       THEN Goto("reuse") /\ todo' = {}
       ELSE Finish("failed") /\ UNCHANGED todo
    /\ UNCHANGED <<disk, memory, base, cand, seen, attempted, loaded, target, history, left>>

\* commitIncremental: the active manifest must be the expected base.
ReadActive ==
    /\ pc = "active"
    /\ IF manifest = base
       THEN Goto("reuse") /\ todo' = Refs[cand] \cap Refs[base]
       ELSE Finish("failed") /\ UNCHANGED todo
    /\ UNCHANGED <<disk, memory, base, cand, seen, attempted, loaded, target, history, left>>

\* verifyReusedShard: a cached fingerprint that still matches is believed,
\* anything else is read.
Reusable(s) == shard[s] # "absent" /\ (s \in cached \/ shard[s] = "good")

VerifyReused(s) ==
    /\ pc = "reuse" /\ s \in todo
    /\ IF Reusable(s)
       THEN /\ todo' = todo \ {s} /\ cached' = cached \cup {s}
            /\ peerShards' = peerShards \ {s}
            /\ UNCHANGED <<op, pc, result>>
       ELSE Finish("failed") /\ UNCHANGED <<todo, cached, peerShards>>
    /\ UNCHANGED <<disk, verified, loading, plan, base, cand, seen, attempted,
                   loaded, target, peerSnaps, quiet, published, left>>

ReuseVerified ==
    /\ pc = "reuse" /\ todo = {}
    /\ Goto("shards") /\ todo' = Refs[cand] \ Refs[base]
    /\ UNCHANGED <<disk, memory, base, cand, seen, attempted, loaded, target, history, left>>

\* commitShard: a missing file is created, a file with the same bytes is
\* reused, a file with other bytes is a conflict.  (A worker that still writes
\* another shard after the conflict writes it before it in this model.)
CommitShard(s) ==
    /\ pc = "shards" /\ s \in todo
    /\ IF shard[s] = "absent"
       THEN /\ shard' = [shard EXCEPT ![s] = "good"]
            /\ aged' = aged \ {s} /\ Restat({s})
       ELSE UNCHANGED <<shard, aged, cached, plan>>
    /\ IF shard[s] = "bad"
       THEN Finish("failed") /\ UNCHANGED <<todo, peerShards>>
       ELSE /\ todo' = todo \ {s} /\ peerShards' = peerShards \ {s}
            /\ UNCHANGED <<op, pc, result>>
    /\ UNCHANGED <<manifest, alternates, claim, verified, loading, base, cand, seen,
                   attempted, loaded, target, peerSnaps, quiet, published, left>>

\* Variant: the manifest is written while shards are still being written.
ReadExisting_Early ==
    /\ op = "full" /\ pc = "shards"
    /\ seen' = manifest
    /\ IF base # AnyBase /\ manifest # base
       THEN Finish("failed")
       ELSE IF manifest = cand THEN Goto("verify")
       ELSE IF base = NoFile THEN Goto("race") ELSE Goto("write")
    /\ UNCHANGED <<disk, memory, base, cand, attempted, loaded, todo, target, history, left>>

\* commit: read the existing manifest and compare it with the expectation.
ReadExisting ==
    /\ op = "full" /\ pc = "shards" /\ todo = {}
    /\ seen' = manifest
    /\ IF base # AnyBase /\ manifest # base
       THEN Finish("failed")
       ELSE IF manifest = cand THEN Goto("verify")
       ELSE IF base = NoFile THEN Goto("race") ELSE Goto("write")
    /\ UNCHANGED <<disk, memory, base, cand, attempted, loaded, todo, target, history, left>>

IncrementalShardsWritten ==
    /\ op = "incremental" /\ pc = "shards" /\ todo = {}
    /\ IF cand = base THEN Goto("verify") ELSE Goto("write")
    /\ UNCHANGED <<disk, memory, base, cand, seen, attempted, loaded, todo, target, history, left>>

Publish ==
    /\ manifest' = cand
    /\ peerSnaps' = peerSnaps \ {cand} /\ published' = TRUE

\* Variant: the manifest is written without comparing it with the base again.
ReplaceManifest_NoCompare ==
    /\ pc = "write"
    /\ Publish /\ Goto("verify")
    /\ UNCHANGED <<alternates, shard, aged, claim, memory, base, cand, seen, attempted,
                   loaded, todo, target, peerShards, quiet, left>>

\* adapter.process compares and replaces in one step; a commit with no
\* expected base replaces whatever is there (writeTextSafely).
ReplaceManifest ==
    /\ pc = "write"
    /\ IF base = AnyBase \/ manifest = base
       THEN Publish /\ Goto("verify")
       ELSE Goto("restore") /\ UNCHANGED <<manifest, peerSnaps, published>>
    /\ UNCHANGED <<alternates, shard, aged, claim, memory, base, cand, seen, attempted,
                   loaded, todo, target, peerShards, quiet, left>>

RereadMissing ==
    /\ pc = "race"
    /\ IF manifest = NoFile THEN Goto("create") ELSE Goto("restore")
    /\ UNCHANGED <<disk, memory, base, cand, seen, attempted, loaded, todo, target, history, left>>

\* The rename of createInitialManifest: a manifest that landed after the last
\* check makes it fail on some file systems and is overwritten on others.
CreateManifest ==
    /\ pc = "create"
    /\ \/ Publish /\ Goto("verify")
       \/ manifest # NoFile /\ Goto("restore") /\ UNCHANGED <<manifest, peerSnaps, published>>
    /\ UNCHANGED <<alternates, shard, aged, claim, memory, base, cand, seen, attempted,
                   loaded, todo, target, peerShards, quiet, left>>

\* Read back.  A full commit that finds bytes no contract accepts rolls those
\* back; a valid or a newer manifest is left to whoever wrote it.
VerifyManifest ==
    /\ pc = "verify"
    /\ IF manifest = cand
       THEN Goto("post") /\ quiet' = TRUE /\ UNCHANGED attempted
       ELSE /\ Goto("restore") /\ UNCHANGED quiet
            /\ attempted' = IF op = "full" /\ manifest = Invalid THEN Invalid ELSE cand
    /\ UNCHANGED <<disk, memory, base, cand, seen, loaded, todo, target,
                   peerSnaps, peerShards, published, left>>

\* restoreManifestBestEffort: an absent previous manifest is not restored.
Restored == IF seen # NoFile /\ manifest = attempted THEN seen ELSE manifest

RestoreManifest ==
    /\ pc = "restore"
    /\ manifest' = Restored
    /\ Finish("failed")
    /\ UNCHANGED <<alternates, shard, aged, claim, memory, base, cand, seen, attempted,
                   loaded, todo, target, history, left>>

\* Postflight: a full commit loads whatever manifest is active now ...
BeginPostflight ==
    /\ pc = "post"
    /\ IF op = "incremental"
       THEN Goto("postShards") /\ loaded' = cand /\ todo' = Refs[cand]
       ELSE IF manifest \in Snapshots
       THEN Goto("postShards") /\ loaded' = manifest /\ todo' = Refs[manifest]
       ELSE Goto("restore") /\ UNCHANGED <<loaded, todo>>
    /\ UNCHANGED <<disk, memory, base, cand, seen, attempted, target, history, left>>

\* ... and reads every shard; an incremental one reads the shards it changed
\* and verifies the reused ones again.
\* Variant: postflight believes the writes of this commit.
Readable_Assumed(s) == TRUE

ReusedHere(s) == op = "incremental" /\ s \in Refs[base]
Readable(s)   == IF ReusedHere(s) THEN Reusable(s) ELSE shard[s] = "good"

PostflightShard(s) ==
    /\ pc = "postShards" /\ s \in todo /\ Readable(s)
    /\ todo' = todo \ {s}
    /\ peerShards' = peerShards \ {s}
    /\ cached' = IF op = "full" \/ ReusedHere(s) THEN cached \cup {s} ELSE cached
    /\ UNCHANGED <<disk, verified, loading, plan, op, pc, base, cand, seen, attempted,
                   loaded, target, result, peerSnaps, quiet, published, left>>

PostflightFails(s) ==
    /\ pc = "postShards" /\ s \in todo /\ ~Readable(s)
    /\ Goto("restore")
    /\ UNCHANGED <<disk, memory, base, cand, seen, attempted, loaded, todo, target,
                   history, left>>

EndPostflight ==
    /\ pc = "postShards" /\ todo = {}
    /\ verified' = IF op = "full" THEN loaded ELSE verified
    /\ IF loaded = cand THEN Finish("committed") ELSE Goto("restore")
    /\ UNCHANGED <<disk, cached, loading, plan, base, cand, seen, attempted, loaded,
                   todo, target, history, left>>

----------------------------------------------------------------------------
(* Cleanup: planned outside the queue, applied one file per transaction *)

\* planCleanup reads the active manifest and stats its shards, ...
PlanManifest ==
    /\ plan.at = "idle" /\ Spend("transactions")
    /\ manifest \in Snapshots /\ \A s \in Refs[manifest] : shard[s] # "absent"
    /\ plan' = [NoPlan EXCEPT !.at = "list", !.manifest = manifest]
    /\ UNCHANGED <<disk, verified, cached, loading, tx, history>>

\* ... then lists the shards and seals the alternate manifests.  Any
\* unreadable alternate, or a snapshot not verified in this session,
\* suppresses the cleanup.
Eligible == {s \in aged : /\ shard[s] # "absent"
                          /\ s \notin Refs[plan.manifest]
                          /\ s \notin Protected(alternates)}

PlanFiles ==
    /\ plan.at = "list"
    /\ IF alternates \subseteq Snapshots /\ plan.manifest = verified
       THEN \E F \in SUBSET Eligible :
              /\ Cardinality(F) <= MaxFiles
              /\ plan' = [plan EXCEPT !.at = "apply", !.alternates = alternates,
                                      !.files = F, !.unchanged = F]
       ELSE plan' = NoPlan
    /\ UNCHANGED <<disk, verified, cached, loading, tx, history, left>>

\* Variant: the seal only asks for a readable manifest.
ManifestSealed_AnyValid == manifest \in Snapshots

ManifestSealed   == manifest = plan.manifest
AlternatesSealed == alternates = plan.alternates

\* applyCleanup checks both seals before it queues anything.
ApplyPlan ==
    /\ plan.at = "apply"
    /\ plan' = IF ManifestSealed /\ AlternatesSealed THEN [plan EXCEPT !.at = "loop"]
               ELSE NoPlan
    /\ UNCHANGED <<disk, verified, cached, loading, tx, history, left>>

BeginCandidate(s) ==
    /\ Idle /\ plan.at = "loop" /\ s \in plan.files
    /\ op' = "cleanup" /\ pc' = "check" /\ target' = s
    /\ UNCHANGED <<disk, memory, base, cand, seen, attempted, loaded, todo, result,
                   history, left>>

EndCleanup ==
    /\ Idle /\ plan.at = "loop" /\ plan.files = {}
    /\ plan' = NoPlan
    /\ UNCHANGED <<disk, verified, cached, loading, tx, history, left>>

txData == <<base, cand, seen, attempted, loaded, todo, target>>
StopCleanup == plan' = NoPlan /\ Finish("stopped")
\* Variant: a skipped candidate stays in the plan.
NextFile_Kept == plan' = plan /\ Finish("next")

NextFile    == /\ plan' = [plan EXCEPT !.files = @ \ {target}]
               /\ Finish("next")

\* The seals are read again before and after the file is claimed, the
\* manifest first.
SealLabel ==
    [check |-> "inspect", seal |-> "sealAlternates", sealAlternates |-> "claim",
     reseal |-> "resealAlternates", resealAlternates |-> "remove"]

CheckSeal ==
    /\ op = "cleanup" /\ pc \in DOMAIN SealLabel
    /\ IF IF pc \in {"sealAlternates", "resealAlternates"}
          THEN AlternatesSealed ELSE ManifestSealed
       THEN Goto(SealLabel[pc]) /\ UNCHANGED plan /\ quiet' = (pc = "reseal" \/ quiet)
       ELSE /\ IF pc \in {"check", "seal", "sealAlternates"}
               THEN StopCleanup
               ELSE Goto("unclaim") /\ UNCHANGED plan
            /\ UNCHANGED quiet
    /\ UNCHANGED <<disk, verified, cached, loading, txData, peerSnaps, peerShards,
                   published, left>>

InspectCandidate ==
    /\ pc = "inspect"
    /\ IF AlternatesSealed /\ target \notin Protected(alternates)
          /\ shard[target] # "absent" /\ target \in plan.unchanged
       THEN Goto("seal") /\ UNCHANGED plan
       ELSE NextFile
    /\ UNCHANGED <<disk, verified, cached, loading, txData, history, left>>

ClaimShard ==
    /\ pc = "claim"
    /\ IF shard[target] = "absent"
       THEN StopCleanup /\ UNCHANGED <<shard, claim, cached>>    \* rename throws
       ELSE /\ claim' = shard[target]
            /\ shard' = [shard EXCEPT ![target] = "absent"]
            /\ Restat({target})
            /\ Goto("reseal")
    /\ UNCHANGED <<manifest, alternates, aged, verified, loading, txData, history, left>>

RemoveClaim ==
    /\ pc = "remove"
    /\ claim' = "absent" /\ Goto("removed")
    /\ UNCHANGED <<manifest, alternates, shard, aged, memory, txData, history, left>>

\* The manifest is read once more before the next file.
CheckRemoved ==
    /\ pc = "removed"
    /\ IF ManifestSealed THEN NextFile ELSE StopCleanup
    /\ UNCHANGED <<disk, verified, cached, loading, txData, history, left>>

\* restoreClaimNoClobber
RestoreClaim ==
    /\ pc = "unclaim"
    /\ shard' = IF shard[target] = "absent" THEN [shard EXCEPT ![target] = claim] ELSE shard
    /\ claim' = "absent"
    /\ StopCleanup
    /\ UNCHANGED <<manifest, alternates, aged, verified, cached, loading, txData,
                   history, left>>

----------------------------------------------------------------------------
(* The environment: Sync, the clock, failing adapter calls, a crash *)

PeerManifest(m) ==
    /\ manifest # m /\ Spend("peer")
    /\ manifest' = m
    /\ peerSnaps' = peerSnaps \cup ({m} \cap Snapshots)
    /\ quiet' = FALSE
    /\ UNCHANGED <<alternates, shard, aged, claim, memory, tx, peerShards, published>>

PeerAlternate(m) ==
    /\ Spend("peer")
    /\ alternates' = IF m \in alternates THEN alternates \ {m} ELSE alternates \cup {m}
    /\ quiet' = FALSE
    /\ UNCHANGED <<manifest, shard, aged, claim, memory, tx, peerSnaps, peerShards,
                   published>>

PeerShard(s, f) ==
    /\ shard[s] # f /\ Spend("peer")
    /\ shard' = [shard EXCEPT ![s] = f]
    /\ \E old \in BOOLEAN : aged' = IF old THEN aged \cup {s} ELSE aged \ {s}
    /\ Restat({s})
    /\ peerShards' = peerShards \cup {s}
    /\ quiet' = FALSE
    /\ UNCHANGED <<manifest, alternates, claim, verified, loading, tx, peerSnaps,
                   published>>

Age(s) ==
    /\ s \notin aged /\ shard[s] # "absent"
    /\ aged' = aged \cup {s}
    /\ UNCHANGED <<manifest, alternates, shard, claim, memory, tx, history, left>>

\* A call of a commit rejects.  From the manifest write on, the commit rolls
\* back; the write itself may have happened although it rejected.
CommitFault ==
    /\ Committing /\ Spend("faults")
    /\ \/ /\ pc \in {"active", "reuse", "shards", "restore"} /\ Finish("failed")
          /\ UNCHANGED <<manifest, peerSnaps, published>>
       \/ /\ pc \in {"write", "race", "create", "verify", "post", "postShards"}
          /\ Goto("restore") /\ UNCHANGED <<manifest, peerSnaps, published>>
       \/ /\ pc = "create" \/ (pc = "write" /\ base \in {AnyBase, manifest})
          /\ Publish /\ Goto("restore")
    /\ UNCHANGED <<alternates, shard, aged, claim, memory, txData, peerShards, quiet>>

\* A call of a cleanup transaction rejects: a claimed file is put back unless
\* putting it back rejects too.
CleanupFault ==
    /\ op = "cleanup" /\ Spend("faults")
    /\ IF pc \in {"reseal", "resealAlternates", "remove"}
       THEN Goto("unclaim") /\ UNCHANGED plan
       ELSE StopCleanup
    /\ claim' = IF pc = "unclaim" THEN "absent" ELSE claim
    /\ UNCHANGED <<manifest, alternates, shard, aged, verified, cached, loading, txData,
                   history>>

\* The process dies: files stay (a claim under a name nobody looks at),
\* memory is lost.
Crash ==
    /\ Spend("faults")
    /\ Finish("crashed") /\ claim' = "absent"
    /\ verified' = NoFile /\ cached' = {} /\ loading' = NoLoad /\ plan' = NoPlan
    /\ UNCHANGED <<manifest, alternates, shard, aged, txData, history>>

----------------------------------------------------------------------------
BeginStep ==
    \/ \E c \in Snapshots, b \in Snapshots \cup {NoFile, AnyBase} : BeginFull(b, c)
    \/ \E b, c \in Snapshots : BeginIncremental(b, c)

CommitStep ==
    \/ ReadActive \/ ReuseVerified \/ ReadExisting \/ IncrementalShardsWritten
    \/ \E s \in Shards : VerifyReused(s) \/ CommitShard(s)
                         \/ PostflightShard(s) \/ PostflightFails(s)
    \/ ReplaceManifest \/ RereadMissing \/ CreateManifest \/ VerifyManifest
    \/ RestoreManifest \/ BeginPostflight \/ EndPostflight

CleanupStep ==
    \/ PlanFiles \/ ApplyPlan \/ EndCleanup
    \/ \E s \in Shards : BeginCandidate(s)
    \/ CheckSeal \/ InspectCandidate \/ ClaimShard \/ RemoveClaim
    \/ CheckRemoved \/ RestoreClaim

LoadStep == EndLoad \/ \E s \in Shards : LoadShard(s)

PeerStep ==
    \/ \E m \in PeerManifests : PeerManifest(m)
    \/ \E m \in PeerAlternates : PeerAlternate(m)
    \/ \E s \in PeerShards, f \in Files : PeerShard(s, f)

LocalStep == BeginStep \/ BeginLoad \/ PlanManifest \/ CommitStep \/ CleanupStep \/ LoadStep \/ CommitFault \/ CleanupFault \/ Crash

Next == LocalStep \/ PeerStep \/ \E s \in Shards : Age(s)

Spec == Init /\ [][Next]_vars

\* Every awaited adapter call settles, and the continuations the event loop
\* owes a transaction, a cleanup or a load run; nothing obliges anyone to
\* begin an operation, the peer to act or a call to fail.
Fairness == WF_vars(CommitStep) /\ WF_vars(CleanupStep) /\ WF_vars(LoadStep)
FairSpec == Spec /\ Fairness

----------------------------------------------------------------------------
(* Properties *)

Labels == {"idle", "active", "reuse", "shards", "race", "write", "create", "verify",
           "restore", "post", "postShards", "check", "inspect", "seal",
           "sealAlternates", "claim", "reseal", "resealAlternates", "remove",
           "removed", "unclaim"}

\* Every variable has its type.
TypeOK ==
    /\ manifest \in Snapshots \cup {NoFile, Invalid, Newer}
    /\ alternates \subseteq Snapshots \cup {Invalid, Newer}
    /\ shard \in [Shards -> Files] /\ aged \subseteq Shards /\ claim \in Files
    /\ verified \in Snapshots \cup {NoFile} /\ cached \subseteq Shards
    /\ loading \in [snapshot : Snapshots \cup {NoFile}, todo : SUBSET Shards]
    /\ plan \in [at : {"idle", "list", "apply", "loop"},
                 manifest : Snapshots \cup {NoFile},
                 alternates : SUBSET (Snapshots \cup {Invalid, Newer}),
                 files : SUBSET Shards, unchanged : SUBSET Shards]
    /\ op \in {"none", "full", "incremental", "cleanup"} /\ pc \in Labels
    /\ base \in Snapshots \cup {NoFile, AnyBase}
    /\ cand \in Snapshots \cup {NoFile} /\ loaded \in Snapshots \cup {NoFile}
    /\ seen \in Snapshots \cup {NoFile, Invalid, Newer}
    /\ attempted \in Snapshots \cup {NoFile, Invalid}
    /\ todo \subseteq Shards /\ target \in Shards \cup {NoFile}
    /\ result \in {"none", "committed", "failed", "stopped", "next", "crashed"}
    /\ peerSnaps \subseteq Snapshots /\ peerShards \subseteq Shards
    /\ quiet \in BOOLEAN /\ published \in BOOLEAN
    /\ left \in [{"transactions", "peer", "faults"} -> Nat]

\* No step of this process leaves an active manifest with a missing or damaged
\* shard: if the last to activate the snapshot was a local commit, every shard
\* of it that the peer has not touched since is intact -- through commits in
\* any order with cleanups, failed and rolled back commits, and crashes.  (A
\* snapshot the peer activates is exempt: Sync may deliver a manifest before
\* its shards.)
Intact(m) == \A s \in Refs[m] \ peerShards : shard[s] = "good"
ActiveComplete == manifest \in Snapshots \ peerSnaps => Intact(manifest)

\* A cleanup is about to delete a file for good: unless the peer did something
\* since the last time the seals were read, neither the active manifest nor
\* any alternate manifest names it.
RemovesOnlyOrphans ==
    pc = "remove" /\ quiet =>
        /\ manifest \in Snapshots => target \notin Refs[manifest]
        /\ target \notin Protected(alternates)

\* A shard the incremental commit may accept from its stat alone
\* (verifyReusedShard) has the bytes its name promises.
CachedIsGood == \A s \in cached : shard[s] = "good"

\* The register a commit's caller sees (IndexV8Register).  A commit has looked
\* once it has found its base active, and is sure of its candidate from the
\* time it has read it back until it doubts the shards behind it.
Stage ==
    IF Committing
    THEN IF pc = "active" \/ (op = "full" /\ pc = "shards") THEN "asked"
         ELSE IF pc \in {"post", "postShards"} THEN "confirmed" ELSE "looked"
    ELSE IF result \in {"committed", "failed", "crashed"} THEN result ELSE "idle"

Request ==
    [base |-> base, new |-> cand,
     did  |-> IF published THEN "swapped" ELSE "nothing",
     undo |-> IF Stage \in {"looked", "confirmed"} THEN seen ELSE NoFile]

Register == INSTANCE IndexV8Register WITH
    Values <- Snapshots, Missing <- NoFile, Unreadable <- Invalid,
    PeerValues <- PeerManifests, value <- manifest, shared <- peerSnaps,
    request <- Request, stage <- Stage, faults <- left["faults"]

\* A full or incremental commit is a compare-and-swap of the active manifest:
\* for its caller it takes effect at once, only over the base it states, it
\* succeeds only if it was seen in effect, and it is undone when it fails,
\* although the code reads, compares, writes, reads back and rolls back at
\* separate awaits among a peer's changes, failing calls and crashes.
ImplementsRegister == Register!Spec

\* A commit that states its base never replaces a manifest other than that
\* base, except to undo its own write or to roll back bytes that no contract
\* accepts; the first activation alone may race with the peer in the rename
\* (createInitialManifest leaves that to the Sync layer).
OnlyBaseReplaced ==
    [][Committing /\ base # AnyBase /\ manifest # manifest'
         /\ pc # "create" /\ left'["peer"] = left["peer"]
       => manifest \in {base, cand, Invalid}]_vars

\* A commit that reports failure has taken back its manifest: if it had
\* activated its candidate, and a manifest was there before, the candidate is
\* no longer active, unless the peer activated it too or a call of the
\* rollback itself failed.
FailedCommitUndone ==
    [][Committing /\ op' = "none" /\ result' = "failed" /\ left' = left /\ published
         /\ manifest' = cand
       => seen = NoFile \/ cand \in peerSnaps]_vars

\* A commit that reports success left a snapshot that loads: with no peer step
\* since its manifest was read back, the candidate is active and every shard
\* of it is intact, whatever the peer did before.
CommittedLoads ==
    [][Committing /\ op' = "none" /\ result' = "committed" /\ quiet
       => manifest = cand /\ \A s \in Refs[cand] : shard[s] = "good"]_vars

\* Every transaction ends, and a cleanup goes through its files and ends.
CallsEnd == (op # "none" ~> op = "none") /\ (plan.at # "idle" ~> plan.at = "idle")
=============================================================================
