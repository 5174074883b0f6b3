--------------------------- MODULE IndexV8StoreProofs ---------------------------
(***************************************************************************)
(* Proofs about IndexV8Store for any set of snapshots and shards, any      *)
(* peer, and any number of transactions, peer changes and faults: the      *)
(* inductive invariant of IndexV8StoreInvariant and what follows from it.  *)
(***************************************************************************)
EXTENDS IndexV8StoreInvariant, TLAPS

\* The initial states have the types of TypeOK.
LEMMA TypeInit == Init => TypeOK
<1> SUFFICES ASSUME Init PROVE TypeOK
  OBVIOUS
<1> USE DEF Init
<1>1. /\ manifest \in Snapshots \cup {NoFile, Invalid, Newer}
      /\ alternates \subseteq Snapshots \cup {Invalid, Newer}
  OBVIOUS
<1>2. shard \in [Shards -> Files] /\ aged \subseteq Shards /\ claim \in Files
  BY DEF Files
<1>3. /\ verified \in Snapshots \cup {NoFile} /\ cached \subseteq Shards
      /\ loading \in [snapshot : Snapshots \cup {NoFile}, todo : SUBSET Shards]
  BY DEF NoLoad
<1>4. plan \in [at : {"idle", "list", "apply", "loop"},
                manifest : Snapshots \cup {NoFile},
                alternates : SUBSET (Snapshots \cup {Invalid, Newer}),
                files : SUBSET Shards, unchanged : SUBSET Shards]
  BY DEF NoPlan
<1>5. left \in [{"transactions", "peer", "faults"} -> Nat]
  BY PeerAssumption
<1> QED
  BY <1>1, <1>2, <1>3, <1>4, <1>5 DEF TypeOK, Labels

\* Every step of the store keeps every variable within its type.
LEMMA TypeStep == IInv /\ [Next]_vars => TypeOK'
<1> SUFFICES ASSUME IInv, [Next]_vars PROVE TypeOK'
  OBVIOUS
<1> USE DEF IInv
<1>a. ASSUME NEW c \in Snapshots, NEW b \in Snapshots \cup {NoFile, AnyBase}, BeginFull(b, c)
      PROVE TypeOK'
  <2>1. todo' \subseteq Shards
    BY <1>a, DataAssumption DEF BeginFull
  <2>2. left' \in [{"transactions", "peer", "faults"} -> Nat]
    BY <1>a DEF BeginFull, Spend, TypeOK
  <2>3. /\ base' \in Snapshots \cup {NoFile, AnyBase} /\ cand' \in Snapshots
        /\ seen' = NoFile /\ attempted' \in Snapshots
        /\ quiet' \in BOOLEAN /\ published' \in BOOLEAN
        /\ op' = "full" /\ pc' = "shards"
        /\ UNCHANGED <<disk, memory, loaded, target, result, peerSnaps, peerShards>>
    BY <1>a DEF BeginFull
  <2> QED
    BY <2>1, <2>2, <2>3 DEF TypeOK, Labels, disk, memory
<1>b. ASSUME NEW b \in Snapshots, NEW c \in Snapshots, BeginIncremental(b, c) PROVE TypeOK'
  <2>1. left' \in [{"transactions", "peer", "faults"} -> Nat]
    BY <1>b DEF BeginIncremental, Spend, TypeOK
  <2>2. /\ base' \in Snapshots /\ cand' \in Snapshots /\ todo' = {}
        /\ seen' \in Snapshots /\ attempted' \in Snapshots
        /\ quiet' \in BOOLEAN /\ published' \in BOOLEAN
        /\ op' = "incremental" /\ pc' = "active"
        /\ UNCHANGED <<disk, memory, loaded, target, result, peerSnaps, peerShards>>
    BY <1>b DEF BeginIncremental
  <2> QED
    BY <2>1, <2>2 DEF TypeOK, Labels, disk, memory
<1> USE DataAssumption, PeerAssumption DEF TypeOK, Files, Labels, disk, memory, tx, txData,
     history, Spend, Goto, Finish, Idle, Control, LabelsOf, Committing
<1>3. CASE BeginLoad
  BY <1>3 DEF BeginLoad
<1>4. CASE PlanManifest
  <2>1. plan' \in [at : {"idle", "list", "apply", "loop"}, manifest : Snapshots \cup {NoFile},
                  alternates : SUBSET (Snapshots \cup {Invalid, Newer}),
                  files : SUBSET Shards, unchanged : SUBSET Shards]
    BY <1>4 DEF PlanManifest, NoPlan
  <2>2. left' \in [{"transactions", "peer", "faults"} -> Nat]
    BY <1>4 DEF PlanManifest, NoPlan
  <2>3. UNCHANGED <<manifest, alternates, shard, aged, claim, verified, cached, loading, op,
       pc, base, cand, seen, attempted, loaded, todo, target, result, peerSnaps, peerShards,
       quiet, published>>
    BY <1>4 DEF PlanManifest, NoPlan
  <2> QED
    BY <2>1, <2>2, <2>3
<1>5. CASE ReadActive
  BY <1>5 DEF ReadActive
<1>6. CASE ReuseVerified
  BY <1>6 DEF ReuseVerified
<1>7. CASE ReadExisting
  BY <1>7 DEF ReadExisting
<1>8. CASE IncrementalShardsWritten
  BY <1>8 DEF IncrementalShardsWritten
<1>9. ASSUME NEW s \in Shards, VerifyReused(s) PROVE TypeOK'
  BY <1>9 DEF VerifyReused
<1>10. ASSUME NEW s \in Shards, CommitShard(s) PROVE TypeOK'
  BY <1>10 DEF CommitShard, Restat
<1>11. ASSUME NEW s \in Shards, PostflightShard(s) PROVE TypeOK'
  BY <1>11 DEF PostflightShard
<1>12. ASSUME NEW s \in Shards, PostflightFails(s) PROVE TypeOK'
  BY <1>12 DEF PostflightFails
<1>13. CASE ReplaceManifest
  <2>1. manifest' \in Snapshots \cup {NoFile, Invalid,
       Newer} /\ peerSnaps' \subseteq Snapshots /\ published' \in BOOLEAN
    BY <1>13 DEF ReplaceManifest, Publish
  <2>2. op' \in {"none", "full", "incremental", "cleanup"} /\ pc' \in Labels /\ result' = result
    BY <1>13 DEF ReplaceManifest, Publish
  <2>3. UNCHANGED <<alternates, shard, aged, claim, verified, cached, loading, plan, base,
       cand, seen, attempted, loaded, todo, target, peerShards, quiet, left>>
    BY <1>13 DEF ReplaceManifest, Publish
  <2> QED
    BY <2>1, <2>2, <2>3
<1>14. CASE RereadMissing
  BY <1>14 DEF RereadMissing
<1>15. CASE CreateManifest
  <2>1. manifest' \in Snapshots \cup {NoFile, Invalid,
       Newer} /\ peerSnaps' \subseteq Snapshots /\ published' \in BOOLEAN
    BY <1>15 DEF CreateManifest, Publish
  <2>2. op' \in {"none", "full", "incremental", "cleanup"} /\ pc' \in Labels /\ result' = result
    BY <1>15 DEF CreateManifest, Publish
  <2>3. UNCHANGED <<alternates, shard, aged, claim, verified, cached, loading, plan, base,
       cand, seen, attempted, loaded, todo, target, peerShards, quiet, left>>
    BY <1>15 DEF CreateManifest, Publish
  <2> QED
    BY <2>1, <2>2, <2>3
<1>16. CASE VerifyManifest
  <2>1. quiet' \in BOOLEAN /\ attempted' \in Snapshots \cup {NoFile, Invalid}
    BY <1>16 DEF VerifyManifest
  <2>2. op' \in {"none", "full", "incremental", "cleanup"} /\ pc' \in Labels /\ result' = result
    BY <1>16 DEF VerifyManifest
  <2>3. UNCHANGED <<manifest, alternates, shard, aged, claim, verified, cached, loading, plan,
       base, cand, seen, loaded, todo, target, peerSnaps, peerShards, published, left>>
    BY <1>16 DEF VerifyManifest
  <2> QED
    BY <2>1, <2>2, <2>3
<1>17. CASE RestoreManifest
  BY <1>17 DEF RestoreManifest, Restored
<1>18. CASE BeginPostflight
  BY <1>18 DEF BeginPostflight, PostflightKnows
<1>19. CASE EndPostflight
  BY <1>19 DEF EndPostflight
<1>20. CASE PlanFiles
  <2>1. plan' \in [at : {"idle", "list", "apply", "loop"}, manifest : Snapshots \cup {NoFile},
                  alternates : SUBSET (Snapshots \cup {Invalid, Newer}),
                  files : SUBSET Shards, unchanged : SUBSET Shards]
    <3>1. \/ plan' = NoPlan
          \/ \E F \in SUBSET Eligible :
               plan' = [plan EXCEPT !.at = "apply", !.alternates = alternates,
                                    !.files = F, !.unchanged = F]
      BY <1>20 DEF PlanFiles
    <3>2. Eligible \subseteq Shards
      BY DEF Eligible
    <3>3. CASE plan' = NoPlan
      BY <3>3 DEF NoPlan
    <3>4. ASSUME NEW F \in SUBSET Eligible,
                 plan' = [plan EXCEPT !.at = "apply", !.alternates = alternates,
                                      !.files = F, !.unchanged = F]
          PROVE plan' \in [at : {"idle", "list", "apply", "loop"},
               manifest : Snapshots \cup {NoFile},
                           alternates : SUBSET (Snapshots \cup {Invalid, Newer}),
                           files : SUBSET Shards, unchanged : SUBSET Shards]
      BY <3>2, <3>4
    <3> QED
      BY <3>1, <3>3, <3>4
  <2>2. UNCHANGED <<manifest, alternates, shard, aged, claim, verified, cached, loading, op,
       pc, base, cand, seen, attempted, loaded, todo, target, result, peerSnaps, peerShards,
       quiet, published, left>>
    BY <1>20 DEF PlanFiles, NoPlan, Eligible
  <2> QED
    BY <2>1, <2>2
<1>21. CASE ApplyPlan
  BY <1>21 DEF ApplyPlan, NoPlan
<1>22. CASE EndCleanup
  BY <1>22 DEF EndCleanup, NoPlan
<1>23. ASSUME NEW s \in Shards, BeginCandidate(s) PROVE TypeOK'
  BY <1>23 DEF BeginCandidate
<1>24. CASE CheckSeal
  <2>1. plan' \in [at : {"idle", "list", "apply", "loop"}, manifest : Snapshots \cup {NoFile},
                  alternates : SUBSET (Snapshots \cup {Invalid, Newer}),
                  files : SUBSET Shards, unchanged : SUBSET Shards]
    BY <1>24 DEF CheckSeal, SealLabel, StopCleanup, NoPlan
  <2>2. /\ op' \in {"none", "full", "incremental", "cleanup"} /\ pc' \in Labels
        /\ result' \in {"none", "committed", "failed", "stopped", "next", "crashed"}
    BY <1>24 DEF CheckSeal, SealLabel, StopCleanup
  <2>3. quiet' \in BOOLEAN
    BY <1>24, Zenon DEF CheckSeal
  <2>4. UNCHANGED <<manifest, alternates, shard, aged, claim, verified, cached, loading, base,
                    cand, seen, attempted, loaded, todo, target, peerSnaps, peerShards,
                    published, left>>
    BY <1>24 DEF CheckSeal
  <2> QED
    BY <2>1, <2>2, <2>3, <2>4
<1>25. CASE InspectCandidate
  BY <1>25 DEF InspectCandidate, NextFile
<1>26. CASE ClaimShard
  <2>1. shard' \in [Shards -> Files] /\ claim' \in Files /\ cached' \subseteq Shards
    BY <1>26 DEF ClaimShard, StopCleanup, NoPlan, Restat, PlanSound
  <2>2. plan' \in [at : {"idle", "list", "apply", "loop"}, manifest : Snapshots \cup {NoFile},
                  alternates : SUBSET (Snapshots \cup {Invalid, Newer}),
                  files : SUBSET Shards, unchanged : SUBSET Shards]
    BY <1>26 DEF ClaimShard, StopCleanup, NoPlan, Restat
  <2>3. op' \in {"none", "full", "incremental",
       "cleanup"} /\ pc' \in Labels /\ result' \in {"none", "committed", "failed", "stopped",
       "next", "crashed"}
    BY <1>26 DEF ClaimShard, StopCleanup, NoPlan, Restat
  <2>4. UNCHANGED <<manifest, alternates, aged, verified, loading, base, cand, seen, attempted,
       loaded, todo, target, peerSnaps, peerShards, quiet, published, left>>
    BY <1>26 DEF ClaimShard, StopCleanup, NoPlan, Restat
  <2> QED
    BY <2>1, <2>2, <2>3, <2>4
<1>27. CASE RemoveClaim
  BY <1>27 DEF RemoveClaim, NextFile
<1>c. CASE CheckRemoved
  BY <1>c DEF CheckRemoved, NextFile, StopCleanup, NoPlan
<1>28. CASE RestoreClaim
  <2>1. shard' \in [Shards -> Files] /\ claim' \in Files
    BY <1>28 DEF RestoreClaim, StopCleanup, NoPlan
  <2>2. plan' \in [at : {"idle", "list", "apply", "loop"}, manifest : Snapshots \cup {NoFile},
                  alternates : SUBSET (Snapshots \cup {Invalid, Newer}),
                  files : SUBSET Shards, unchanged : SUBSET Shards]
    BY <1>28 DEF RestoreClaim, StopCleanup, NoPlan
  <2>3. op' \in {"none", "full", "incremental",
       "cleanup"} /\ pc' \in Labels /\ result' \in {"none", "committed", "failed", "stopped",
       "next", "crashed"}
    BY <1>28 DEF RestoreClaim, StopCleanup, NoPlan
  <2>4. UNCHANGED <<manifest, alternates, aged, verified, cached, loading, base, cand, seen,
       attempted, loaded, todo, target, peerSnaps, peerShards, quiet, published, left>>
    BY <1>28 DEF RestoreClaim, StopCleanup, NoPlan
  <2> QED
    BY <2>1, <2>2, <2>3, <2>4
<1>29. CASE EndLoad
  BY <1>29 DEF EndLoad, NoLoad
<1>30. ASSUME NEW s \in Shards, LoadShard(s) PROVE TypeOK'
  BY <1>30 DEF LoadShard, NoLoad
<1>31. CASE CommitFault
  <2>1. left' \in [{"transactions", "peer", "faults"} -> Nat]
    BY <1>31 DEF CommitFault, Publish, Committing
  <2>2. manifest' \in Snapshots \cup {NoFile, Invalid,
       Newer} /\ peerSnaps' \subseteq Snapshots /\ published' \in BOOLEAN
    BY <1>31 DEF CommitFault, Publish, Committing
  <2>3. op' \in {"none", "full", "incremental",
       "cleanup"} /\ pc' \in Labels /\ result' \in {"none", "committed", "failed", "stopped",
       "next", "crashed"}
    BY <1>31 DEF CommitFault, Publish, Committing
  <2>4. UNCHANGED <<alternates, shard, aged, claim, verified, cached, loading, plan, base,
       cand, seen, attempted, loaded, todo, target, peerShards, quiet>>
    BY <1>31 DEF CommitFault, Publish, Committing
  <2> QED
    BY <2>1, <2>2, <2>3, <2>4
<1>32. CASE CleanupFault
  BY <1>32 DEF CleanupFault, StopCleanup, NoPlan
<1>33. CASE Crash
  BY <1>33 DEF Crash, NoLoad, NoPlan
<1>34. ASSUME NEW m \in PeerManifests, PeerManifest(m) PROVE TypeOK'
  <2>1. left' \in [{"transactions", "peer", "faults"} -> Nat]
    BY <1>34 DEF PeerManifest
  <2>2. manifest' \in Snapshots \cup {NoFile, Invalid,
       Newer} /\ peerSnaps' \subseteq Snapshots /\ quiet' \in BOOLEAN
    BY <1>34 DEF PeerManifest
  <2>3. UNCHANGED <<alternates, shard, aged, claim, verified, cached, loading, plan, op, pc,
       base, cand, seen, attempted, loaded, todo, target, result, peerShards, published>>
    BY <1>34 DEF PeerManifest
  <2> QED
    BY <2>1, <2>2, <2>3
<1>35. ASSUME NEW m \in PeerAlternates, PeerAlternate(m) PROVE TypeOK'
  <2>1. left' \in [{"transactions", "peer", "faults"} -> Nat]
    BY <1>35 DEF PeerAlternate
  <2>2. alternates' \subseteq Snapshots \cup {Invalid, Newer} /\ quiet' \in BOOLEAN
    <3>1. m \in Snapshots \cup {Invalid, Newer}
      BY <1>35
    <3>2. alternates' = alternates \ {m} \/ alternates' = alternates \cup {m}
      BY <1>35 DEF PeerAlternate
    <3>3. quiet' = FALSE
      BY <1>35 DEF PeerAlternate
    <3> QED
      BY <3>1, <3>2, <3>3
  <2>3. UNCHANGED <<manifest, shard, aged, claim, verified, cached, loading, plan, op, pc,
       base, cand, seen, attempted, loaded, todo, target, result, peerSnaps, peerShards,
       published>>
    BY <1>35 DEF PeerAlternate
  <2> QED
    BY <2>1, <2>2, <2>3
<1>36. ASSUME NEW s \in PeerShards, NEW f \in Files, PeerShard(s, f) PROVE TypeOK'
  <2>1. left' \in [{"transactions", "peer", "faults"} -> Nat]
    BY <1>36 DEF PeerShard, Restat
  <2>2. shard' \in [Shards -> Files] /\ aged' \subseteq Shards /\ cached' \subseteq Shards
    BY <1>36 DEF PeerShard, Restat
  <2>3. plan' \in [at : {"idle", "list", "apply", "loop"}, manifest : Snapshots \cup {NoFile},
                  alternates : SUBSET (Snapshots \cup {Invalid, Newer}),
                  files : SUBSET Shards, unchanged : SUBSET Shards]
    BY <1>36 DEF PeerShard, Restat
  <2>4. peerShards' \subseteq Shards /\ quiet' \in BOOLEAN
    BY <1>36 DEF PeerShard, Restat
  <2>5. UNCHANGED <<manifest, alternates, claim, verified, loading, op, pc, base, cand, seen,
       attempted, loaded, todo, target, result, peerSnaps, published>>
    BY <1>36 DEF PeerShard, Restat
  <2> QED
    BY <2>1, <2>2, <2>3, <2>4, <2>5
<1>37. ASSUME NEW s \in Shards, Age(s) PROVE TypeOK'
  BY <1>37 DEF Age
<1>38. CASE UNCHANGED vars
  BY <1>38 DEF vars
<1> QED
  BY <1>a, <1>b, <1>c, <1>3, <1>4, <1>5, <1>6, <1>7, <1>8, <1>9, <1>10, <1>11, <1>12, <1>13,
       <1>14, <1>15, <1>16, <1>17, <1>18, <1>19, <1>20, <1>21, <1>22, <1>23, <1>24, <1>25,
       <1>26, <1>27, <1>28, <1>29, <1>30, <1>31, <1>32, <1>33, <1>34, <1>35, <1>36, <1>37,
       <1>38 DEF Next, LocalStep, PeerStep, BeginStep, CommitStep, CleanupStep, LoadStep

\* Every step of the store preserves the inductive invariant.
LEMMA InvariantStep == IInv /\ [Next]_vars => IInv'
<1> SUFFICES ASSUME IInv, [Next]_vars PROVE IInv'
  OBVIOUS
<1>t. TypeOK'
  BY TypeStep DEF IInv
<1> USE DEF IInv
<1>1. ASSUME NEW c \in Snapshots, NEW b \in Snapshots \cup {NoFile, AnyBase},
     BeginFull(b, c) PROVE IInv'
  <2>1. /\ ActiveComplete' /\ CachedIsGood'
    BY <1>1 DEF BeginFull, disk, memory, tx, txData, history, ActiveComplete, Intact,
         CachedIsGood
  <2>2. Control'
    BY <1>1, DataAssumption DEF BeginFull, Spend, Idle, TypeOK, Control, LabelsOf, Committing,
         disk, memory, tx, txData, history
  <2>3. CandidateShards'
    BY <1>1, DataAssumption DEF BeginFull, Spend, Idle, TypeOK, Control, LabelsOf, Committing,
         CandidateShards, Intact, disk, memory, tx, txData, history
  <2>4. RollbackIntact'
    BY <1>1, DataAssumption DEF BeginFull, Spend, Idle, TypeOK, Control, LabelsOf, Committing,
         RollbackIntact, Intact, disk, memory, tx, txData, history
  <2>5. RollbackKnows'
    BY <1>1, DataAssumption DEF BeginFull, Spend, Idle, TypeOK, Control, LabelsOf, Committing,
         RollbackKnows, disk, memory, tx, txData, history
  <2>6. PostflightKnows'
    BY <1>1, DataAssumption DEF BeginFull, Spend, Idle, TypeOK, Control, LabelsOf, Committing,
         PostflightKnows, disk, memory, tx, txData, history
  <2>7. PlanSound'
    BY <1>1, DataAssumption DEF BeginFull, Spend, Idle, TypeOK, Control, LabelsOf, Committing,
         PlanSound, Protected, disk, memory, tx, txData, history
  <2>8. SealHolds'
    BY <1>1, DataAssumption DEF BeginFull, Spend, Idle, TypeOK, Control, LabelsOf, Committing,
         SealHolds, disk, memory, tx, txData, history
  <2> QED
    BY <1>t, <2>1, <2>2, <2>3, <2>4, <2>5, <2>6, <2>7, <2>8
<1>2. ASSUME NEW b \in Snapshots, NEW c \in Snapshots, BeginIncremental(b, c) PROVE IInv'
  <2>1. /\ ActiveComplete' /\ CachedIsGood'
    BY <1>2 DEF BeginIncremental, disk, memory, tx, txData, history, ActiveComplete, Intact,
         CachedIsGood
  <2>2. Control'
    BY <1>2, DataAssumption DEF BeginIncremental, Spend, Idle, TypeOK, Control, LabelsOf,
         Committing, disk, memory, tx, txData, history
  <2>3. CandidateShards'
    BY <1>2, DataAssumption DEF BeginIncremental, Spend, Idle, TypeOK, Control, LabelsOf,
         Committing, CandidateShards, Intact, disk, memory, tx, txData, history
  <2>4. RollbackIntact'
    BY <1>2, DataAssumption DEF BeginIncremental, Spend, Idle, TypeOK, Control, LabelsOf,
         Committing, RollbackIntact, Intact, disk, memory, tx, txData, history
  <2>5. RollbackKnows'
    BY <1>2, DataAssumption DEF BeginIncremental, Spend, Idle, TypeOK, Control, LabelsOf,
         Committing, RollbackKnows, disk, memory, tx, txData, history
  <2>6. PostflightKnows'
    BY <1>2, DataAssumption DEF BeginIncremental, Spend, Idle, TypeOK, Control, LabelsOf,
         Committing, PostflightKnows, disk, memory, tx, txData, history
  <2>7. PlanSound'
    BY <1>2, DataAssumption DEF BeginIncremental, Spend, Idle, TypeOK, Control, LabelsOf,
         Committing, PlanSound, Protected, disk, memory, tx, txData, history
  <2>8. SealHolds'
    BY <1>2, DataAssumption DEF BeginIncremental, Spend, Idle, TypeOK, Control, LabelsOf,
         Committing, SealHolds, disk, memory, tx, txData, history
  <2> QED
    BY <1>t, <2>1, <2>2, <2>3, <2>4, <2>5, <2>6, <2>7, <2>8
<1>3. CASE BeginLoad
  <2>1. /\ Control' /\ ActiveComplete' /\ CachedIsGood' /\ CandidateShards'
        /\ RollbackIntact' /\ RollbackKnows' /\ PostflightKnows' /\ PlanSound'
        /\ SealHolds'
    BY <1>3 DEF BeginLoad, disk, memory, tx, txData, history, Control, LabelsOf, Committing,
         ActiveComplete, Intact, CachedIsGood, CandidateShards, RollbackIntact, RollbackKnows,
         PostflightKnows, PlanSound, Protected, SealHolds
  <2> QED
    BY <1>t, <2>1
<1>4. CASE PlanManifest
  <2>1. /\ Control' /\ ActiveComplete' /\ CachedIsGood' /\ CandidateShards'
        /\ RollbackIntact' /\ RollbackKnows' /\ PostflightKnows'
    BY <1>4 DEF PlanManifest, disk, memory, tx, txData, history, Control, LabelsOf, Committing,
         ActiveComplete, Intact, CachedIsGood, CandidateShards, RollbackIntact, RollbackKnows,
         PostflightKnows
  <2>2. PlanSound'
    BY <1>4, DataAssumption DEF PlanManifest, Spend, NoPlan, TypeOK, Control, LabelsOf,
         Committing, PlanSound, Protected, disk, memory, tx, txData, history
  <2>3. SealHolds'
    BY <1>4, DataAssumption DEF PlanManifest, Spend, NoPlan, TypeOK, Control, LabelsOf,
         Committing, SealHolds, PlanSound, disk, memory, tx, txData, history
  <2> QED
    BY <1>t, <2>1, <2>2, <2>3
<1>5. CASE ReadActive
  <2>1. /\ ActiveComplete' /\ CachedIsGood'
    BY <1>5 DEF ReadActive, disk, memory, tx, txData, history, Goto, Finish, ActiveComplete,
         Intact, CachedIsGood
  <2>2. Control'
    BY <1>5, DataAssumption DEF ReadActive, Goto, Finish, TypeOK, Control, LabelsOf,
         Committing, disk, memory, tx, txData, history
  <2>3. CandidateShards'
    BY <1>5, DataAssumption DEF ReadActive, Goto, Finish, TypeOK, Control, LabelsOf,
         Committing, CandidateShards, Intact, disk, memory, tx, txData, history
  <2>4. RollbackIntact'
    BY <1>5, DataAssumption DEF ReadActive, Goto, Finish, TypeOK, Control, LabelsOf,
         Committing, RollbackIntact, ActiveComplete, RollbackKnows, Intact, disk, memory, tx,
         txData, history
  <2>5. RollbackKnows'
    BY <1>5, DataAssumption DEF ReadActive, Goto, Finish, TypeOK, Control, LabelsOf,
         Committing, RollbackKnows, disk, memory, tx, txData, history
  <2>6. PostflightKnows'
    BY <1>5, DataAssumption DEF ReadActive, Goto, Finish, TypeOK, Control, LabelsOf,
         Committing, PostflightKnows, disk, memory, tx, txData, history
  <2>7. PlanSound'
    BY <1>5, DataAssumption DEF ReadActive, Goto, Finish, TypeOK, Control, LabelsOf,
         Committing, PlanSound, Protected, disk, memory, tx, txData, history
  <2>8. SealHolds'
    BY <1>5, DataAssumption DEF ReadActive, Goto, Finish, TypeOK, Control, LabelsOf,
         Committing, SealHolds, disk, memory, tx, txData, history
  <2> QED
    BY <1>t, <2>1, <2>2, <2>3, <2>4, <2>5, <2>6, <2>7, <2>8
<1>6. CASE ReuseVerified
  <2>1. /\ ActiveComplete' /\ CachedIsGood' /\ PlanSound'
    BY <1>6 DEF ReuseVerified, disk, memory, tx, txData, history, Goto, ActiveComplete, Intact,
         CachedIsGood, PlanSound, Protected
  <2>2. Control'
    BY <1>6, DataAssumption DEF ReuseVerified, Goto, TypeOK, Control, LabelsOf, Committing,
         disk, memory, tx, txData, history
  <2>3. CandidateShards'
    BY <1>6, DataAssumption DEF ReuseVerified, Goto, TypeOK, Control, LabelsOf, Committing,
         CandidateShards, Intact, disk, memory, tx, txData, history
  <2>4. RollbackIntact'
    BY <1>6, DataAssumption DEF ReuseVerified, Goto, TypeOK, Control, LabelsOf, Committing,
         RollbackIntact, Intact, disk, memory, tx, txData, history
  <2>5. RollbackKnows'
    BY <1>6, DataAssumption DEF ReuseVerified, Goto, TypeOK, Control, LabelsOf, Committing,
         RollbackKnows, disk, memory, tx, txData, history
  <2>6. PostflightKnows'
    BY <1>6, DataAssumption DEF ReuseVerified, Goto, TypeOK, Control, LabelsOf, Committing,
         PostflightKnows, disk, memory, tx, txData, history
  <2>7. SealHolds'
    BY <1>6, DataAssumption DEF ReuseVerified, Goto, TypeOK, Control, LabelsOf, Committing,
         SealHolds, disk, memory, tx, txData, history
  <2> QED
    BY <1>t, <2>1, <2>2, <2>3, <2>4, <2>5, <2>6, <2>7
<1>7. CASE ReadExisting
  <2>1. /\ ActiveComplete' /\ CachedIsGood'
    BY <1>7 DEF ReadExisting, disk, memory, tx, txData, history, Goto, Finish, ActiveComplete,
         Intact, CachedIsGood
  <2>2. Control'
    BY <1>7, DataAssumption DEF ReadExisting, Goto, Finish, TypeOK, Control, LabelsOf,
         Committing, disk, memory, tx, txData, history
  <2>3. CandidateShards'
    BY <1>7, DataAssumption DEF ReadExisting, Goto, Finish, TypeOK, Control, LabelsOf,
         Committing, CandidateShards, Intact, disk, memory, tx, txData, history
  <2>4. RollbackIntact'
    BY <1>7, DataAssumption DEF ReadExisting, Goto, Finish, TypeOK, Control, LabelsOf,
         Committing, RollbackIntact, ActiveComplete, RollbackKnows, Intact, disk, memory, tx,
         txData, history
  <2>5. RollbackKnows'
    BY <1>7, DataAssumption DEF ReadExisting, Goto, Finish, TypeOK, Control, LabelsOf,
         Committing, RollbackKnows, disk, memory, tx, txData, history
  <2>6. PostflightKnows'
    BY <1>7, DataAssumption DEF ReadExisting, Goto, Finish, TypeOK, Control, LabelsOf,
         Committing, PostflightKnows, disk, memory, tx, txData, history
  <2>7. PlanSound'
    BY <1>7, DataAssumption DEF ReadExisting, Goto, Finish, TypeOK, Control, LabelsOf,
         Committing, PlanSound, Protected, disk, memory, tx, txData, history
  <2>8. SealHolds'
    BY <1>7, DataAssumption DEF ReadExisting, Goto, Finish, TypeOK, Control, LabelsOf,
         Committing, SealHolds, disk, memory, tx, txData, history
  <2> QED
    BY <1>t, <2>1, <2>2, <2>3, <2>4, <2>5, <2>6, <2>7, <2>8
<1>8. CASE IncrementalShardsWritten
  <2>1. /\ ActiveComplete' /\ CachedIsGood' /\ PlanSound'
    BY <1>8 DEF IncrementalShardsWritten, disk, memory, tx, txData, history, Goto,
         ActiveComplete, Intact, CachedIsGood, PlanSound, Protected
  <2>2. Control'
    BY <1>8, DataAssumption DEF IncrementalShardsWritten, Goto, TypeOK, Control, LabelsOf,
         Committing, disk, memory, tx, txData, history
  <2>3. CandidateShards'
    BY <1>8, DataAssumption DEF IncrementalShardsWritten, Goto, TypeOK, Control, LabelsOf,
         Committing, CandidateShards, Intact, disk, memory, tx, txData, history
  <2>4. RollbackIntact'
    BY <1>8, DataAssumption DEF IncrementalShardsWritten, Goto, TypeOK, Control, LabelsOf,
         Committing, RollbackIntact, Intact, disk, memory, tx, txData, history
  <2>5. RollbackKnows'
    BY <1>8, DataAssumption DEF IncrementalShardsWritten, Goto, TypeOK, Control, LabelsOf,
         Committing, RollbackKnows, disk, memory, tx, txData, history
  <2>6. PostflightKnows'
    BY <1>8, DataAssumption DEF IncrementalShardsWritten, Goto, TypeOK, Control, LabelsOf,
         Committing, PostflightKnows, disk, memory, tx, txData, history
  <2>7. SealHolds'
    BY <1>8, DataAssumption DEF IncrementalShardsWritten, Goto, TypeOK, Control, LabelsOf,
         Committing, SealHolds, disk, memory, tx, txData, history
  <2> QED
    BY <1>t, <2>1, <2>2, <2>3, <2>4, <2>5, <2>6, <2>7
<1>9. ASSUME NEW s \in Shards, VerifyReused(s) PROVE IInv'
  <2>2. Control'
    BY <1>9, DataAssumption DEF VerifyReused, Reusable, Finish, TypeOK, Control, LabelsOf,
         Committing, disk, memory, tx, txData, history
  <2>3. ActiveComplete'
    BY <1>9, DataAssumption DEF VerifyReused, Reusable, Finish, TypeOK, Control, LabelsOf,
         Committing, ActiveComplete, CachedIsGood, Intact, disk, memory, tx, txData, history
  <2>4. CachedIsGood'
    BY <1>9, DataAssumption DEF VerifyReused, Reusable, Finish, TypeOK, Control, LabelsOf,
         Committing, CachedIsGood, disk, memory, tx, txData, history
  <2>5. CandidateShards'
    BY <1>9, DataAssumption DEF VerifyReused, Reusable, Finish, TypeOK, Control, LabelsOf,
         Committing, CandidateShards, CachedIsGood, Intact, disk, memory, tx, txData, history
  <2>6. RollbackIntact'
    BY <1>9, DataAssumption DEF VerifyReused, Reusable, Finish, TypeOK, Control, LabelsOf,
         Committing, RollbackIntact, CachedIsGood, Intact, disk, memory, tx, txData, history
  <2>7. RollbackKnows'
    BY <1>9, DataAssumption DEF VerifyReused, Reusable, Finish, TypeOK, Control, LabelsOf,
         Committing, RollbackKnows, disk, memory, tx, txData, history
  <2>8. PostflightKnows'
    BY <1>9, DataAssumption DEF VerifyReused, Reusable, Finish, TypeOK, Control, LabelsOf,
         Committing, PostflightKnows, disk, memory, tx, txData, history
  <2>9. PlanSound'
    BY <1>9, DataAssumption DEF VerifyReused, Reusable, Finish, TypeOK, Control, LabelsOf,
         Committing, PlanSound, Protected, disk, memory, tx, txData, history
  <2>10. SealHolds'
    BY <1>9, DataAssumption DEF VerifyReused, Reusable, Finish, TypeOK, Control, LabelsOf,
         Committing, SealHolds, disk, memory, tx, txData, history
  <2> QED
    BY <1>t, <2>2, <2>3, <2>4, <2>5, <2>6, <2>7, <2>8, <2>9, <2>10
<1>10. ASSUME NEW s \in Shards, CommitShard(s) PROVE IInv'
  <2>k. /\ pc' # "idle" => shard'[s] = "good"
        /\ \A t \in Shards \ peerShards' : t \in peerShards \/ shard[t] = "good" => shard'[t] = "good"
    <3>1. CASE shard[s] = "absent"
      BY <3>1, <1>10 DEF CommitShard, Finish, TypeOK, Files
    <3>2. CASE shard[s] = "good"
      BY <3>2, <1>10 DEF CommitShard, Finish, TypeOK, Files
    <3>3. CASE shard[s] \notin {"absent", "good"}
      BY <3>3, <1>10 DEF CommitShard, Finish, TypeOK, Files
    <3> QED
      BY <3>1, <3>2, <3>3
  <2>2. Control'
    BY <1>10, DataAssumption DEF CommitShard, Restat, Finish, TypeOK, Control, LabelsOf,
         Committing, disk, memory, tx, txData, history
  <2>3. ActiveComplete'
    BY <1>10, DataAssumption, <2>k DEF CommitShard, Restat, Finish, TypeOK, Control, LabelsOf,
         Committing, ActiveComplete, Intact, disk, memory, tx, txData, history
  <2>4. CachedIsGood'
    BY <1>10, DataAssumption DEF CommitShard, Restat, Finish, TypeOK, Control, LabelsOf,
         Committing, CachedIsGood, disk, memory, tx, txData, history
  <2>5. CandidateShards'
    BY <1>10, DataAssumption, <2>k DEF CommitShard, Restat, Finish, TypeOK, Control, LabelsOf,
         Committing, CandidateShards, Intact, disk, memory, tx, txData, history
  <2>6. RollbackIntact'
    BY <1>10, DataAssumption, <2>k DEF CommitShard, Restat, Finish, TypeOK, Control, LabelsOf,
         Committing, RollbackIntact, Intact, disk, memory, tx, txData, history
  <2>7. RollbackKnows'
    BY <1>10, DataAssumption DEF CommitShard, Restat, Finish, TypeOK, Control, LabelsOf,
         Committing, RollbackKnows, disk, memory, tx, txData, history
  <2>8. PostflightKnows'
    BY <1>10, DataAssumption DEF CommitShard, Restat, Finish, TypeOK, Control, LabelsOf,
         Committing, PostflightKnows, disk, memory, tx, txData, history
  <2>9. PlanSound'
    BY <1>10, DataAssumption DEF CommitShard, Restat, Finish, TypeOK, Control, LabelsOf,
         Committing, PlanSound, Protected, disk, memory, tx, txData, history
  <2>10. SealHolds'
    BY <1>10, DataAssumption DEF CommitShard, Restat, Finish, TypeOK, Control, LabelsOf,
         Committing, SealHolds, disk, memory, tx, txData, history
  <2> QED
    BY <1>t, <2>2, <2>3, <2>4, <2>5, <2>6, <2>7, <2>8, <2>9, <2>10
<1>11. ASSUME NEW s \in Shards, PostflightShard(s) PROVE IInv'
  <2>1. /\ Control' /\ RollbackKnows' /\ PlanSound' /\ SealHolds'
    BY <1>11 DEF PostflightShard, disk, memory, tx, txData, history, Control, LabelsOf,
         Committing, RollbackKnows, PlanSound, Protected, SealHolds
  <2>2. ActiveComplete'
    BY <1>11, DataAssumption DEF PostflightShard, Readable, ReusedHere, Reusable, TypeOK,
         Control, LabelsOf, Committing, ActiveComplete, CachedIsGood, Intact, disk, memory, tx,
         txData, history
  <2>3. CachedIsGood'
    BY <1>11, DataAssumption DEF PostflightShard, Readable, ReusedHere, Reusable, TypeOK,
         Control, LabelsOf, Committing, CachedIsGood, disk, memory, tx, txData, history
  <2>4. CandidateShards'
    BY <1>11, DataAssumption DEF PostflightShard, Readable, ReusedHere, Reusable, TypeOK,
         Control, LabelsOf, Committing, CandidateShards, Intact, disk, memory, tx, txData,
         history
  <2>5. RollbackIntact'
    BY <1>11, DataAssumption DEF PostflightShard, Readable, ReusedHere, Reusable, TypeOK,
         Control, LabelsOf, Committing, RollbackIntact, CachedIsGood, Intact, disk, memory, tx,
         txData, history
  <2>6. PostflightKnows'
    BY <1>11, DataAssumption DEF PostflightShard, Readable, ReusedHere, Reusable, TypeOK,
         Control, LabelsOf, Committing, PostflightKnows, CachedIsGood, disk, memory, tx,
         txData, history
  <2> QED
    BY <1>t, <2>1, <2>2, <2>3, <2>4, <2>5, <2>6
<1>12. ASSUME NEW s \in Shards, PostflightFails(s) PROVE IInv'
  <2>1. /\ ActiveComplete' /\ CachedIsGood' /\ PlanSound'
    BY <1>12 DEF PostflightFails, disk, memory, tx, txData, history, Goto, ActiveComplete,
         Intact, CachedIsGood, PlanSound, Protected
  <2>2. Control'
    BY <1>12, DataAssumption DEF PostflightFails, Goto, TypeOK, Control, LabelsOf, Committing,
         disk, memory, tx, txData, history
  <2>3. CandidateShards'
    BY <1>12, DataAssumption DEF PostflightFails, Goto, TypeOK, Control, LabelsOf, Committing,
         CandidateShards, Intact, disk, memory, tx, txData, history
  <2>4. RollbackIntact'
    BY <1>12, DataAssumption DEF PostflightFails, Goto, TypeOK, Control, LabelsOf, Committing,
         RollbackIntact, Intact, disk, memory, tx, txData, history
  <2>5. RollbackKnows'
    BY <1>12, DataAssumption DEF PostflightFails, Goto, TypeOK, Control, LabelsOf, Committing,
         RollbackKnows, disk, memory, tx, txData, history
  <2>6. PostflightKnows'
    BY <1>12, DataAssumption DEF PostflightFails, Goto, TypeOK, Control, LabelsOf, Committing,
         PostflightKnows, disk, memory, tx, txData, history
  <2>7. SealHolds'
    BY <1>12, DataAssumption DEF PostflightFails, Goto, TypeOK, Control, LabelsOf, Committing,
         SealHolds, disk, memory, tx, txData, history
  <2> QED
    BY <1>t, <2>1, <2>2, <2>3, <2>4, <2>5, <2>6, <2>7
<1>13. CASE ReplaceManifest
  <2>1. /\ CachedIsGood' /\ PlanSound'
    BY <1>13 DEF ReplaceManifest, disk, memory, tx, txData, history, Goto, CachedIsGood,
         PlanSound, Protected
  <2>2. Control'
    BY <1>13, DataAssumption DEF ReplaceManifest, Publish, Goto, TypeOK, Control, LabelsOf,
         Committing, disk, memory, tx, txData, history
  <2>3. ActiveComplete'
    BY <1>13, DataAssumption DEF ReplaceManifest, Publish, Goto, TypeOK, Control, LabelsOf,
         Committing, ActiveComplete, CandidateShards, Intact, disk, memory, tx, txData, history
  <2>4. CandidateShards'
    BY <1>13, DataAssumption DEF ReplaceManifest, Publish, Goto, TypeOK, Control, LabelsOf,
         Committing, CandidateShards, Intact, disk, memory, tx, txData, history
  <2>5. RollbackIntact'
    BY <1>13, DataAssumption DEF ReplaceManifest, Publish, Goto, TypeOK, Control, LabelsOf,
         Committing, RollbackIntact, CandidateShards, RollbackKnows, Intact, disk, memory, tx,
         txData, history
  <2>6. RollbackKnows'
    BY <1>13, DataAssumption DEF ReplaceManifest, Publish, Goto, TypeOK, Control, LabelsOf,
         Committing, RollbackKnows, disk, memory, tx, txData, history
  <2>7. PostflightKnows'
    BY <1>13, DataAssumption DEF ReplaceManifest, Publish, Goto, TypeOK, Control, LabelsOf,
         Committing, PostflightKnows, disk, memory, tx, txData, history
  <2>8. SealHolds'
    BY <1>13, DataAssumption DEF ReplaceManifest, Publish, Goto, TypeOK, Control, LabelsOf,
         Committing, SealHolds, disk, memory, tx, txData, history
  <2> QED
    BY <1>t, <2>1, <2>2, <2>3, <2>4, <2>5, <2>6, <2>7, <2>8
<1>14. CASE RereadMissing
  <2>1. /\ ActiveComplete' /\ CachedIsGood' /\ PlanSound'
    BY <1>14 DEF RereadMissing, disk, memory, tx, txData, history, Goto, ActiveComplete,
         Intact, CachedIsGood, PlanSound, Protected
  <2>2. Control'
    BY <1>14, DataAssumption DEF RereadMissing, Goto, TypeOK, Control, LabelsOf, Committing,
         disk, memory, tx, txData, history
  <2>3. CandidateShards'
    BY <1>14, DataAssumption DEF RereadMissing, Goto, TypeOK, Control, LabelsOf, Committing,
         CandidateShards, Intact, disk, memory, tx, txData, history
  <2>4. RollbackIntact'
    BY <1>14, DataAssumption DEF RereadMissing, Goto, TypeOK, Control, LabelsOf, Committing,
         RollbackIntact, Intact, disk, memory, tx, txData, history
  <2>5. RollbackKnows'
    BY <1>14, DataAssumption DEF RereadMissing, Goto, TypeOK, Control, LabelsOf, Committing,
         RollbackKnows, disk, memory, tx, txData, history
  <2>6. PostflightKnows'
    BY <1>14, DataAssumption DEF RereadMissing, Goto, TypeOK, Control, LabelsOf, Committing,
         PostflightKnows, disk, memory, tx, txData, history
  <2>7. SealHolds'
    BY <1>14, DataAssumption DEF RereadMissing, Goto, TypeOK, Control, LabelsOf, Committing,
         SealHolds, disk, memory, tx, txData, history
  <2> QED
    BY <1>t, <2>1, <2>2, <2>3, <2>4, <2>5, <2>6, <2>7
<1>15. CASE CreateManifest
  <2>1. /\ CachedIsGood' /\ PlanSound'
    BY <1>15 DEF CreateManifest, disk, memory, tx, txData, history, Goto, CachedIsGood,
         PlanSound, Protected
  <2>2. Control'
    BY <1>15, DataAssumption DEF CreateManifest, Publish, Goto, TypeOK, Control, LabelsOf,
         Committing, disk, memory, tx, txData, history
  <2>3. ActiveComplete'
    BY <1>15, DataAssumption DEF CreateManifest, Publish, Goto, TypeOK, Control, LabelsOf,
         Committing, ActiveComplete, CandidateShards, Intact, disk, memory, tx, txData, history
  <2>4. CandidateShards'
    BY <1>15, DataAssumption DEF CreateManifest, Publish, Goto, TypeOK, Control, LabelsOf,
         Committing, CandidateShards, Intact, disk, memory, tx, txData, history
  <2>5. RollbackIntact'
    BY <1>15, DataAssumption DEF CreateManifest, Publish, Goto, TypeOK, Control, LabelsOf,
         Committing, RollbackIntact, CandidateShards, RollbackKnows, Intact, disk, memory, tx,
         txData, history
  <2>6. RollbackKnows'
    BY <1>15, DataAssumption DEF CreateManifest, Publish, Goto, TypeOK, Control, LabelsOf,
         Committing, RollbackKnows, disk, memory, tx, txData, history
  <2>7. PostflightKnows'
    BY <1>15, DataAssumption DEF CreateManifest, Publish, Goto, TypeOK, Control, LabelsOf,
         Committing, PostflightKnows, disk, memory, tx, txData, history
  <2>8. SealHolds'
    BY <1>15, DataAssumption DEF CreateManifest, Publish, Goto, TypeOK, Control, LabelsOf,
         Committing, SealHolds, disk, memory, tx, txData, history
  <2> QED
    BY <1>t, <2>1, <2>2, <2>3, <2>4, <2>5, <2>6, <2>7, <2>8
<1>16. CASE VerifyManifest
  <2>1. /\ ActiveComplete' /\ CachedIsGood' /\ PlanSound'
    BY <1>16 DEF VerifyManifest, disk, memory, tx, txData, history, Goto, ActiveComplete,
         Intact, CachedIsGood, PlanSound, Protected
  <2>2. Control'
    BY <1>16, DataAssumption DEF VerifyManifest, Goto, TypeOK, Control, LabelsOf, Committing,
         disk, memory, tx, txData, history
  <2>3. CandidateShards'
    BY <1>16, DataAssumption DEF VerifyManifest, Goto, TypeOK, Control, LabelsOf, Committing,
         CandidateShards, Intact, disk, memory, tx, txData, history
  <2>4. RollbackIntact'
    BY <1>16, DataAssumption DEF VerifyManifest, Goto, TypeOK, Control, LabelsOf, Committing,
         RollbackIntact, Intact, disk, memory, tx, txData, history
  <2>5. RollbackKnows'
    BY <1>16, DataAssumption DEF VerifyManifest, Goto, TypeOK, Control, LabelsOf, Committing,
         RollbackKnows, disk, memory, tx, txData, history
  <2>6. PostflightKnows'
    BY <1>16, DataAssumption DEF VerifyManifest, Goto, TypeOK, Control, LabelsOf, Committing,
         PostflightKnows, disk, memory, tx, txData, history
  <2>7. SealHolds'
    BY <1>16, DataAssumption DEF VerifyManifest, Goto, TypeOK, Control, LabelsOf, Committing,
         SealHolds, disk, memory, tx, txData, history
  <2> QED
    BY <1>t, <2>1, <2>2, <2>3, <2>4, <2>5, <2>6, <2>7
<1>17. CASE RestoreManifest
  <2>1. /\ CachedIsGood'
    BY <1>17 DEF RestoreManifest, disk, memory, tx, txData, history, Finish, CachedIsGood
  <2>2. Control'
    BY <1>17, DataAssumption DEF RestoreManifest, Restored, Finish, TypeOK, Control, LabelsOf,
         Committing, disk, memory, tx, txData, history
  <2>3. ActiveComplete'
    BY <1>17, DataAssumption DEF RestoreManifest, Restored, Finish, TypeOK, Control, LabelsOf,
         Committing, ActiveComplete, RollbackIntact, RollbackKnows, Intact, disk, memory, tx,
         txData, history
  <2>4. CandidateShards'
    BY <1>17, DataAssumption DEF RestoreManifest, Restored, Finish, TypeOK, Control, LabelsOf,
         Committing, CandidateShards, Intact, disk, memory, tx, txData, history
  <2>5. RollbackIntact'
    BY <1>17, DataAssumption DEF RestoreManifest, Restored, Finish, TypeOK, Control, LabelsOf,
         Committing, RollbackIntact, Intact, disk, memory, tx, txData, history
  <2>6. RollbackKnows'
    BY <1>17, DataAssumption DEF RestoreManifest, Restored, Finish, TypeOK, Control, LabelsOf,
         Committing, RollbackKnows, disk, memory, tx, txData, history
  <2>7. PostflightKnows'
    BY <1>17, DataAssumption DEF RestoreManifest, Restored, Finish, TypeOK, Control, LabelsOf,
         Committing, PostflightKnows, disk, memory, tx, txData, history
  <2>8. PlanSound'
    BY <1>17, DataAssumption DEF RestoreManifest, Restored, Finish, TypeOK, Control, LabelsOf,
         Committing, PlanSound, Protected, disk, memory, tx, txData, history
  <2>9. SealHolds'
    BY <1>17, DataAssumption DEF RestoreManifest, Restored, Finish, TypeOK, Control, LabelsOf,
         Committing, SealHolds, disk, memory, tx, txData, history
  <2> QED
    BY <1>t, <2>1, <2>2, <2>3, <2>4, <2>5, <2>6, <2>7, <2>8, <2>9
<1>18. CASE BeginPostflight
  <2>1. /\ ActiveComplete' /\ CachedIsGood' /\ PlanSound'
    BY <1>18 DEF BeginPostflight, disk, memory, tx, txData, history, Goto, ActiveComplete,
         Intact, CachedIsGood, PlanSound, Protected
  <2>2. Control'
    BY <1>18, DataAssumption DEF BeginPostflight, Goto, TypeOK, Control, LabelsOf, Committing,
         disk, memory, tx, txData, history
  <2>3. CandidateShards'
    BY <1>18, DataAssumption DEF BeginPostflight, Goto, TypeOK, Control, LabelsOf, Committing,
         CandidateShards, Intact, disk, memory, tx, txData, history
  <2>4. RollbackIntact'
    BY <1>18, DataAssumption DEF BeginPostflight, Goto, TypeOK, Control, LabelsOf, Committing,
         RollbackIntact, Intact, disk, memory, tx, txData, history
  <2>5. RollbackKnows'
    BY <1>18, DataAssumption DEF BeginPostflight, Goto, TypeOK, Control, LabelsOf, Committing,
         RollbackKnows, disk, memory, tx, txData, history
  <2>6. PostflightKnows'
    BY <1>18, DataAssumption DEF BeginPostflight, Goto, TypeOK, Control, LabelsOf, Committing,
         PostflightKnows, disk, memory, tx, txData, history
  <2>7. SealHolds'
    BY <1>18, DataAssumption DEF BeginPostflight, Goto, TypeOK, Control, LabelsOf, Committing,
         SealHolds, disk, memory, tx, txData, history
  <2> QED
    BY <1>t, <2>1, <2>2, <2>3, <2>4, <2>5, <2>6, <2>7
<1>19. CASE EndPostflight
  <2>1. /\ ActiveComplete' /\ CachedIsGood'
    BY <1>19 DEF EndPostflight, disk, memory, tx, txData, history, Goto, Finish,
         ActiveComplete, Intact, CachedIsGood
  <2>2. Control'
    BY <1>19, DataAssumption DEF EndPostflight, Goto, Finish, TypeOK, Control, LabelsOf,
         Committing, disk, memory, tx, txData, history
  <2>3. CandidateShards'
    BY <1>19, DataAssumption DEF EndPostflight, Goto, Finish, TypeOK, Control, LabelsOf,
         Committing, CandidateShards, Intact, disk, memory, tx, txData, history
  <2>4. RollbackIntact'
    BY <1>19, DataAssumption DEF EndPostflight, Goto, Finish, TypeOK, Control, LabelsOf,
         Committing, RollbackIntact, Intact, disk, memory, tx, txData, history
  <2>5. RollbackKnows'
    BY <1>19, DataAssumption DEF EndPostflight, Goto, Finish, TypeOK, Control, LabelsOf,
         Committing, RollbackKnows, disk, memory, tx, txData, history
  <2>6. PostflightKnows'
    BY <1>19, DataAssumption DEF EndPostflight, Goto, Finish, TypeOK, Control, LabelsOf,
         Committing, PostflightKnows, disk, memory, tx, txData, history
  <2>7. PlanSound'
    BY <1>19, DataAssumption DEF EndPostflight, Goto, Finish, TypeOK, Control, LabelsOf,
         Committing, PlanSound, Protected, disk, memory, tx, txData, history
  <2>8. SealHolds'
    BY <1>19, DataAssumption DEF EndPostflight, Goto, Finish, TypeOK, Control, LabelsOf,
         Committing, SealHolds, disk, memory, tx, txData, history
  <2> QED
    BY <1>t, <2>1, <2>2, <2>3, <2>4, <2>5, <2>6, <2>7, <2>8
<1>20. CASE PlanFiles
  <2>u. UNCHANGED <<manifest, alternates, shard, aged, claim, verified, cached, loading, op, pc,
                    base, cand, seen, attempted, loaded, todo, target, peerSnaps, peerShards,
                    quiet, published>>
    BY <1>20 DEF PlanFiles, disk, tx, history
  <2>p. /\ plan.at = "list"
        /\ \/ plan' = NoPlan
           \/ \E F \in SUBSET Eligible :
                plan' = [plan EXCEPT !.at = "apply", !.alternates = alternates,
                                     !.files = F, !.unchanged = F]
    BY <1>20 DEF PlanFiles
  <2>1. /\ Control' /\ ActiveComplete' /\ CachedIsGood' /\ CandidateShards'
        /\ RollbackIntact' /\ RollbackKnows' /\ PostflightKnows'
    BY <2>u DEF Control, LabelsOf, Committing, ActiveComplete, Intact, CachedIsGood,
         CandidateShards, RollbackIntact, RollbackKnows, PostflightKnows
  <2>2. PlanSound'
    <3>1. op # "cleanup" /\ plan.manifest \in Snapshots
      BY <2>p DEF PlanSound
    <3>2. CASE plan' = NoPlan
      BY <2>u, <3>1, <3>2 DEF NoPlan, PlanSound
    <3>3. ASSUME NEW F \in SUBSET Eligible,
                 plan' = [plan EXCEPT !.at = "apply", !.alternates = alternates,
                                      !.files = F, !.unchanged = F]
          PROVE PlanSound'
      <4>1. /\ plan'.manifest = plan.manifest /\ plan'.files = F /\ plan'.at = "apply"
            /\ plan'.alternates = alternates
        BY <3>3 DEF TypeOK
      <4>2. F \cap (Refs[plan.manifest] \cup Protected(alternates)) = {}
        BY DEF Eligible
      <4> QED
        BY <4>1, <4>2, <3>1, <2>u DEF PlanSound, Protected
    <3> QED
      BY <2>p, <3>2, <3>3
  <2>3. SealHolds'
    <3>1. op = "none" \/ Committing
      BY <2>p DEF PlanSound, TypeOK, Committing
    <3>2. pc \notin LabelsOf.cleanup
      BY <3>1 DEF Control, LabelsOf, Committing
    <3> QED
      BY <2>u, <3>2 DEF SealHolds, LabelsOf
  <2> QED
    BY <1>t, <2>1, <2>2, <2>3
<1>21. CASE ApplyPlan
  <2>1. /\ Control' /\ ActiveComplete' /\ CachedIsGood' /\ CandidateShards'
        /\ RollbackIntact' /\ RollbackKnows' /\ PostflightKnows'
    BY <1>21 DEF ApplyPlan, disk, memory, tx, txData, history, Control, LabelsOf, Committing,
         ActiveComplete, Intact, CachedIsGood, CandidateShards, RollbackIntact, RollbackKnows,
         PostflightKnows
  <2>2. PlanSound'
    BY <1>21, DataAssumption DEF ApplyPlan, NoPlan, TypeOK, Control, LabelsOf, Committing,
         PlanSound, Protected, disk, memory, tx, txData, history
  <2>3. SealHolds'
    BY <1>21, DataAssumption DEF ApplyPlan, NoPlan, TypeOK, Control, LabelsOf, Committing,
         SealHolds, PlanSound, disk, memory, tx, txData, history
  <2> QED
    BY <1>t, <2>1, <2>2, <2>3
<1>22. CASE EndCleanup
  <2>1. /\ Control' /\ ActiveComplete' /\ CachedIsGood' /\ CandidateShards'
        /\ RollbackIntact' /\ RollbackKnows' /\ PostflightKnows'
    BY <1>22 DEF EndCleanup, disk, memory, tx, txData, history, Control, LabelsOf, Committing,
         ActiveComplete, Intact, CachedIsGood, CandidateShards, RollbackIntact, RollbackKnows,
         PostflightKnows
  <2>2. PlanSound'
    BY <1>22, DataAssumption DEF EndCleanup, NoPlan, Idle, TypeOK, Control, LabelsOf,
         Committing, PlanSound, Protected, disk, memory, tx, txData, history
  <2>3. SealHolds'
    BY <1>22, DataAssumption DEF EndCleanup, NoPlan, Idle, TypeOK, Control, LabelsOf,
         Committing, SealHolds, disk, memory, tx, txData, history
  <2> QED
    BY <1>t, <2>1, <2>2, <2>3
<1>23. ASSUME NEW s \in Shards, BeginCandidate(s) PROVE IInv'
  <2>1. /\ ActiveComplete' /\ CachedIsGood'
    BY <1>23 DEF BeginCandidate, disk, memory, tx, txData, history, ActiveComplete, Intact,
         CachedIsGood
  <2>2. Control'
    BY <1>23, DataAssumption DEF BeginCandidate, Idle, TypeOK, Control, LabelsOf, Committing,
         disk, memory, tx, txData, history
  <2>3. CandidateShards'
    BY <1>23, DataAssumption DEF BeginCandidate, Idle, TypeOK, Control, LabelsOf, Committing,
         CandidateShards, Intact, disk, memory, tx, txData, history
  <2>4. RollbackIntact'
    BY <1>23, DataAssumption DEF BeginCandidate, Idle, TypeOK, Control, LabelsOf, Committing,
         RollbackIntact, Intact, disk, memory, tx, txData, history
  <2>5. RollbackKnows'
    BY <1>23, DataAssumption DEF BeginCandidate, Idle, TypeOK, Control, LabelsOf, Committing,
         RollbackKnows, disk, memory, tx, txData, history
  <2>6. PostflightKnows'
    BY <1>23, DataAssumption DEF BeginCandidate, Idle, TypeOK, Control, LabelsOf, Committing,
         PostflightKnows, disk, memory, tx, txData, history
  <2>7. PlanSound'
    BY <1>23, DataAssumption DEF BeginCandidate, Idle, TypeOK, Control, LabelsOf, Committing,
         PlanSound, Protected, disk, memory, tx, txData, history
  <2>8. SealHolds'
    BY <1>23, DataAssumption DEF BeginCandidate, Idle, TypeOK, Control, LabelsOf, Committing,
         SealHolds, disk, memory, tx, txData, history
  <2> QED
    BY <1>t, <2>1, <2>2, <2>3, <2>4, <2>5, <2>6, <2>7, <2>8
<1>24. CASE CheckSeal
  <2>1. /\ ActiveComplete' /\ CachedIsGood'
    BY <1>24 DEF CheckSeal, disk, memory, tx, txData, history, Goto, Finish, ActiveComplete,
         Intact, CachedIsGood
  <2>2. Control'
    BY <1>24, DataAssumption DEF CheckSeal, SealLabel, StopCleanup, Goto, Finish, NoPlan,
         ManifestSealed, AlternatesSealed, TypeOK, Control, LabelsOf, Committing, disk, memory,
         tx, txData, history
  <2>3. CandidateShards'
    BY <1>24, DataAssumption DEF CheckSeal, SealLabel, StopCleanup, Goto, Finish, NoPlan,
         ManifestSealed, AlternatesSealed, TypeOK, Control, LabelsOf, Committing,
         CandidateShards, Intact, disk, memory, tx, txData, history
  <2>4. RollbackIntact'
    BY <1>24, DataAssumption DEF CheckSeal, SealLabel, StopCleanup, Goto, Finish, NoPlan,
         ManifestSealed, AlternatesSealed, TypeOK, Control, LabelsOf, Committing,
         RollbackIntact, Intact, disk, memory, tx, txData, history
  <2>5. RollbackKnows'
    BY <1>24, DataAssumption DEF CheckSeal, SealLabel, StopCleanup, Goto, Finish, NoPlan,
         ManifestSealed, AlternatesSealed, TypeOK, Control, LabelsOf, Committing,
         RollbackKnows, disk, memory, tx, txData, history
  <2>6. PostflightKnows'
    BY <1>24, DataAssumption DEF CheckSeal, SealLabel, StopCleanup, Goto, Finish, NoPlan,
         ManifestSealed, AlternatesSealed, TypeOK, Control, LabelsOf, Committing,
         PostflightKnows, disk, memory, tx, txData, history
  <2>7. PlanSound'
    BY <1>24, DataAssumption DEF CheckSeal, SealLabel, StopCleanup, Goto, Finish, NoPlan,
         ManifestSealed, AlternatesSealed, TypeOK, Control, LabelsOf, Committing, PlanSound,
         Protected, disk, memory, tx, txData, history
  <2>8. SealHolds'
    BY <1>24, DataAssumption DEF CheckSeal, SealLabel, StopCleanup, Goto, Finish, NoPlan,
         ManifestSealed, AlternatesSealed, TypeOK, Control, LabelsOf, Committing, SealHolds,
         disk, memory, tx, txData, history
  <2> QED
    BY <1>t, <2>1, <2>2, <2>3, <2>4, <2>5, <2>6, <2>7, <2>8
<1>25. CASE InspectCandidate
  <2>1. /\ ActiveComplete' /\ CachedIsGood'
    BY <1>25 DEF InspectCandidate, disk, memory, tx, txData, history, Goto, Finish,
         ActiveComplete, Intact, CachedIsGood
  <2>2. Control'
    BY <1>25, DataAssumption DEF InspectCandidate, NextFile, Goto, Finish, TypeOK, Control,
         LabelsOf, Committing, disk, memory, tx, txData, history
  <2>3. CandidateShards'
    BY <1>25, DataAssumption DEF InspectCandidate, NextFile, Goto, Finish, TypeOK, Control,
         LabelsOf, Committing, CandidateShards, Intact, disk, memory, tx, txData, history
  <2>4. RollbackIntact'
    BY <1>25, DataAssumption DEF InspectCandidate, NextFile, Goto, Finish, TypeOK, Control,
         LabelsOf, Committing, RollbackIntact, Intact, disk, memory, tx, txData, history
  <2>5. RollbackKnows'
    BY <1>25, DataAssumption DEF InspectCandidate, NextFile, Goto, Finish, TypeOK, Control,
         LabelsOf, Committing, RollbackKnows, disk, memory, tx, txData, history
  <2>6. PostflightKnows'
    BY <1>25, DataAssumption DEF InspectCandidate, NextFile, Goto, Finish, TypeOK, Control,
         LabelsOf, Committing, PostflightKnows, disk, memory, tx, txData, history
  <2>7. PlanSound'
    BY <1>25, DataAssumption DEF InspectCandidate, NextFile, Goto, Finish, TypeOK, Control,
         LabelsOf, Committing, PlanSound, Protected, disk, memory, tx, txData, history
  <2>8. SealHolds'
    BY <1>25, DataAssumption DEF InspectCandidate, NextFile, Goto, Finish, TypeOK, Control,
         LabelsOf, Committing, SealHolds, disk, memory, tx, txData, history
  <2> QED
    BY <1>t, <2>1, <2>2, <2>3, <2>4, <2>5, <2>6, <2>7, <2>8
<1>26. CASE ClaimShard
  <2>2. Control'
    BY <1>26, DataAssumption DEF ClaimShard, StopCleanup, NoPlan, Restat, Goto, Finish, TypeOK,
         Control, LabelsOf, Committing, disk, memory, tx, txData, history
  <2>3. ActiveComplete'
    BY <1>26, DataAssumption DEF ClaimShard, StopCleanup, NoPlan, Restat, Goto, Finish, TypeOK,
         Control, LabelsOf, Committing, ActiveComplete, SealHolds, PlanSound, Intact, disk,
         memory, tx, txData, history
  <2>4. CachedIsGood'
    BY <1>26, DataAssumption DEF ClaimShard, StopCleanup, NoPlan, Restat, Goto, Finish, TypeOK,
         Control, LabelsOf, Committing, CachedIsGood, disk, memory, tx, txData, history
  <2>5. CandidateShards'
    BY <1>26, DataAssumption DEF ClaimShard, StopCleanup, NoPlan, Restat, Goto, Finish, TypeOK,
         Control, LabelsOf, Committing, CandidateShards, Intact, disk, memory, tx, txData,
         history
  <2>6. RollbackIntact'
    BY <1>26, DataAssumption DEF ClaimShard, StopCleanup, NoPlan, Restat, Goto, Finish, TypeOK,
         Control, LabelsOf, Committing, RollbackIntact, Intact, disk, memory, tx, txData,
         history
  <2>7. RollbackKnows'
    BY <1>26, DataAssumption DEF ClaimShard, StopCleanup, NoPlan, Restat, Goto, Finish, TypeOK,
         Control, LabelsOf, Committing, RollbackKnows, disk, memory, tx, txData, history
  <2>8. PostflightKnows'
    BY <1>26, DataAssumption DEF ClaimShard, StopCleanup, NoPlan, Restat, Goto, Finish, TypeOK,
         Control, LabelsOf, Committing, PostflightKnows, disk, memory, tx, txData, history
  <2>9. PlanSound'
    BY <1>26, DataAssumption DEF ClaimShard, StopCleanup, NoPlan, Restat, Goto, Finish, TypeOK,
         Control, LabelsOf, Committing, PlanSound, Protected, disk, memory, tx, txData, history
  <2>10. SealHolds'
    BY <1>26, DataAssumption DEF ClaimShard, StopCleanup, NoPlan, Restat, Goto, Finish, TypeOK,
         Control, LabelsOf, Committing, SealHolds, disk, memory, tx, txData, history
  <2> QED
    BY <1>t, <2>2, <2>3, <2>4, <2>5, <2>6, <2>7, <2>8, <2>9, <2>10
<1>27. CASE RemoveClaim
  <2>1. /\ ActiveComplete' /\ CachedIsGood' /\ PlanSound'
    BY <1>27 DEF RemoveClaim, disk, memory, tx, txData, history, Goto, ActiveComplete, Intact,
         CachedIsGood, PlanSound, Protected
  <2>2. Control'
    BY <1>27, DataAssumption DEF RemoveClaim, Goto, TypeOK, Control, LabelsOf, Committing,
         disk, memory, tx, txData, history
  <2>3. CandidateShards'
    BY <1>27, DataAssumption DEF RemoveClaim, Goto, TypeOK, Control, LabelsOf, Committing,
         CandidateShards, Intact, disk, memory, tx, txData, history
  <2>4. RollbackIntact'
    BY <1>27, DataAssumption DEF RemoveClaim, Goto, TypeOK, Control, LabelsOf, Committing,
         RollbackIntact, Intact, disk, memory, tx, txData, history
  <2>5. RollbackKnows'
    BY <1>27, DataAssumption DEF RemoveClaim, Goto, TypeOK, Control, LabelsOf, Committing,
         RollbackKnows, disk, memory, tx, txData, history
  <2>6. PostflightKnows'
    BY <1>27, DataAssumption DEF RemoveClaim, Goto, TypeOK, Control, LabelsOf, Committing,
         PostflightKnows, disk, memory, tx, txData, history
  <2>7. SealHolds'
    BY <1>27, DataAssumption DEF RemoveClaim, Goto, TypeOK, Control, LabelsOf, Committing,
         SealHolds, disk, memory, tx, txData, history
  <2> QED
    BY <1>t, <2>1, <2>2, <2>3, <2>4, <2>5, <2>6, <2>7
<1>28. CASE CheckRemoved
  <2>1. /\ ActiveComplete' /\ CachedIsGood'
    BY <1>28 DEF CheckRemoved, disk, memory, tx, txData, history, Finish, ActiveComplete,
         Intact, CachedIsGood
  <2>2. Control'
    BY <1>28, DataAssumption DEF CheckRemoved, NextFile, StopCleanup, NoPlan, Finish, TypeOK,
         Control, LabelsOf, Committing, disk, memory, tx, txData, history
  <2>3. CandidateShards'
    BY <1>28, DataAssumption DEF CheckRemoved, NextFile, StopCleanup, NoPlan, Finish, TypeOK,
         Control, LabelsOf, Committing, CandidateShards, Intact, disk, memory, tx, txData,
         history
  <2>4. RollbackIntact'
    BY <1>28, DataAssumption DEF CheckRemoved, NextFile, StopCleanup, NoPlan, Finish, TypeOK,
         Control, LabelsOf, Committing, RollbackIntact, Intact, disk, memory, tx, txData,
         history
  <2>5. RollbackKnows'
    BY <1>28, DataAssumption DEF CheckRemoved, NextFile, StopCleanup, NoPlan, Finish, TypeOK,
         Control, LabelsOf, Committing, RollbackKnows, disk, memory, tx, txData, history
  <2>6. PostflightKnows'
    BY <1>28, DataAssumption DEF CheckRemoved, NextFile, StopCleanup, NoPlan, Finish, TypeOK,
         Control, LabelsOf, Committing, PostflightKnows, disk, memory, tx, txData, history
  <2>7. PlanSound'
    BY <1>28, DataAssumption DEF CheckRemoved, NextFile, StopCleanup, NoPlan, Finish, TypeOK,
         Control, LabelsOf, Committing, PlanSound, Protected, disk, memory, tx, txData, history
  <2>8. SealHolds'
    BY <1>28, DataAssumption DEF CheckRemoved, NextFile, StopCleanup, NoPlan, Finish, TypeOK,
         Control, LabelsOf, Committing, SealHolds, disk, memory, tx, txData, history
  <2> QED
    BY <1>t, <2>1, <2>2, <2>3, <2>4, <2>5, <2>6, <2>7, <2>8
<1>29. CASE RestoreClaim
  <2>2. Control'
    BY <1>29, DataAssumption DEF RestoreClaim, StopCleanup, NoPlan, Finish, TypeOK, Control,
         LabelsOf, Committing, disk, memory, tx, txData, history
  <2>3. ActiveComplete'
    BY <1>29, DataAssumption DEF RestoreClaim, StopCleanup, NoPlan, Finish, TypeOK, Control,
         LabelsOf, Committing, ActiveComplete, Intact, disk, memory, tx, txData, history
  <2>4. CachedIsGood'
    BY <1>29, DataAssumption DEF RestoreClaim, StopCleanup, NoPlan, Finish, TypeOK, Control,
         LabelsOf, Committing, CachedIsGood, disk, memory, tx, txData, history
  <2>5. CandidateShards'
    BY <1>29, DataAssumption DEF RestoreClaim, StopCleanup, NoPlan, Finish, TypeOK, Control,
         LabelsOf, Committing, CandidateShards, Intact, disk, memory, tx, txData, history
  <2>6. RollbackIntact'
    BY <1>29, DataAssumption DEF RestoreClaim, StopCleanup, NoPlan, Finish, TypeOK, Control,
         LabelsOf, Committing, RollbackIntact, Intact, disk, memory, tx, txData, history
  <2>7. RollbackKnows'
    BY <1>29, DataAssumption DEF RestoreClaim, StopCleanup, NoPlan, Finish, TypeOK, Control,
         LabelsOf, Committing, RollbackKnows, disk, memory, tx, txData, history
  <2>8. PostflightKnows'
    BY <1>29, DataAssumption DEF RestoreClaim, StopCleanup, NoPlan, Finish, TypeOK, Control,
         LabelsOf, Committing, PostflightKnows, disk, memory, tx, txData, history
  <2>9. PlanSound'
    BY <1>29, DataAssumption DEF RestoreClaim, StopCleanup, NoPlan, Finish, TypeOK, Control,
         LabelsOf, Committing, PlanSound, Protected, disk, memory, tx, txData, history
  <2>10. SealHolds'
    BY <1>29, DataAssumption DEF RestoreClaim, StopCleanup, NoPlan, Finish, TypeOK, Control,
         LabelsOf, Committing, SealHolds, disk, memory, tx, txData, history
  <2> QED
    BY <1>t, <2>2, <2>3, <2>4, <2>5, <2>6, <2>7, <2>8, <2>9, <2>10
<1>30. CASE EndLoad
  <2>1. /\ Control' /\ ActiveComplete' /\ CachedIsGood' /\ CandidateShards'
        /\ RollbackIntact' /\ RollbackKnows' /\ PostflightKnows' /\ PlanSound'
        /\ SealHolds'
    BY <1>30 DEF EndLoad, disk, memory, tx, txData, history, Control, LabelsOf, Committing,
         ActiveComplete, Intact, CachedIsGood, CandidateShards, RollbackIntact, RollbackKnows,
         PostflightKnows, PlanSound, Protected, SealHolds
  <2> QED
    BY <1>t, <2>1
<1>31. ASSUME NEW s \in Shards, LoadShard(s) PROVE IInv'
  <2>1. /\ Control' /\ ActiveComplete' /\ CandidateShards' /\ RollbackIntact'
        /\ RollbackKnows' /\ PostflightKnows' /\ PlanSound' /\ SealHolds'
    BY <1>31 DEF LoadShard, disk, memory, tx, txData, history, Control, LabelsOf, Committing,
         ActiveComplete, Intact, CandidateShards, RollbackIntact, RollbackKnows,
         PostflightKnows, PlanSound, Protected, SealHolds
  <2>2. CachedIsGood'
    BY <1>31, DataAssumption DEF LoadShard, NoLoad, TypeOK, Control, LabelsOf, Committing,
         CachedIsGood, disk, memory, tx, txData, history
  <2> QED
    BY <1>t, <2>1, <2>2
<1>32. CASE CommitFault
  <2>1. /\ CachedIsGood'
    BY <1>32 DEF CommitFault, disk, memory, tx, txData, history, Goto, Finish, CachedIsGood
  <2>2. Control'
    BY <1>32, DataAssumption DEF CommitFault, Spend, Publish, Goto, Finish, Committing, TypeOK,
         Control, LabelsOf, disk, memory, tx, txData, history
  <2>3. ActiveComplete'
    BY <1>32, DataAssumption DEF CommitFault, Spend, Publish, Goto, Finish, Committing, TypeOK,
         Control, LabelsOf, ActiveComplete, CandidateShards, Intact, disk, memory, tx, txData,
         history
  <2>4. CandidateShards'
    BY <1>32, DataAssumption DEF CommitFault, Spend, Publish, Goto, Finish, Committing, TypeOK,
         Control, LabelsOf, CandidateShards, Intact, disk, memory, tx, txData, history
  <2>5. RollbackIntact'
    BY <1>32, DataAssumption DEF CommitFault, Spend, Publish, Goto, Finish, Committing, TypeOK,
         Control, LabelsOf, RollbackIntact, CandidateShards, RollbackKnows, Intact, disk,
         memory, tx, txData, history
  <2>6. RollbackKnows'
    BY <1>32, DataAssumption DEF CommitFault, Spend, Publish, Goto, Finish, Committing, TypeOK,
         Control, LabelsOf, RollbackKnows, disk, memory, tx, txData, history
  <2>7. PostflightKnows'
    BY <1>32, DataAssumption DEF CommitFault, Spend, Publish, Goto, Finish, Committing, TypeOK,
         Control, LabelsOf, PostflightKnows, disk, memory, tx, txData, history
  <2>8. PlanSound'
    BY <1>32, DataAssumption DEF CommitFault, Spend, Publish, Goto, Finish, Committing, TypeOK,
         Control, LabelsOf, PlanSound, Protected, disk, memory, tx, txData, history
  <2>9. SealHolds'
    BY <1>32, DataAssumption DEF CommitFault, Spend, Publish, Goto, Finish, Committing, TypeOK,
         Control, LabelsOf, SealHolds, disk, memory, tx, txData, history
  <2> QED
    BY <1>t, <2>1, <2>2, <2>3, <2>4, <2>5, <2>6, <2>7, <2>8, <2>9
<1>33. CASE CleanupFault
  <2>1. /\ ActiveComplete' /\ CachedIsGood'
    BY <1>33 DEF CleanupFault, disk, memory, tx, txData, history, Goto, Finish, ActiveComplete,
         Intact, CachedIsGood
  <2>2. Control'
    BY <1>33, DataAssumption DEF CleanupFault, Spend, StopCleanup, NoPlan, Goto, Finish,
         TypeOK, Control, LabelsOf, Committing, disk, memory, tx, txData, history
  <2>3. CandidateShards'
    BY <1>33, DataAssumption DEF CleanupFault, Spend, StopCleanup, NoPlan, Goto, Finish,
         TypeOK, Control, LabelsOf, Committing, CandidateShards, Intact, disk, memory, tx,
         txData, history
  <2>4. RollbackIntact'
    BY <1>33, DataAssumption DEF CleanupFault, Spend, StopCleanup, NoPlan, Goto, Finish,
         TypeOK, Control, LabelsOf, Committing, RollbackIntact, Intact, disk, memory, tx,
         txData, history
  <2>5. RollbackKnows'
    BY <1>33, DataAssumption DEF CleanupFault, Spend, StopCleanup, NoPlan, Goto, Finish,
         TypeOK, Control, LabelsOf, Committing, RollbackKnows, disk, memory, tx, txData, history
  <2>6. PostflightKnows'
    BY <1>33, DataAssumption DEF CleanupFault, Spend, StopCleanup, NoPlan, Goto, Finish,
         TypeOK, Control, LabelsOf, Committing, PostflightKnows, disk, memory, tx, txData,
         history
  <2>7. PlanSound'
    BY <1>33, DataAssumption DEF CleanupFault, Spend, StopCleanup, NoPlan, Goto, Finish,
         TypeOK, Control, LabelsOf, Committing, PlanSound, Protected, disk, memory, tx, txData,
         history
  <2>8. SealHolds'
    BY <1>33, DataAssumption DEF CleanupFault, Spend, StopCleanup, NoPlan, Goto, Finish,
         TypeOK, Control, LabelsOf, Committing, SealHolds, disk, memory, tx, txData, history
  <2> QED
    BY <1>t, <2>1, <2>2, <2>3, <2>4, <2>5, <2>6, <2>7, <2>8
<1>34. CASE Crash
  <2>1. /\ ActiveComplete'
    BY <1>34 DEF Crash, disk, memory, tx, txData, history, Finish, ActiveComplete, Intact
  <2>2. Control'
    BY <1>34, DataAssumption DEF Crash, Spend, Finish, NoLoad, NoPlan, TypeOK, Control,
         LabelsOf, Committing, disk, memory, tx, txData, history
  <2>3. CachedIsGood'
    BY <1>34, DataAssumption DEF Crash, Spend, Finish, NoLoad, NoPlan, TypeOK, Control,
         LabelsOf, Committing, CachedIsGood, disk, memory, tx, txData, history
  <2>4. CandidateShards'
    BY <1>34, DataAssumption DEF Crash, Spend, Finish, NoLoad, NoPlan, TypeOK, Control,
         LabelsOf, Committing, CandidateShards, Intact, disk, memory, tx, txData, history
  <2>5. RollbackIntact'
    BY <1>34, DataAssumption DEF Crash, Spend, Finish, NoLoad, NoPlan, TypeOK, Control,
         LabelsOf, Committing, RollbackIntact, Intact, disk, memory, tx, txData, history
  <2>6. RollbackKnows'
    BY <1>34, DataAssumption DEF Crash, Spend, Finish, NoLoad, NoPlan, TypeOK, Control,
         LabelsOf, Committing, RollbackKnows, disk, memory, tx, txData, history
  <2>7. PostflightKnows'
    BY <1>34, DataAssumption DEF Crash, Spend, Finish, NoLoad, NoPlan, TypeOK, Control,
         LabelsOf, Committing, PostflightKnows, disk, memory, tx, txData, history
  <2>8. PlanSound'
    BY <1>34, DataAssumption DEF Crash, Spend, Finish, NoLoad, NoPlan, TypeOK, Control,
         LabelsOf, Committing, PlanSound, Protected, disk, memory, tx, txData, history
  <2>9. SealHolds'
    BY <1>34, DataAssumption DEF Crash, Spend, Finish, NoLoad, NoPlan, TypeOK, Control,
         LabelsOf, Committing, SealHolds, disk, memory, tx, txData, history
  <2> QED
    BY <1>t, <2>1, <2>2, <2>3, <2>4, <2>5, <2>6, <2>7, <2>8, <2>9
<1>35. ASSUME NEW m \in PeerManifests, PeerManifest(m) PROVE IInv'
  <2>1. /\ Control' /\ CachedIsGood' /\ CandidateShards' /\ PlanSound'
    BY <1>35 DEF PeerManifest, disk, memory, tx, txData, history, Control, LabelsOf,
         Committing, CachedIsGood, CandidateShards, Intact, PlanSound, Protected
  <2>2. ActiveComplete'
    BY <1>35, DataAssumption DEF PeerManifest, Spend, TypeOK, Control, LabelsOf, Committing,
         ActiveComplete, Intact, disk, memory, tx, txData, history
  <2>3. RollbackIntact'
    BY <1>35, DataAssumption DEF PeerManifest, Spend, TypeOK, Control, LabelsOf, Committing,
         RollbackIntact, Intact, disk, memory, tx, txData, history
  <2>4. RollbackKnows'
    BY <1>35, DataAssumption DEF PeerManifest, Spend, TypeOK, Control, LabelsOf, Committing,
         RollbackKnows, disk, memory, tx, txData, history
  <2>5. PostflightKnows'
    BY <1>35, DataAssumption DEF PeerManifest, Spend, TypeOK, Control, LabelsOf, Committing,
         PostflightKnows, disk, memory, tx, txData, history
  <2>6. SealHolds'
    BY <1>35, DataAssumption DEF PeerManifest, Spend, TypeOK, Control, LabelsOf, Committing,
         SealHolds, disk, memory, tx, txData, history
  <2> QED
    BY <1>t, <2>1, <2>2, <2>3, <2>4, <2>5, <2>6
<1>36. ASSUME NEW m \in PeerAlternates, PeerAlternate(m) PROVE IInv'
  <2>1. /\ Control' /\ ActiveComplete' /\ CachedIsGood' /\ CandidateShards'
        /\ RollbackIntact' /\ RollbackKnows' /\ PlanSound'
    BY <1>36 DEF PeerAlternate, disk, memory, tx, txData, history, Control, LabelsOf,
         Committing, ActiveComplete, Intact, CachedIsGood, CandidateShards, RollbackIntact,
         RollbackKnows, PlanSound, Protected
  <2>2. PostflightKnows'
    BY <1>36, DataAssumption DEF PeerAlternate, Spend, TypeOK, Control, LabelsOf, Committing,
         PostflightKnows, disk, memory, tx, txData, history
  <2>3. SealHolds'
    BY <1>36, DataAssumption DEF PeerAlternate, Spend, TypeOK, Control, LabelsOf, Committing,
         SealHolds, disk, memory, tx, txData, history
  <2> QED
    BY <1>t, <2>1, <2>2, <2>3
<1>37. ASSUME NEW s \in PeerShards, NEW f \in Files, PeerShard(s, f) PROVE IInv'
  <2>1. /\ Control' /\ RollbackKnows'
    BY <1>37 DEF PeerShard, disk, memory, tx, txData, history, Control, LabelsOf, Committing,
         RollbackKnows
  <2>2. ActiveComplete'
    BY <1>37, DataAssumption DEF PeerShard, Spend, Restat, TypeOK, Control, LabelsOf,
         Committing, ActiveComplete, Intact, disk, memory, tx, txData, history
  <2>3. CachedIsGood'
    BY <1>37, DataAssumption DEF PeerShard, Spend, Restat, TypeOK, Control, LabelsOf,
         Committing, CachedIsGood, disk, memory, tx, txData, history
  <2>4. CandidateShards'
    BY <1>37, DataAssumption DEF PeerShard, Spend, Restat, TypeOK, Control, LabelsOf,
         Committing, CandidateShards, Intact, disk, memory, tx, txData, history
  <2>5. RollbackIntact'
    BY <1>37, DataAssumption DEF PeerShard, Spend, Restat, TypeOK, Control, LabelsOf,
         Committing, RollbackIntact, Intact, disk, memory, tx, txData, history
  <2>6. PostflightKnows'
    BY <1>37, DataAssumption DEF PeerShard, Spend, Restat, TypeOK, Control, LabelsOf,
         Committing, PostflightKnows, disk, memory, tx, txData, history
  <2>7. PlanSound'
    BY <1>37, DataAssumption DEF PeerShard, Spend, Restat, TypeOK, Control, LabelsOf,
         Committing, PlanSound, Protected, disk, memory, tx, txData, history
  <2>8. SealHolds'
    BY <1>37, DataAssumption DEF PeerShard, Spend, Restat, TypeOK, Control, LabelsOf,
         Committing, SealHolds, disk, memory, tx, txData, history
  <2> QED
    BY <1>t, <2>1, <2>2, <2>3, <2>4, <2>5, <2>6, <2>7, <2>8
<1>38. ASSUME NEW s \in Shards, Age(s) PROVE IInv'
  <2>1. /\ Control' /\ ActiveComplete' /\ CachedIsGood' /\ CandidateShards'
        /\ RollbackIntact' /\ RollbackKnows' /\ PostflightKnows' /\ PlanSound'
        /\ SealHolds'
    BY <1>38 DEF Age, disk, memory, tx, txData, history, Control, LabelsOf, Committing,
         ActiveComplete, Intact, CachedIsGood, CandidateShards, RollbackIntact, RollbackKnows,
         PostflightKnows, PlanSound, Protected, SealHolds
  <2> QED
    BY <1>t, <2>1
<1>39. CASE UNCHANGED vars
  BY <1>t, <1>39 DEF vars, disk, memory, tx, history, Control, Committing, ActiveComplete,
       Intact, CachedIsGood, CandidateShards, RollbackIntact, RollbackKnows, PostflightKnows,
       PlanSound, Protected, SealHolds
<1> QED
  BY <1>1, <1>2, <1>3, <1>4, <1>5, <1>6, <1>7, <1>8, <1>9, <1>10, <1>11, <1>12, <1>13, <1>14,
       <1>15, <1>16, <1>17, <1>18, <1>19, <1>20, <1>21, <1>22, <1>23, <1>24, <1>25, <1>26,
       <1>27, <1>28, <1>29, <1>30, <1>31, <1>32, <1>33, <1>34, <1>35, <1>36, <1>37, <1>38,
       <1>39 DEF Next, LocalStep, PeerStep, BeginStep, CommitStep, CleanupStep, LoadStep

\* The initial states satisfy the inductive invariant.
LEMMA InvariantInit == Init => IInv
<1> SUFFICES ASSUME Init PROVE IInv
  OBVIOUS
<1>1. TypeOK
  BY TypeInit
<1>2. ActiveComplete /\ CachedIsGood
  BY DEF Init, ActiveComplete, Intact, CachedIsGood
<1>3. Control /\ CandidateShards /\ RollbackIntact /\ RollbackKnows /\ PostflightKnows
  BY DEF Init, Control, LabelsOf, Committing, CandidateShards, RollbackIntact, RollbackKnows,
         PostflightKnows
<1>4. PlanSound /\ SealHolds
  BY DEF Init, NoPlan, PlanSound, SealHolds
<1> QED
  BY <1>1, <1>2, <1>3, <1>4 DEF IInv

\* The inductive invariant holds in every reachable state.
THEOREM InvariantHolds == Spec => []IInv
  BY InvariantInit, InvariantStep, PTL DEF Spec

\* Every variable keeps its type (the shape of the store's files and memory).
THEOREM TypeCorrect == Spec => []TypeOK
  BY InvariantHolds, PTL DEF IInv

\* No commit, rollback, cleanup, crash or failed adapter call leaves the
\* manifest it activated with a missing or damaged shard.
THEOREM ActiveStaysComplete == Spec => []ActiveComplete
  BY InvariantHolds, PTL DEF IInv

\* A shard the store may accept from its stat alone has the right bytes.
THEOREM CacheIsSound == Spec => []CachedIsGood
  BY InvariantHolds, PTL DEF IInv

\* Cleanup deletes only files no sealed manifest names.
THEOREM CleanupIsSafe == Spec => []RemovesOnlyOrphans
<1>1. IInv => RemovesOnlyOrphans
  BY DEF IInv, Control, LabelsOf, TypeOK, PlanSound, SealHolds, RemovesOnlyOrphans, Protected
<1> QED
  BY <1>1, InvariantHolds, PTL

\* The only steps that change manifest.json.
LEMMA ManifestWriters ==
    ASSUME Next
    PROVE  \/ manifest' = manifest \/ ReplaceManifest \/ CreateManifest \/ RestoreManifest
           \/ CommitFault \/ \E m \in PeerManifests : PeerManifest(m)
<1>1. CASE BeginStep
  BY <1>1 DEF BeginStep, BeginFull, BeginIncremental, disk
<1>2. CASE BeginLoad \/ PlanManifest \/ Crash
  BY <1>2 DEF BeginLoad, PlanManifest, Crash, disk
<1>3. CASE CleanupStep \/ CleanupFault
  BY <1>3 DEF CleanupStep, PlanFiles, ApplyPlan, EndCleanup, BeginCandidate, CheckSeal,
              InspectCandidate, ClaimShard, RemoveClaim, CheckRemoved, RestoreClaim,
              CleanupFault, disk
<1>4. CASE LoadStep
  BY <1>4 DEF LoadStep, EndLoad, LoadShard, disk
<1>5. CASE CommitStep
  BY <1>5 DEF CommitStep, ReadActive, ReuseVerified, ReadExisting, IncrementalShardsWritten,
              VerifyReused, CommitShard, PostflightShard, PostflightFails, RereadMissing,
              VerifyManifest, BeginPostflight, EndPostflight, disk
<1>6. CASE PeerStep
  BY <1>6 DEF PeerStep, PeerAlternate, PeerShard
<1>7. CASE \E s \in Shards : Age(s)
  BY <1>7 DEF Age
<1> QED
  BY <1>1, <1>2, <1>3, <1>4, <1>5, <1>6, <1>7 DEF Next, LocalStep

\* A commit that states its base replaces that base or its own write, never
\* a manifest it did not know of.
THEOREM BaseIsRespected == Spec => OnlyBaseReplaced
<1> DEFINE Replaces == Committing /\ base # AnyBase /\ manifest # manifest' /\ pc # "create"
                       /\ left'["peer"] = left["peer"]
<1>1. ASSUME IInv, Next, Replaces PROVE manifest \in {base, cand, Invalid}
  <2>1. CASE ReplaceManifest
    BY <2>1, <1>1 DEF ReplaceManifest
  <2>2. CASE RestoreManifest
    BY <2>2, <1>1 DEF RestoreManifest, Restored, IInv, RollbackKnows
  <2>3. CASE CommitFault
    BY <2>3, <1>1 DEF CommitFault, Publish
  <2>4. ASSUME NEW m \in PeerManifests, PeerManifest(m) PROVE FALSE
    BY <2>4, <1>1 DEF PeerManifest, Spend, IInv, TypeOK
  <2>5. CASE CreateManifest
    BY <2>5, <1>1 DEF CreateManifest
  <2> QED
    BY <1>1, <2>1, <2>2, <2>3, <2>4, <2>5, ManifestWriters
<1>2. IInv /\ [Next]_vars => [Replaces => manifest \in {base, cand, Invalid}]_vars
  BY <1>1
<1> QED
  BY <1>2, InvariantHolds, PTL DEF Spec, OnlyBaseReplaced


\* How a commit ends: it succeeds after postflight, it fails before it wrote
\* the manifest, it fails after its rollback, or the process dies.
LEMMA CommitEnds ==
    ASSUME IInv, Next, Committing, op' = "none"
    PROVE  \/ EndPostflight /\ result' = "committed"
           \/ pc \in {"active", "reuse", "shards"} /\ result' = "failed"
           \/ (RestoreManifest \/ CommitFault) /\ result' = "failed"
           \/ result' = "crashed"
<1> USE DEF Committing
<1>1. CASE BeginStep
  BY <1>1 DEF BeginStep, BeginFull, BeginIncremental
<1>2. CASE BeginLoad \/ PlanManifest \/ LoadStep \/ PeerStep \/ \E s \in Shards : Age(s)
  BY <1>2 DEF BeginLoad, PlanManifest, LoadStep, EndLoad, LoadShard, PeerStep, PeerManifest,
              PeerAlternate, PeerShard, Age, tx
<1>3. CASE CleanupStep
  <2>1. CASE PlanFiles \/ ApplyPlan \/ EndCleanup
    BY <2>1 DEF PlanFiles, ApplyPlan, EndCleanup, tx
  <2>2. CASE \E s \in Shards : BeginCandidate(s)
    BY <2>2 DEF BeginCandidate
  <2>3. CASE CheckSeal \/ InspectCandidate \/ ClaimShard \/ RemoveClaim \/ CheckRemoved
            \/ RestoreClaim
    BY <2>3 DEF CheckSeal, InspectCandidate, ClaimShard, RemoveClaim, CheckRemoved,
                RestoreClaim, IInv, Control, LabelsOf
  <2> QED
    BY <1>3, <2>1, <2>2, <2>3 DEF CleanupStep
<1>4. CASE CleanupFault \/ Crash
  BY <1>4 DEF CleanupFault, Crash, Finish
<1>5. CASE CommitFault
  BY <1>5 DEF CommitFault, Goto, Finish
<1>6. CASE CommitStep
  <2>1. CASE ReadActive \/ ReadExisting
    BY <2>1 DEF ReadActive, ReadExisting, Goto, Finish
  <2>2. CASE ReuseVerified \/ IncrementalShardsWritten \/ RereadMissing \/ VerifyManifest
    BY <2>2 DEF ReuseVerified, IncrementalShardsWritten, RereadMissing, VerifyManifest, Goto
  <2>3. ASSUME NEW s \in Shards,
               VerifyReused(s) \/ CommitShard(s) \/ PostflightShard(s) \/ PostflightFails(s)
        PROVE  pc \in {"active", "reuse", "shards"} /\ result' = "failed"
    BY <2>3 DEF VerifyReused, CommitShard, PostflightShard, PostflightFails, Goto, Finish
  <2>4. CASE ReplaceManifest \/ CreateManifest \/ BeginPostflight
    BY <2>4 DEF ReplaceManifest, CreateManifest, BeginPostflight, Goto
  <2>5. CASE RestoreManifest \/ EndPostflight
    BY <2>5 DEF RestoreManifest, EndPostflight, Goto, Finish
  <2> QED
    BY <1>6, <2>1, <2>2, <2>3, <2>4, <2>5 DEF CommitStep
<1> QED
  BY <1>1, <1>2, <1>3, <1>4, <1>5, <1>6 DEF Next, LocalStep

\* A commit that reports success left an active, complete candidate.
THEOREM SuccessMeansLoadable == Spec => CommittedLoads
<1> DEFINE Commits == Committing /\ op' = "none" /\ result' = "committed" /\ quiet
           Loads   == manifest = cand /\ \A s \in Refs[cand] : shard[s] = "good"
<1>1. ASSUME IInv, Next, Commits PROVE Loads
  <2>1. EndPostflight /\ result' = "committed"
    BY <1>1, CommitEnds
  <2>2. pc = "postShards" /\ todo = {} /\ loaded = cand
    BY <2>1, <1>1 DEF EndPostflight, Goto, Committing
  <2> QED
    BY <2>2, <1>1 DEF IInv, PostflightKnows
<1>2. IInv /\ [Next]_vars => [Commits => Loads]_vars
  BY <1>1
<1> QED
  BY <1>2, InvariantHolds, PTL DEF Spec, CommittedLoads

\* A commit that reports failure took its manifest back.
THEOREM FailureMeansUndone == Spec => FailedCommitUndone
<1> DEFINE Fails  == Committing /\ op' = "none" /\ result' = "failed" /\ left' = left
                     /\ published /\ manifest' = cand
           Undone == seen = NoFile \/ cand \in peerSnaps
<1>1. ASSUME IInv, Next, Fails PROVE Undone
  <2>1. RestoreManifest \/ CommitFault
    BY <1>1, CommitEnds DEF IInv, RollbackKnows
  <2>2. ~CommitFault
    <3>1. left["faults"] \in Nat
      BY <1>1 DEF IInv, TypeOK
    <3>2. CommitFault => left'["faults"] = left["faults"] - 1
      BY <1>1 DEF CommitFault, Spend, IInv, TypeOK
    <3> QED
      BY <1>1, <3>1, <3>2
  <2> QED
    BY <2>1, <2>2, <1>1 DEF RestoreManifest, Restored, IInv, RollbackKnows
<1>2. IInv /\ [Next]_vars => [Fails => Undone]_vars
  BY <1>1
<1> QED
  BY <1>2, InvariantHolds, PTL DEF Spec, FailedCommitUndone

----------------------------------------------------------------------------
(* IndexV8Store implements IndexV8Register: every step of a commit, of a      *)
(* cleanup, of a load and of the environment is a step of the register or     *)
(* leaves it alone.                                                           *)

\* A commit keeps the base it states for its rollback.
LEMMA BaseKnownStep == IInv /\ BaseKnown /\ [Next]_vars => BaseKnown'
<1> SUFFICES ASSUME IInv, BaseKnown, [Next]_vars PROVE BaseKnown'
  OBVIOUS
<1> USE DEF IInv, BaseKnown, Committing, Control, LabelsOf
<1>1. CASE BeginStep
  BY <1>1 DEF BeginStep, BeginFull, BeginIncremental
<1>2. CASE BeginLoad \/ PlanManifest \/ LoadStep \/ PeerStep \/ (\E s \in Shards : Age(s))
  BY <1>2 DEF BeginLoad, PlanManifest, LoadStep, EndLoad, LoadShard, PeerStep, PeerManifest,
              PeerAlternate, PeerShard, Age, tx
<1>3. CASE CleanupStep
  <2>1. CASE PlanFiles \/ ApplyPlan \/ EndCleanup
    BY <2>1 DEF PlanFiles, ApplyPlan, EndCleanup, tx
  <2>2. CASE \E s \in Shards : BeginCandidate(s)
    BY <2>2 DEF BeginCandidate
  <2>3. CASE CheckSeal \/ InspectCandidate \/ ClaimShard \/ RemoveClaim \/ CheckRemoved
            \/ RestoreClaim
    BY <2>3 DEF CheckSeal, SealLabel, InspectCandidate, ClaimShard, RemoveClaim,
                CheckRemoved, RestoreClaim, StopCleanup, NextFile, Goto, Finish
  <2> QED
    BY <1>3, <2>1, <2>2, <2>3 DEF CleanupStep
<1>4. CASE CleanupFault \/ Crash
  BY <1>4 DEF CleanupFault, Crash, StopCleanup, Goto, Finish
<1>5. CASE CommitFault
  BY <1>5 DEF CommitFault, Goto, Finish, txData
<1>6. CASE CommitStep
  <2>1. CASE ReadActive \/ ReadExisting
    BY <2>1, DataAssumption DEF ReadActive, ReadExisting, RollbackKnows, Goto, Finish
  <2>2. CASE ReuseVerified \/ IncrementalShardsWritten \/ RereadMissing \/ VerifyManifest
    BY <2>2 DEF ReuseVerified, IncrementalShardsWritten, RereadMissing, VerifyManifest,
                RollbackKnows, Goto
  <2>3. ASSUME NEW s \in Shards,
               VerifyReused(s) \/ CommitShard(s) \/ PostflightShard(s) \/ PostflightFails(s)
        PROVE  BaseKnown'
    BY <2>3 DEF VerifyReused, CommitShard, PostflightShard, PostflightFails, Goto, Finish
  <2>4. CASE ReplaceManifest \/ CreateManifest \/ BeginPostflight
    BY <2>4 DEF ReplaceManifest, CreateManifest, BeginPostflight, Goto
  <2>5. CASE RestoreManifest \/ EndPostflight
    BY <2>5 DEF RestoreManifest, EndPostflight, Goto, Finish
  <2> QED
    BY <1>6, <2>1, <2>2, <2>3, <2>4, <2>5 DEF CommitStep
<1>7. CASE UNCHANGED vars
  BY <1>7 DEF vars, tx
<1> QED
  BY <1>1, <1>2, <1>3, <1>4, <1>5, <1>6, <1>7 DEF Next, LocalStep

\* Both invariants together are inductive.
LEMMA BaseKnownHolds == Spec => [](IInv /\ BaseKnown)
<1>1. Init => BaseKnown
  BY DEF Init, BaseKnown, Committing
<1> QED
  BY <1>1, BaseKnownStep, InvariantHolds, PTL DEF Spec

\* An initial state of the store is one of the register.
LEMMA RegisterInit == Init => Register!Init
  BY PeerAssumption, DataAssumption
  DEF Init, Register!Init, Stage, Request, Committing

\* A step of the store that touches neither manifest.json nor the transaction
\* at the head of the queue is none of the register's.
LEMMA OutsideSteps ==
    ASSUME IInv,
           \/ BeginLoad \/ PlanManifest \/ LoadStep \/ (\E s \in Shards : Age(s))
           \/ PlanFiles \/ ApplyPlan \/ EndCleanup
           \/ (\E m \in PeerAlternates : PeerAlternate(m))
           \/ (\E s \in PeerShards, f \in Files : PeerShard(s, f))
    PROVE  UNCHANGED Register!vars
<1>1. UNCHANGED <<manifest, peerSnaps, published, tx>> /\ left'["faults"] = left["faults"]
  BY DEF IInv, TypeOK, BeginLoad, PlanManifest, LoadStep, EndLoad, LoadShard, Age, PlanFiles,
         ApplyPlan, EndCleanup, PeerAlternate, PeerShard, Spend, disk, history
<1> QED
  BY <1>1 DEF Register!vars, Stage, Request, Committing, tx

\* The peer's manifests arrive in the register.
LEMMA PeerSteps ==
    ASSUME IInv, NEW m \in PeerManifests, PeerManifest(m)
    PROVE  Register!Peer(m)
<1>1. left'["faults"] = left["faults"] /\ UNCHANGED <<published, tx>>
  BY DEF IInv, TypeOK, PeerManifest, Spend
<1> QED
  BY <1>1 DEF PeerManifest, Register!Peer, Register!Unbroken, Stage, Request, Committing, tx

\* A commit begins by stating its base.
LEMMA BeginSteps ==
    ASSUME IInv, BeginStep
    PROVE  \E b \in Snapshots \cup {NoFile, AnyBase}, n \in Snapshots : Register!Ask(b, n)
<1>1. PICK b \in Snapshots \cup {NoFile, AnyBase}, n \in Snapshots :
          BeginFull(b, n) \/ BeginIncremental(b, n)
  BY DEF BeginStep
<1>2. Stage \in {"idle", "committed", "failed", "crashed"} /\ Stage' = "asked"
  BY <1>1 DEF BeginFull, BeginIncremental, Idle, Stage, Committing
<1>3. Request' = [base |-> b, new |-> n, did |-> "nothing", undo |-> NoFile]
  BY <1>1, <1>2 DEF BeginFull, BeginIncremental, Request
<1>4. UNCHANGED <<manifest, peerSnaps>> /\ left'["faults"] = left["faults"]
  BY <1>1 DEF IInv, TypeOK, BeginFull, BeginIncremental, Spend, disk
<1> QED
  BY <1>2, <1>3, <1>4 DEF Register!Ask, Register!Ended, Register!Unbroken

\* A cleanup transaction has nothing to do with the register.
LEMMA CleanupSteps ==
    ASSUME IInv,
           \/ CheckSeal \/ InspectCandidate \/ ClaimShard \/ RemoveClaim \/ CheckRemoved
           \/ RestoreClaim \/ CleanupFault \/ (\E s \in Shards : BeginCandidate(s))
    PROVE  Register!Cleanup
<1>1. UNCHANGED <<manifest, peerSnaps, published, base, cand, seen>> /\ ~Committing /\ ~Committing'
  BY DEF IInv, Control, LabelsOf, Committing, CheckSeal, SealLabel, InspectCandidate, ClaimShard,
         RemoveClaim, CheckRemoved, RestoreClaim, CleanupFault, BeginCandidate, StopCleanup,
         NextFile, Goto, Finish, Idle, disk, txData, history
<1>2. result' \in {result, "stopped", "next"}
  BY DEF CheckSeal, InspectCandidate, ClaimShard,
         RemoveClaim, CheckRemoved, RestoreClaim, CleanupFault, BeginCandidate, StopCleanup,
         NextFile, Goto, Finish
<1>3. \/ left'["faults"] = left["faults"]
      \/ left["faults"] > 0 /\ left'["faults"] = left["faults"] - 1
  BY DEF IInv, TypeOK, CheckSeal, InspectCandidate, ClaimShard, RemoveClaim, CheckRemoved,
         RestoreClaim, CleanupFault, BeginCandidate, Spend
<1>4. Stage \in {"idle", "committed", "failed", "crashed"} /\ Stage' \in {Stage, "idle"}
  BY <1>1, <1>2 DEF Stage
<1>5. Request' = Request
  BY <1>1, <1>4 DEF Request
<1> QED
  BY <1>1, <1>3, <1>4, <1>5 DEF Register!Cleanup, Register!Ended, Register!Unbroken, Register!Broken

\* Each step of a commit is one of the register, or none.
LEMMA CommitSteps ==
    ASSUME IInv, BaseKnown, CommitStep
    PROVE  Register!Next \/ UNCHANGED Register!vars
<1>t. op \in {"none", "full", "incremental", "cleanup"}
  BY DEF IInv, TypeOK
<1> USE <1>t DEF Committing, Register!Unbroken
<1> DEFINE Same == UNCHANGED <<manifest, peerSnaps, published, base, cand>>
<1>r. ASSUME Same, Stage' = Stage, seen' = seen, UNCHANGED left
      PROVE  UNCHANGED Register!vars
  BY <1>r DEF Register!vars, Request
<1>f. ASSUME Same, Stage \in {"asked", "looked"}, ~published, Stage' = "failed", UNCHANGED left
      PROVE  Register!Fail
  BY <1>f DEF Register!Fail, Register!LeavesAlone, Register!Forget, Request
<1>d. ASSUME Same, Stage \in {"looked", "confirmed"}, Stage' = "looked", seen' = seen,
             UNCHANGED left
      PROVE  Register!Doubt
  BY <1>d DEF Register!Doubt, Request
<1>l. ASSUME Same, Stage = "asked", Stage' = "looked", seen' = manifest,
             base \in {AnyBase, manifest}, UNCHANGED left
      PROVE  Register!Look
  BY <1>l DEF Register!Look, Request
<1>1. CASE ReadActive
  <2>1. Same /\ UNCHANGED <<left, seen>> /\ Stage = "asked"
    BY <1>1 DEF ReadActive, disk, history, Stage, IInv, Control, LabelsOf
  <2>2. CASE manifest = base
    BY <1>1, <1>l, <2>1, <2>2 DEF ReadActive, Goto, Stage, IInv, Control, LabelsOf,
                                  RollbackKnows, Register!Next
  <2>3. CASE manifest # base
    BY <1>1, <1>f, <2>1, <2>3 DEF ReadActive, Finish, Stage, IInv, RollbackKnows, Register!Next
  <2> QED
    BY <2>2, <2>3
<1>2. CASE ReuseVerified \/ IncrementalShardsWritten \/ RereadMissing
  <2>1. Same /\ UNCHANGED <<left, seen>>
    BY <1>2 DEF ReuseVerified, IncrementalShardsWritten, RereadMissing, disk, history
  <2>2. Stage' = Stage
    BY <1>2 DEF ReuseVerified, IncrementalShardsWritten, RereadMissing, Goto, Stage, IInv,
                Control, LabelsOf
  <2> QED
    BY <1>r, <2>1, <2>2
<1>3. CASE ReadExisting
  <2>1. Same /\ UNCHANGED left /\ Stage = "asked" /\ ~published /\ seen' = manifest
    BY <1>3 DEF ReadExisting, disk, history, Stage, IInv, RollbackKnows
  <2>2. CASE base # AnyBase /\ manifest # base
    BY <1>3, <1>f, <2>1, <2>2 DEF ReadExisting, Finish, Stage, Register!Next
  <2>3. CASE base \in {AnyBase, manifest}
    BY <1>3, <1>l, <2>1, <2>3 DEF ReadExisting, Goto, Stage, Register!Next
  <2> QED
    BY <2>2, <2>3
<1>4. ASSUME NEW s \in Shards, VerifyReused(s) \/ CommitShard(s)
      PROVE  Register!Next \/ UNCHANGED Register!vars
  <2>1. /\ Same /\ UNCHANGED <<left, seen>> /\ ~published
        /\ Stage \in {"asked", "looked"}
    BY <1>4 DEF VerifyReused, CommitShard, disk, Stage, IInv, Control, LabelsOf, RollbackKnows
  <2>2. Stage' \in {Stage, "failed"}
    BY <1>4 DEF VerifyReused, CommitShard, Finish, Stage
  <2> QED
    BY <1>r, <1>f, <2>1, <2>2 DEF Register!Next
<1>5. ASSUME NEW s \in Shards, PostflightShard(s) \/ PostflightFails(s)
      PROVE  Register!Next \/ UNCHANGED Register!vars
  <2>1. Same /\ UNCHANGED <<left, seen>> /\ Stage = "confirmed"
    BY <1>5 DEF PostflightShard, PostflightFails, disk, history, Stage, IInv, Control, LabelsOf
  <2>2. Stage' \in {Stage, "looked"}
    BY <1>5 DEF PostflightShard, PostflightFails, Goto, Stage
  <2> QED
    BY <1>r, <1>d, <2>1, <2>2 DEF Register!Next
<1>6. CASE ReplaceManifest \/ CreateManifest
  <2>1. /\ UNCHANGED <<base, cand, seen, left>> /\ ~published /\ seen # cand
        /\ Stage = "looked" /\ Stage' = "looked"
    BY <1>6 DEF ReplaceManifest, CreateManifest, Goto, Stage, IInv, Control, LabelsOf,
                RollbackKnows
  <2>2. CASE Publish
    <3>1. base \in {AnyBase, NoFile, manifest}
      BY <1>6, <2>2, <2>1 DEF ReplaceManifest, CreateManifest, BaseKnown, Publish, Goto
    <3>2. Request' = [Request EXCEPT !.did = "swapped"]
      BY <2>1, <2>2 DEF Publish, Request
    <3>3. /\ Request.base = base /\ Request.new = cand /\ Request.undo = seen
          /\ Request.did = "nothing"
      BY <2>1 DEF Request
    <3>4. Register!Swap
      BY <2>1, <2>2, <3>1, <3>2, <3>3 DEF Publish, Register!Swap
    <3> QED
      BY <3>4 DEF Register!Next
  <2>3. CASE UNCHANGED <<manifest, peerSnaps, published>>
    BY <1>r, <2>1, <2>3
  <2> QED
    BY <1>6, <2>2, <2>3 DEF ReplaceManifest, CreateManifest
<1>7. CASE VerifyManifest
  <2>1. Same /\ UNCHANGED <<left, seen>> /\ Stage = "looked"
    BY <1>7 DEF VerifyManifest, disk, Stage, IInv, Control, LabelsOf
  <2>2. CASE manifest = cand
    <3>1. Stage' = "confirmed"
      BY <1>7, <2>2 DEF VerifyManifest, Goto, Stage, IInv, Control, LabelsOf
    <3> QED
      BY <2>1, <2>2, <3>1 DEF Register!Confirm, Register!Next, Request
  <2>3. CASE manifest # cand
    BY <1>7, <1>r, <2>1, <2>3 DEF VerifyManifest, Goto, Stage, IInv, Control, LabelsOf
  <2> QED
    BY <2>2, <2>3
<1>8. CASE RestoreManifest
  <2>1. /\ UNCHANGED <<peerSnaps, published, base, cand, seen, left>>
        /\ Stage = "looked" /\ Stage' = "failed" /\ manifest' = Restored
    BY <1>8 DEF RestoreManifest, Finish, Stage, history, IInv, Control, LabelsOf
  <2>2. CASE seen # NoFile /\ manifest = attempted
    BY <2>1, <2>2, <1>8 DEF RestoreManifest, Restored, IInv, Control, LabelsOf, RollbackKnows,
                      Register!Fail, Register!TakesBack, Register!Forget, Register!Next, Request
  <2>3. CASE ~(seen # NoFile /\ manifest = attempted)
    <3>1. published /\ manifest = cand => seen = NoFile \/ cand \in peerSnaps
      BY <2>3, <1>8 DEF RestoreManifest, IInv, Control, LabelsOf, RollbackKnows
    <3> QED
      BY <2>1, <2>3, <3>1 DEF Restored, Register!Fail, Register!LeavesAlone, Register!Forget,
                              Register!Next, Request
  <2> QED
    BY <2>2, <2>3
<1>9. CASE BeginPostflight
  <2>1. Same /\ UNCHANGED <<left, seen>> /\ Stage = "confirmed"
    BY <1>9 DEF BeginPostflight, disk, history, Stage, IInv, Control, LabelsOf
  <2>2. Stage' \in {Stage, "looked"}
    BY <1>9 DEF BeginPostflight, Goto, Stage, IInv, Control, LabelsOf
  <2> QED
    BY <1>r, <1>d, <2>1, <2>2 DEF Register!Next
<1>10. CASE EndPostflight
  <2>1. Same /\ UNCHANGED <<left, seen>> /\ Stage = "confirmed"
    BY <1>10 DEF EndPostflight, disk, history, Stage, IInv, Control, LabelsOf
  <2>2. Stage' \in {"committed", "looked"}
    BY <1>10 DEF EndPostflight, Goto, Finish, Stage, IInv, Control, LabelsOf
  <2>3. CASE Stage' = "committed"
    BY <2>1, <2>3 DEF Register!Succeed, Register!Forget, Register!Next, Request
  <2> QED
    BY <1>d, <2>1, <2>2, <2>3 DEF Register!Next
<1> QED
  BY <1>1, <1>2, <1>3, <1>4, <1>5, <1>6, <1>7, <1>8, <1>9, <1>10 DEF CommitStep

\* A call of a commit that fails may have swapped the register, and may keep
\* the commit from taking that back.
LEMMA FaultSteps ==
    ASSUME IInv, BaseKnown, CommitFault
    PROVE  Register!Next
<1>1. UNCHANGED <<base, cand, seen>> /\ Committing
  BY DEF CommitFault, txData
<1>2. Register!Broken
  BY DEF CommitFault, Spend, IInv, TypeOK, Register!Broken
<1>3. CASE UNCHANGED <<manifest, peerSnaps, published>> /\ Stage \in {"asked", "looked"}
           /\ Stage' = "failed"
  BY <1>1, <1>2, <1>3 DEF Register!Abandon, Register!Forget, Register!Next, Request
<1>4. CASE UNCHANGED <<manifest, peerSnaps, published>> /\ Stage \in {"looked", "confirmed"}
           /\ Stage' = "looked"
  BY <1>1, <1>2, <1>4 DEF Register!Doubt, Register!Next, Request
<1>5. CASE Publish /\ pc \in {"create", "write"} /\ Stage' = "looked"
           /\ (pc = "write" => base \in {AnyBase, manifest})
  <2>1. ~published /\ seen # cand /\ Stage = "looked" /\ base \in {AnyBase, NoFile, manifest}
    BY <1>1, <1>5 DEF IInv, RollbackKnows, BaseKnown, Stage, Committing
  <2>2. Request' = [Request EXCEPT !.did = "swapped"]
    BY <1>1, <1>5, <2>1 DEF Publish, Request
  <2>3. /\ Request.base = base /\ Request.new = cand /\ Request.undo = seen
        /\ Request.did = "nothing"
    BY <2>1 DEF Request
  <2>4. Register!Swap
    BY <1>2, <1>5, <2>1, <2>2, <2>3, <1>1 DEF Publish, Register!Swap
  <2> QED
    BY <2>4 DEF Register!Next
<1> QED
  <2>1. CASE pc \in {"active", "reuse", "shards", "restore"} /\ Finish("failed")
             /\ UNCHANGED <<manifest, peerSnaps, published>>
    BY <1>1, <1>3, <2>1 DEF Finish, Stage, Committing
  <2>2. CASE /\ pc \in {"write", "race", "create", "verify", "post", "postShards"}
             /\ Goto("restore") /\ UNCHANGED <<manifest, peerSnaps, published>>
    BY <1>1, <1>4, <2>2 DEF Goto, Stage, Committing
  <2>3. CASE /\ pc = "create" \/ (pc = "write" /\ base \in {AnyBase, manifest})
             /\ Publish /\ Goto("restore")
    BY <1>1, <1>5, <2>3 DEF Goto, Stage, Committing
  <2> QED
    BY <2>1, <2>2, <2>3 DEF CommitFault

\* The end of the process.
LEMMA CrashSteps ==
    ASSUME IInv, Crash
    PROVE  Register!Crash
<1>1. Stage' = "crashed"
  BY DEF Crash, Finish, Stage, Committing
<1>2. UNCHANGED <<manifest, peerSnaps, published, base, cand>>
  BY DEF Crash, txData, history
<1>3. Register!Broken
  BY DEF Crash, Spend, IInv, TypeOK, Register!Broken
<1> QED
  BY <1>1, <1>2, <1>3 DEF Register!Crash, Register!Forget, Request

\* A full or incremental commit is a compare-and-swap of the active manifest,
\* whatever the peer does, whichever calls fail and wherever the process dies.
THEOREM CommitIsCompareAndSwap == Spec => ImplementsRegister
<1>1. IInv /\ BaseKnown /\ [Next]_vars => [Register!Next]_(Register!vars)
  <2> SUFFICES ASSUME IInv, BaseKnown, [Next]_vars
               PROVE  Register!Next \/ UNCHANGED Register!vars
    OBVIOUS
  <2>1. CASE UNCHANGED vars
    BY <2>1 DEF vars, disk, tx, history, Register!vars, Stage, Request, Committing
  <2>2. CASE Next
    BY <2>2, BeginSteps, OutsideSteps, PeerSteps, CleanupSteps, CommitSteps, FaultSteps,
       CrashSteps DEF Next, LocalStep, PeerStep, CleanupStep, Register!Next
  <2> QED
    BY <2>1, <2>2
<1> QED
  BY <1>1, RegisterInit, BaseKnownHolds, PTL DEF Spec, ImplementsRegister, Register!Spec
=============================================================================
