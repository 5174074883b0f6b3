------------------------- MODULE IndexV8StoreInvariant -------------------------
(***************************************************************************)
(* The inductive invariant behind the safety properties of IndexV8Store:   *)
(* what each transaction of the write queue knows at each of its awaits,   *)
(* and what no actor can take from it there.                               *)
(***************************************************************************)
EXTENDS IndexV8Store

LabelsOf ==
    [none        |-> {"idle"},
     full        |-> {"shards", "race", "write", "create", "verify", "restore",
                      "post", "postShards"},
     incremental |-> {"active", "reuse", "shards", "write", "verify", "restore",
                      "post", "postShards"},
     cleanup     |-> {"check", "inspect", "seal", "sealAlternates", "claim", "reseal",
                      "resealAlternates", "remove", "removed", "unclaim"}]

\* The program counter belongs to the transaction at the head of the queue.
Control ==
    /\ pc \in LabelsOf[op]
    /\ Committing => cand \in Snapshots
    /\ op = "incremental" => base \in Snapshots

\* While a commit writes shards, those it is done with are good; when it has
\* written them all, its candidate is intact.
CandidateShards ==
    /\ pc = "reuse" => \A s \in ((Refs[cand] \cap Refs[base]) \ todo) \ peerShards :
                          shard[s] = "good"
    /\ pc = "shards" => \A s \in (Refs[cand] \ todo) \ peerShards : shard[s] = "good"
    /\ pc \in {"race", "write", "create"} => Intact(cand)

\* The manifest a rollback would put back is still worth putting back.
RollbackIntact ==
    Committing /\ pc # "active" /\ seen \in Snapshots \ peerSnaps => Intact(seen)

\* What a rollback takes for its own write is its own write: the candidate is
\* not the manifest it would restore, and it has published nothing before the
\* manifest write.
RollbackKnows ==
    /\ Committing => attempted \in {cand, Invalid}
    /\ Committing /\ pc # "restore" => attempted = cand
    /\ op = "incremental" => seen = base
    /\ Committing /\ published /\ attempted = Invalid /\ manifest = cand
          => cand \in peerSnaps
    /\ pc \in {"active", "reuse", "shards", "race", "write", "create"} => ~published
    /\ pc \in {"race", "write", "create"} => seen # cand
    /\ Committing /\ published => seen # cand

\* What postflight has read since the manifest was read back stands.
PostflightKnows ==
    /\ pc \in {"post", "postShards"} /\ quiet => manifest = cand
    /\ pc = "postShards" => loaded \in Snapshots
    /\ pc = "postShards" /\ quiet => \A s \in Refs[loaded] \ todo : shard[s] = "good"

\* No file of the plan is referenced by the manifests the plan was sealed with.
PlanSound ==
    /\ plan.at # "idle" => plan.manifest \in Snapshots
    /\ plan.at \in {"apply", "loop"} =>
          plan.files \cap (Refs[plan.manifest] \cup Protected(plan.alternates)) = {}
    /\ op = "cleanup" => plan.at = "loop" /\ target \in plan.files

\* Between the first seal and the claim only the peer changes the manifest;
\* after the last seals nobody has, unless the peer did.
SealHolds ==
    /\ pc \in {"inspect", "seal", "sealAlternates", "claim"}
          => manifest = plan.manifest \/ manifest \notin Snapshots \/ manifest \in peerSnaps
    /\ pc \in {"resealAlternates", "remove"} /\ quiet => manifest = plan.manifest
    /\ pc = "remove" /\ quiet => alternates = plan.alternates

\* What a commit would put back is the base it states; only the first
\* activation is created rather than replaced.
BaseKnown ==
    /\ Committing /\ base # AnyBase /\ ~(op = "full" /\ pc = "shards") => seen = base
    /\ pc \in {"race", "create"} => base = NoFile

IInv ==
    /\ TypeOK /\ Control /\ ActiveComplete /\ CachedIsGood
    /\ CandidateShards /\ RollbackIntact /\ RollbackKnows /\ PostflightKnows
    /\ PlanSound /\ SealHolds
=============================================================================
