-------------------------- MODULE WriteQueueInvariant --------------------------
(***************************************************************************)
(* The inductive invariant of WriteQueue.                                  *)
(***************************************************************************)
EXTENDS WriteQueue

TypeOK ==
    /\ at \in [Ops -> {"new", "waiting", "running", "done", "failed"}]
    /\ key \in [Ops -> Keys] /\ prev \in [Ops -> Ops \cup {None}]
    /\ turn \in [Ops -> Nat] /\ clock \in Nat
    /\ queues \in [Keys -> Ops \cup {None}] /\ tracked \subseteq Ops
    /\ drain \in {"no", "waiting", "returned"} /\ awaited \subseteq Ops
    /\ cleared \in BOOLEAN

\* Calls are numbered in their order.
Numbered ==
    /\ \A o \in Ops : at[o] # "new" => turn[o] \in 1 .. clock
    /\ \A o, p \in Ops : at[o] # "new" /\ at[p] # "new" /\ turn[o] = turn[p] => o = p

Before(o, p) == at[o] # "new" /\ key[o] = key[p] /\ turn[o] < turn[p]

\* The queue of a key is known by its last call, and is forgotten only when
\* every call has ended.
LastKnown ==
    ~cleared => \A o \in Ops : at[o] # "new" =>
        IF queues[key[o]] = None THEN Ended(o)
        ELSE o = queues[key[o]] \/ Before(o, queues[key[o]])
QueueNamed ==
    \A k \in Keys : queues[k] # None => at[queues[k]] # "new" /\ key[queues[k]] = k

\* What came before a call has ended or is what the call waits for, or comes
\* before that.
Chained ==
    ~cleared => \A o, p \in Ops : at[p] # "new" /\ Before(o, p) =>
        \/ Ended(o)
        \/ prev[p] # None /\ (o = prev[p] \/ Before(o, prev[p]))
PrevCalled ==
    \A o \in Ops : prev[o] # None => at[prev[o]] # "new" /\ key[prev[o]] = key[o]

QueueInv == TypeOK /\ Numbered /\ LastKnown /\ QueueNamed /\ Chained /\ PrevCalled /\ InOrder
=============================================================================
