------------------------------ MODULE WriteQueue ------------------------------
(***************************************************************************)
(* storage/write-queue.ts: the promise chains that serialise the writes of *)
(* every store.  The queue of a key is remembered by its last operation; a *)
(* new operation waits for that one, takes its place, and gives the place  *)
(* back when it has ended and nobody came after it.  drain waits until no  *)
(* queue is left, clear forgets the queues and leaves what they run alone. *)
(***************************************************************************)
EXTENDS Naturals

CONSTANTS
    Ops,     \* calls of enqueue
    Keys,    \* resources: file paths
    None,    \* no operation
    Unloads  \* the owner is destroyed at some time

ASSUME NoneAssumption == None \notin Ops

VARIABLES
    at,       \* what became of every call: "new", "waiting", "running", "done", "failed"
    key,      \* its key
    prev,     \* the operation it waits for
    turn,     \* its place among all calls (history)
    clock,    \* calls so far (history)
    queues,   \* the last operation of every key, or None
    tracked,  \* operations whose finally handler has still to run
    drain,    \* "no", "waiting", "returned"
    awaited,  \* the operations that the drain awaits
    cleared

vars == <<at, key, prev, turn, clock, queues, tracked, drain, awaited, cleared>>

Ended(o)   == at[o] \in {"done", "failed"}
Started(o) == at[o] = "running" \/ Ended(o)
Queued     == {queues[k] : k \in Keys} \ {None}

Init ==
    /\ at = [o \in Ops |-> "new"] /\ key \in [Ops -> Keys]
    /\ prev = [o \in Ops |-> None] /\ turn = [o \in Ops |-> 0] /\ clock = 0
    /\ queues = [k \in Keys |-> None] /\ tracked = {}
    /\ drain = "no" /\ awaited = {} /\ cleared = FALSE

Enqueue(o) ==
    /\ at[o] = "new"
    /\ at' = [at EXCEPT ![o] = "waiting"]
    /\ prev' = [prev EXCEPT ![o] = queues[key[o]]]
    /\ queues' = [queues EXCEPT ![key[o]] = o]
    /\ tracked' = tracked \cup {o}
    /\ clock' = clock + 1 /\ turn' = [turn EXCEPT ![o] = clock']
    /\ UNCHANGED <<key, drain, awaited, cleared>>

\* Variant: a rejected operation rejects the chain.
Ready_NoCatch(o) == prev[o] # None => at[prev[o]] = "done"

\* The chain goes on after an operation that failed.
Ready(o) == prev[o] # None => Ended(prev[o])

Start(o) ==
    /\ at[o] = "waiting" /\ Ready(o)
    /\ at' = [at EXCEPT ![o] = "running"]
    /\ UNCHANGED <<key, prev, turn, clock, queues, tracked, drain, awaited, cleared>>

Settle(o) ==
    /\ at[o] = "running"
    /\ \E outcome \in {"done", "failed"} : at' = [at EXCEPT ![o] = outcome]
    /\ UNCHANGED <<key, prev, turn, clock, queues, tracked, drain, awaited, cleared>>

\* Variant: the queue is dropped even if another operation has joined it.
Forget_Blind(o) == queues' = [queues EXCEPT ![key[o]] = None]

\* The queue is dropped only by its last operation.
Forget(o) ==
    queues' = IF queues[key[o]] = o THEN [queues EXCEPT ![key[o]] = None] ELSE queues

\* The finally handler of an operation runs some time after its end.
Untrack(o) ==
    /\ o \in tracked /\ Ended(o)
    /\ tracked' = tracked \ {o}
    /\ Forget(o)
    /\ UNCHANGED <<at, key, prev, turn, clock, drain, awaited, cleared>>

DrainBegins ==
    /\ drain = "no"
    /\ drain' = IF Queued = {} THEN "returned" ELSE "waiting"
    /\ awaited' = Queued
    /\ UNCHANGED <<at, key, prev, turn, clock, queues, tracked, cleared>>

\* Variant: operations that joined during the wait are not awaited.
Again_Once == {}

\* drain looks again after every wait.
Again == Queued

DrainContinues ==
    /\ drain = "waiting" /\ \A o \in awaited : Ended(o)
    /\ awaited' = Again
    /\ drain' = IF Again = {} THEN "returned" ELSE "waiting"
    /\ UNCHANGED <<at, key, prev, turn, clock, queues, tracked, cleared>>

\* OperonStorage.destroy, after flushPendingWrites has drained the queue.
Clear ==
    /\ Unloads /\ drain = "returned" /\ ~cleared
    /\ cleared' = TRUE
    /\ queues' = [k \in Keys |-> None]
    /\ UNCHANGED <<at, key, prev, turn, clock, tracked, drain, awaited>>

Next == \/ \E o \in Ops : Enqueue(o) \/ Start(o) \/ Settle(o) \/ Untrack(o)
        \/ DrainBegins \/ DrainContinues \/ Clear

Spec == Init /\ [][Next]_vars

----------------------------------------------------------------------------
(* Properties *)

\* "Operations with the same key execute sequentially." (write-queue.ts:13)
Sequential ==
    \A o, p \in Ops : at[o] = "running" /\ at[p] = "running" /\ key[o] = key[p] => o = p

\* Until the queues are cleared, an operation starts only after every earlier
\* one of its key has ended, failed ones and emptied queues included.
InOrder ==
    ~cleared => \A o, p \in Ops :
        at[o] # "new" /\ key[o] = key[p] /\ turn[o] < turn[p] /\ Started(p) => Ended(o)

\* When drain returns, no operation is left: also none that joined meanwhile.
DrainLeavesNothing ==
    [][drain # "returned" /\ drain' = "returned"
       => \A o \in Ops : at[o] = "new" \/ Ended(o)]_vars

=============================================================================
