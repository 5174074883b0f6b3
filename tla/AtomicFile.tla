------------------------------ MODULE AtomicFile ------------------------------
(***************************************************************************)
(* What a safe write promises its caller: the new contents replace the old *)
(* ones in one step, some time between its call and its return, and they   *)
(* do so if and only if it returns without an error.  Nothing else ever    *)
(* changes a file, and a file is never half written.                       *)
(***************************************************************************)
CONSTANTS Ops, Keys, None

VARIABLES
    at,        \* what became of every write
    key,       \* its file
    took,      \* the writes that took effect
    contents   \* of every file: the write it comes from, or None

Begin(o) ==
    /\ at[o] \notin {"running", "done", "failed"}
    /\ at' = [at EXCEPT ![o] = "running"]
    /\ UNCHANGED <<key, took, contents>>

TakeEffect(o) ==
    /\ at[o] = "running" /\ o \notin took
    /\ took' = took \cup {o}
    /\ contents' = [contents EXCEPT ![key[o]] = o]
    /\ at' \in {at, [at EXCEPT ![o] = "done"]}
    /\ UNCHANGED key

Return(o) ==
    /\ at[o] = "running"
    /\ at' = [at EXCEPT ![o] = IF o \in took THEN "done" ELSE "failed"]
    /\ UNCHANGED <<key, took, contents>>

Wait(o) ==
    /\ at[o] = "new"
    /\ at' = [at EXCEPT ![o] = "waiting"]
    /\ UNCHANGED <<key, took, contents>>

Init == /\ at = [o \in Ops |-> "new"] /\ key \in [Ops -> Keys]
        /\ took = {} /\ contents = [k \in Keys |-> None]

Next == \E o \in Ops : Wait(o) \/ Begin(o) \/ TakeEffect(o) \/ Return(o)

Spec == Init /\ [][Next]_<<at, key, took, contents>>
=============================================================================
