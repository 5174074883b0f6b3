------------------------------ MODULE QueuedFile ------------------------------
(***************************************************************************)
(* storage/storage-file-ops.ts under storage/write-queue.ts: the           *)
(* operations of the write queue are calls of writeTextSafely.  An         *)
(* existing file is replaced by adapter.process, in one step.  Otherwise,  *)
(* or when atomic replacement is forced, the text goes to a temporary      *)
(* file, the old file is moved aside, the temporary file is moved into its *)
(* place, and the old one is removed; an error on the way moves the old    *)
(* file back.  A process that ends at any step leaves the files as they    *)
(* are then.                                                               *)
(*                                                                         *)
(* The contents of a file are the operation that wrote them.  An adapter   *)
(* call that fails has no effect, except that a write leaves part of the   *)
(* text; a rename fails when the source is gone or the target exists.      *)
(* Adapters without rename, of which Obsidian has none, are left out.      *)
(***************************************************************************)
EXTENDS WriteQueueInvariant

CONSTANTS
    Torn,         \* a file that is only partly written
    MaxFailures   \* how many adapter calls fail

ASSUME QueuedFileAssumption == Torn \notin Ops \cup {None} /\ MaxFailures \in Nat

VARIABLES
    force,    \* the operations that force atomic replacement
    step,     \* where a running operation is
    file,     \* what the files contain
    temp,     \* the temporary file of an operation
    aside,    \* the file it has moved aside
    failures, \* how many calls have failed
    stuck     \* history: operations that could not move the old file back

calls == <<step, file, temp, aside, failures, stuck>>
fvars == <<vars, force, calls>>

\* A call either succeeds or is one of the failures.
Call(ok) == IF ok THEN UNCHANGED failures
            ELSE failures < MaxFailures /\ failures' = failures + 1

Ends(o, outcome) == Settle(o) /\ at'[o] = outcome /\ step' = [step EXCEPT ![o] = "ended"]
Goes(o, s)       == step' = [step EXCEPT ![o] = s] /\ UNCHANGED vars

Set(f, x, v) == [f EXCEPT ![x] = v]

FInit ==
    /\ Init
    /\ force \in SUBSET Ops
    /\ step = [o \in Ops |-> "idle"]
    /\ file = [k \in Keys |-> None]
    /\ temp = [o \in Ops |-> None] /\ aside = [o \in Ops |-> None]
    /\ failures = 0 /\ stuck = {}

\* Its turn has come: it looks whether there is a file.
Begin(o) ==
    /\ Start(o)
    /\ step' = [step EXCEPT ![o] = IF o \notin force /\ file[key[o]] # None
                                   THEN "process" ELSE "temp"]
    /\ UNCHANGED <<force, file, temp, aside, failures, stuck>>

Process(o, ok) ==
    /\ step[o] = "process" /\ Call(ok)
    /\ file' = IF ok THEN Set(file, key[o], o) ELSE file
    /\ Ends(o, IF ok THEN "done" ELSE "failed")
    /\ UNCHANGED <<force, temp, aside, stuck>>

WriteBegins(o) ==
    /\ step[o] = "temp" /\ temp[o] = None
    /\ temp' = Set(temp, o, Torn)
    /\ UNCHANGED <<vars, force, step, file, aside, failures, stuck>>

\* A temporary file that could not be written is left behind.
WriteEnds(o, ok) ==
    /\ step[o] = "temp" /\ temp[o] = Torn /\ Call(ok)
    /\ IF ok THEN temp' = Set(temp, o, o) /\ Goes(o, "aside")
       ELSE Ends(o, "failed") /\ UNCHANGED temp
    /\ UNCHANGED <<force, file, aside, stuck>>

\* Variant: the old file is removed instead.
Kept_Removed(o) == None

\* What becomes of the old file: it is kept beside.
Kept(o) == file[key[o]]

MoveAside(o, ok) ==
    /\ step[o] = "aside"
    /\ IF file[key[o]] = None
       THEN /\ Goes(o, "into")
            /\ UNCHANGED <<file, aside, failures>>
       ELSE /\ Call(ok)
            /\ aside' = IF ok THEN Set(aside, o, Kept(o)) ELSE aside
            /\ file' = IF ok THEN Set(file, key[o], None) ELSE file
            /\ Goes(o, IF ok THEN "into" ELSE "clean")
    /\ UNCHANGED <<force, temp, stuck>>

MoveInto(o, ok) ==
    /\ step[o] = "into"
    /\ IF file[key[o]] = None
       THEN /\ Call(ok)
            /\ file' = IF ok THEN Set(file, key[o], temp[o]) ELSE file
            /\ temp' = IF ok THEN Set(temp, o, None) ELSE temp
            /\ IF ~ok THEN Goes(o, "restore")
               ELSE IF aside[o] # None THEN Goes(o, "drop")
               ELSE Ends(o, "done")
       ELSE Goes(o, "restore") /\ UNCHANGED <<file, temp, failures>>
    /\ UNCHANGED <<force, aside, stuck>>

\* The new file counts, whether or not the old one can be removed.
DropOld(o, ok) ==
    /\ step[o] = "drop" /\ Call(ok)
    /\ aside' = IF ok THEN Set(aside, o, None) ELSE aside
    /\ Ends(o, "done")
    /\ UNCHANGED <<force, file, temp, stuck>>

\* Variant: the old file stays aside.
Movable_Never(o) == FALSE

\* The old file is moved back into a place that is empty.
Movable(o) == aside[o] # None /\ file[key[o]] = None

Restore(o, ok) ==
    /\ step[o] = "restore"
    /\ IF Movable(o)
       THEN /\ Call(ok)
            /\ file' = IF ok THEN Set(file, key[o], aside[o]) ELSE file
            /\ aside' = IF ok THEN Set(aside, o, None) ELSE aside
            /\ stuck' = IF ok THEN stuck ELSE stuck \cup {o}
       ELSE UNCHANGED <<file, aside, failures, stuck>>
    /\ Goes(o, "clean")
    /\ UNCHANGED <<force, temp>>

Clean(o, ok) ==
    /\ step[o] = "clean" /\ Call(ok)
    /\ temp' = IF ok THEN Set(temp, o, None) ELSE temp
    /\ Ends(o, "failed")
    /\ UNCHANGED <<force, file, aside, stuck>>

Operate(o) ==
    \/ WriteBegins(o)
    \/ \E ok \in BOOLEAN :
        \/ Process(o, ok) \/ WriteEnds(o, ok) \/ MoveAside(o, ok) \/ MoveInto(o, ok)
        \/ DropOld(o, ok) \/ Restore(o, ok) \/ Clean(o, ok)

Queue == (\E o \in Ops : Enqueue(o) \/ Untrack(o)) \/ DrainBegins \/ DrainContinues \/ Clear

FNext == \/ \E o \in Ops : Begin(o) \/ Operate(o)
         \/ Queue /\ UNCHANGED <<force, calls>>

\* Promises settle, and the adapter's calls return.
Fairness ==
    /\ \A o \in Ops : /\ WF_fvars(Begin(o)) /\ WF_fvars(Operate(o))
                      /\ WF_fvars(Untrack(o) /\ UNCHANGED <<force, calls>>)
    /\ WF_fvars(DrainContinues /\ UNCHANGED <<force, calls>>)

FSpec == FInit /\ [][FNext]_fvars /\ Fairness

----------------------------------------------------------------------------
(* Properties *)

\* The file as it can be found: the one in its place, or else the last one that
\* was moved aside for a write that has not taken effect.
Took(o) == at[o] = "done" \/ step[o] = "drop"
MovedAside(k) == {o \in Ops : key[o] = k /\ aside[o] # None /\ ~Took(o)}
Latest(k, o)  == o \in MovedAside(k) /\ \A p \in MovedAside(k) : turn[p] <= turn[o]
Found(k) == IF file[k] # None \/ MovedAside(k) = {} THEN file[k]
            ELSE aside[CHOOSE o \in Ops : Latest(k, o)]

Contents == [k \in Keys |-> Found(k)]
Taken    == {o \in Ops : Took(o)}

Atomic == INSTANCE AtomicFile WITH took <- Taken, contents <- Contents

\* Until the queues are cleared, every write is atomic: wherever the process
\* ends, the file or the copy that was moved aside holds all of the old or all of
\* the new contents, and a write that reports an error has changed nothing.
ImplementsAtomicFile ==
    Atomic!Init /\ [][~cleared => Atomic!Next]_<<at, key, Taken, Contents>>

\* Until the queues are cleared, when no operation of a file is left, the file is
\* what the last successful one wrote, unless one could not move it back.
LastWins ==
    ~cleared => \A k \in Keys :
        LET mine == {o \in Ops : key[o] = k}
            done == {o \in mine : at[o] = "done"}
        IN  (\A o \in mine : at[o] = "new" \/ Ended(o)) /\ mine \cap stuck = {} =>
                IF done = {} THEN file[k] = None
                ELSE file[k] \in done /\ \A o \in done : turn[o] <= turn[file[k]]

\* Every operation ends, whatever becomes of those before it.
WritesEnd == \A o \in Ops : at[o] = "waiting" ~> Ended(o)
=============================================================================
