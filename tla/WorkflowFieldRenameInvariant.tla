--------------------- MODULE WorkflowFieldRenameInvariant ---------------------
(***************************************************************************)
(* The inductive invariant of WorkflowFieldRename: what the journal on     *)
(* disk, the run and the tasks know of each other at every position of a   *)
(* run.                                                                    *)
(***************************************************************************)
EXTENDS WorkflowFieldRename

\* A rename that was asked for changes something.
Changing == {i \in Inputs : i.old # i.new}

InputsChange == queue \in Seq(Changing \cup {Resume}) /\ (last # None => last \in Changing)

\* RAM follows data.json and the journal file, and a run works on that journal.
MemoryFollows ==
    /\ settings = saved
    /\ active = IF up /\ ~suspended THEN file ELSE None
    /\ run.at # "idle" => active # None
    /\ run.at \notin {"idle", "resume"} => run.op = file

\* The journal is that of the rename prepared last.
OfLast ==
    Pending => /\ last # None
               /\ file.old = last.old /\ file.new = last.new
               /\ DOMAIN file.outcome = last.tasks

\* What a run has still to do.
Undone(outcomes) == {t \in DOMAIN file.outcome : file.outcome[t] \in outcomes}

AtPosition ==
    /\ run.at \in {"loop", "tasks", "write", "outcome"} => file.phase = "migrating"
    /\ run.at = "clear" => file.phase = "complete"
    /\ run.at = "tasks" => Undone({"pending"}) \subseteq run.todo
    /\ run.at \in {"tasks", "write", "outcome"} => run.todo \subseteq DOMAIN file.outcome
    /\ run.at \in {"write", "outcome"} =>
         /\ run.task \in DOMAIN file.outcome
         /\ Undone({"pending"}) \subseteq run.todo \cup {run.task}
    /\ run.at = "outcome" => run.result # "pending"
    /\ run.at = "rebuild" => Undone({"pending"}) = {}
    /\ run.at = "done" => Undone(Open) = {}
    /\ Pending /\ file.phase = "complete" => Undone(Open) = {}

\* An outcome tells the truth about a task the user left alone.
Believed(t, outcome) ==
    /\ outcome \in {"updated", "already-updated"} => Renamed(t)
    /\ outcome \notin {"conflict", "missing"}

OutcomesTrue ==
    last # None => \A t \in last.tasks \ touched :
        /\ status[t] \in {last.old, last.new}
        /\ IF Pending THEN Believed(t, file.outcome[t]) ELSE Renamed(t)
        /\ run.at = "outcome" /\ run.task = t => Believed(t, run.result)

\* Tasks are changed only under the new taxonomy.
SavedFirst ==
    ~retaxed /\ run.at \in {"committed", "startTasks", "loop", "tasks", "write", "outcome"}
        => saved = last.new

\* Once the index is rebuilt, nothing is written until the journal is cleared.
IndexedAtEnd ==
    ~Pending \/ file.phase = "complete" \/ run.at \in {"done", "clear"} => unindexed = {}

RenameInv ==
    /\ TypeOK
    /\ InputsChange /\ MemoryFollows /\ OfLast /\ AtPosition
    /\ OutcomesTrue /\ SavedFirst /\ TaxonomyFirst /\ IndexedAtEnd
=============================================================================
