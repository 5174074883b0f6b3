------------------------- MODULE WorkflowFieldRename -------------------------
(***************************************************************************)
(* The durable rename of workflow statuses:                                *)
(* systems/workflow-field-rename-coordinator.ts with its journal           *)
(* (storage/field-rename-journal-store.ts), the conditional writes of      *)
(* core/task-writer.ts and the callers in main.ts.  A rename is written to *)
(* the journal, then the taxonomy is committed, then every mapped task is  *)
(* changed, then the index is rebuilt, then the journal is cleared; each   *)
(* step may fail or be the last before a crash, and a later run resumes.   *)
(*                                                                         *)
(* A taxonomy is known by the name it gives to the renamed status, and a   *)
(* task by the name its source holds.                                      *)
(***************************************************************************)
EXTENDS Naturals, Sequences

CONSTANTS
    Tasks, Taxonomies,
    None,                                         \* no operation, no input
    MaxFailures, MaxCrashes, MaxEdits, MaxCalls   \* bounds

VARIABLES
    saved,      \* the taxonomy in data.json
    file,       \* the operation in field-rename-journal.json, or None
    status,     \* the status in the source of every task, or "gone"
    up,         \* the plugin runs
    settings,   \* the taxonomy in RAM
    active,     \* the journal in RAM
    suspended,  \* the journal could not be read: its writes are suspended
    hidden,     \* tasks that the index looks for in the wrong place
    unindexed,  \* tasks written by the rename and not indexed again
    queue,      \* calls that wait for the run queue: the input of a rename or Resume
    run,        \* the run at its head
    failures, crashes, edits, calls,
    last,       \* the operation prepared last (history)
    touched,    \* tasks that the user edited since, or the index missed twice (history)
    retaxed     \* the user edited the taxonomy since (history)

disk    == <<saved, file>>
memory  == <<settings, active, suspended>>
index   == <<hidden, unindexed>>
bounds  == <<failures, crashes, edits, calls>>
history == <<last, touched, retaxed>>
vars    == <<disk, status, up, memory, index, queue, run, bounds, history>>

Outcomes == {"pending", "updated", "already-updated", "conflict", "missing", "failed"}
Phases   == {"prepared", "taxonomyCommitted", "migrating", "reindexPending", "needsRetry",
             "complete"}
Open     == {"pending", "failed"}   \* outcomes that a run takes up

\* What the user approved: the taxonomies and the tasks to change.
Inputs == [old : Taxonomies, new : Taxonomies, tasks : SUBSET Tasks]

\* The journal entry; of the attempts it matters only if there was one before.
Prepared(input) ==
    [old |-> input.old, new |-> input.new, phase |-> "prepared",
     outcome |-> [t \in input.tasks |-> "pending"],
     attempts |-> [t \in input.tasks |-> 0]]

Resume == None

Idle == [at |-> "idle", op |-> None, todo |-> {}, task |-> None, result |-> "pending"]

Init ==
    /\ saved \in Taxonomies /\ settings = saved
    /\ file = None /\ active = None /\ suspended = FALSE
    /\ status \in [Tasks -> {saved}]
    /\ up = TRUE /\ hidden = {} /\ unindexed = {} /\ queue = <<>> /\ run = Idle
    /\ failures \in 0 .. MaxFailures /\ crashes \in 0 .. MaxCrashes
    /\ edits \in 0 .. MaxEdits /\ calls = 0   \* what is used up already
    /\ last = None /\ touched = {} /\ retaxed = FALSE

Fails == failures < MaxFailures /\ failures' = failures + 1 /\ UNCHANGED <<crashes, edits, calls>>
Goes  == UNCHANGED bounds

----------------------------------------------------------------------------
(* Calls *)

Call(c) ==
    /\ up /\ calls < MaxCalls /\ calls' = calls + 1
    /\ queue' = Append(queue, c)
    /\ UNCHANGED <<disk, status, up, memory, index, run, failures, crashes, edits, history>>

\* The user approves a rename of what the index shows.
SubmitRename ==
    \E new \in Taxonomies \ {settings} :
        Call([old |-> settings, new |-> new, tasks |-> {t \in Tasks : status[t] = settings}])

\* The user asks for a retry of what is pending.
Retry == active # None /\ settings \in {active.old, active.new} /\ Call(Resume)

\* The user lets the rename win over another taxonomy, which is committed
\* outside the run queue; if that fails, nothing is resumed.
ResolveConflict ==
    /\ up /\ active # None /\ settings \notin {active.old, active.new}
    /\ calls < MaxCalls /\ calls' = calls + 1
    /\ \/ /\ settings' = active.new /\ saved' = active.new
          /\ queue' = Append(queue, Resume)
          /\ UNCHANGED failures
       \/ /\ failures < MaxFailures /\ failures' = failures + 1
          /\ UNCHANGED <<settings, saved, queue>>
    /\ UNCHANGED <<file, status, up, active, suspended, index, run, crashes, edits, history>>

----------------------------------------------------------------------------
(* A run *)

\* The run ends with a result.
Ends == run' = Idle

\* Variant: an exception rejects the run queue as well.
Throws_Blocks == run' = [Idle EXCEPT !.at = "rejected"]

\* The run ends with an exception, which the run queue swallows: the next call
\* may begin.
Throws == run' = Idle

\* The journal is written; RAM follows the file.
Persist(op) == active' = op /\ file' = op

PrepareNow ==
    /\ up /\ run.at = "idle" /\ queue # <<>> /\ Head(queue) # Resume
    /\ queue' = Tail(queue)
    /\ LET input == Head(queue) IN
       IF suspended \/ active # None \/ settings # input.old
       THEN Throws /\ Goes /\ UNCHANGED <<file, active, history>>
       ELSE \/ /\ Persist(Prepared(input)) /\ run' = [run EXCEPT !.at = "resume"]
               /\ last' = input /\ touched' = {t \in Tasks : status[t] # input.old}
               /\ retaxed' = FALSE /\ Goes
            \/ Fails /\ Throws /\ UNCHANGED <<file, active, history>>
    /\ UNCHANGED <<saved, status, up, settings, suspended, index>>

\* A resume that came first in the queue.
TakeResume ==
    /\ up /\ run.at = "idle" /\ queue # <<>> /\ Head(queue) = Resume
    /\ queue' = Tail(queue)
    /\ run' = IF suspended \/ active = None THEN Idle ELSE [run EXCEPT !.at = "resume"]
    /\ UNCHANGED <<disk, status, up, memory, index, bounds, history>>

In(at) == up /\ run.at = at
Go(at, op) == run' = [run EXCEPT !.at = at, !.op = op]

\* An operation that is complete has nothing left to do but to be cleared.
ResumeComplete ==
    /\ In("resume") /\ active.phase = "complete"
    /\ Go("clear", active)
    /\ UNCHANGED <<disk, status, up, memory, index, queue, bounds, history>>

\* The taxonomy is neither the one that was renamed nor the one approved.
ResumeConflict ==
    /\ In("resume") /\ active.phase # "complete"
    /\ settings \notin {active.old, active.new}
    /\ Go("giveUp", active)
    /\ UNCHANGED <<disk, status, up, memory, index, queue, bounds, history>>

\* Variant: the tasks are changed although the taxonomy could not be saved.
AfterCommit_Anyway(saves) == "committed"

AfterCommit(saves) == IF saves THEN "committed" ELSE "giveUp"

\* The taxonomy is committed unless it has been; a save that fails is undone.
CommitTaxonomy ==
    /\ In("resume") /\ active.phase # "complete"
    /\ \/ /\ settings = active.new
          /\ Go("committed", active) /\ Goes /\ UNCHANGED <<settings, saved>>
       \/ /\ settings = active.old /\ Goes
          /\ settings' = active.new /\ saved' = active.new
          /\ Go(AfterCommit(TRUE), active)
       \/ /\ settings = active.old /\ Fails
          /\ Go(AfterCommit(FALSE), active) /\ UNCHANGED <<settings, saved>>
    /\ UNCHANGED <<file, status, up, active, suspended, index, queue, history>>

\* A phase is journaled; if that fails, the run ends with an exception.
PersistPhase(from, phase, to) ==
    /\ In(from)
    /\ LET op == [run.op EXCEPT !.phase = phase] IN
       \/ Goes /\ Persist(op)
          /\ run' = IF to = "idle" THEN Idle ELSE [run EXCEPT !.at = to, !.op = op]
       \/ Fails /\ Throws /\ UNCHANGED <<file, active>>
    /\ UNCHANGED <<saved, status, up, settings, suspended, index, queue, history>>

CommittedPhase == PersistPhase("committed", "taxonomyCommitted", "startTasks")
MigratingPhase == PersistPhase("startTasks", "migrating", "loop")
GiveUp         == PersistPhase("giveUp", "needsRetry", "idle")

\* Every task of the mapping that has still to be changed gets one attempt.
Loop ==
    /\ In("loop")
    /\ run' = [run EXCEPT !.at = "tasks",
                          !.todo = {t \in DOMAIN run.op.outcome : run.op.outcome[t] \in Open}]
    /\ UNCHANGED <<disk, status, up, memory, index, queue, bounds, history>>

Attempted(op, t) ==
    [op EXCEPT !.outcome[t] = "pending", !.attempts[t] = IF @ < 2 THEN @ + 1 ELSE @]

\* The attempt is journaled before it is made.
Attempt(t) ==
    /\ In("tasks") /\ t \in run.todo
    /\ LET op == Attempted(run.op, t) IN
       \/ /\ Goes /\ Persist(op)
          /\ run' = [run EXCEPT !.at = "write", !.op = op, !.task = t, !.todo = @ \ {t}]
       \/ Fails /\ Throws /\ UNCHANGED <<file, active>>
    /\ UNCHANGED <<saved, status, up, settings, suspended, index, queue, history>>

\* Variant: the source is not compared first.
Found_Blind(t) == IF status[t] = run.op.new THEN "already-updated" ELSE "updated"

\* What the conditional write finds in the source of a task.
Found(t) ==
    CASE status[t] = run.op.new -> "already-updated"
      [] status[t] = run.op.old -> "updated"
      [] OTHER                  -> "conflict"

\* A task that is not found may be in a place the index does not know yet: only
\* a later attempt is believed, an earlier one throws.
Missing(t) == IF run.op.attempts[t] > 1 THEN "missing" ELSE "failed"

Result(t) == IF status[t] = "gone" \/ t \in hidden THEN Missing(t) ELSE Found(t)

\* writeTaskFieldIfCurrent: compare and change in one queued write.
WriteTask ==
    /\ In("write")
    /\ LET t == run.task
           changes == Result(t) = "updated"
           Effect  == /\ status' = IF changes THEN [status EXCEPT ![t] = run.op.new] ELSE status
                      /\ unindexed' = IF changes THEN unindexed \cup {t} ELSE unindexed IN
       \/ Goes /\ Effect /\ run' = [run EXCEPT !.at = "outcome", !.result = Result(t)]
       \* the write throws, before or after it took effect
       \/ /\ Fails /\ (Effect \/ UNCHANGED <<status, unindexed>>)
          /\ run' = [run EXCEPT !.at = "outcome", !.result = "failed"]
    /\ touched' = IF run.task \in hidden /\ run.op.attempts[run.task] > 1
                  THEN touched \cup {run.task} ELSE touched
    /\ UNCHANGED <<disk, up, memory, hidden, queue, last, retaxed>>

\* An outcome that could not be journaled is journaled as a failure; if that
\* fails too, the run ends with an exception.
OutcomeLost == IF run.result = "failed" THEN Throws ELSE run' = [run EXCEPT !.result = "failed"]

PersistOutcome ==
    /\ In("outcome")
    /\ LET op == [run.op EXCEPT !.outcome[run.task] = run.result] IN
       \/ Goes /\ Persist(op) /\ run' = [run EXCEPT !.at = "tasks", !.op = op]
       \/ Fails /\ OutcomeLost /\ UNCHANGED <<file, active>>
    /\ UNCHANGED <<saved, status, up, settings, suspended, index, queue, history>>

TasksDone == run.todo = {} /\ PersistPhase("tasks", "reindexPending", "rebuild")

\* Variant: the index is rebuilt only for what this run has changed.
Rebuilds_Changes == \E t \in DOMAIN run.op.outcome : run.op.outcome[t] = "updated"

Rebuilds == TRUE

\* Variant: an operation with failed tasks is complete.
AfterRebuild_Complete == "done"

AfterRebuild ==
    IF \E t \in DOMAIN run.op.outcome : run.op.outcome[t] = "failed" THEN "giveUp" ELSE "done"

\* The index is rebuilt, then the aggregates are reconciled; either may fail.
RebuildIndex ==
    /\ In("rebuild")
    /\ \/ /\ hidden' = {} /\ unindexed' = IF Rebuilds THEN {} ELSE unindexed
          /\ \/ Goes /\ Go(AfterRebuild, run.op)
             \/ Fails /\ Go("giveUp", run.op)
       \/ Fails /\ Go("giveUp", run.op) /\ UNCHANGED index
    /\ UNCHANGED <<disk, status, up, memory, queue, history>>

CompletePhase == PersistPhase("done", "complete", "clear")

Clear ==
    /\ In("clear")
    /\ \/ Goes /\ Persist(None) /\ Ends
       \/ Fails /\ Throws /\ UNCHANGED <<file, active>>
    /\ UNCHANGED <<saved, status, up, settings, suspended, index, queue, history>>

----------------------------------------------------------------------------
(* The user, the index, crashes *)

Edit == edits < MaxEdits /\ edits' = edits + 1 /\ UNCHANGED <<failures, crashes, calls>>

\* A task is edited or deleted; the index follows.
EditTask(t) ==
    /\ Edit /\ \E s \in (Taxonomies \cup {"gone"}) \ {status[t]} : status' = [status EXCEPT ![t] = s]
    /\ touched' = touched \cup {t}
    /\ UNCHANGED <<disk, up, memory, index, queue, run, last, retaxed>>

\* A task is moved to another file.
MoveTask(t) ==
    /\ Edit /\ up /\ status[t] # "gone"
    /\ hidden' = hidden \cup {t}
    /\ UNCHANGED <<disk, status, up, memory, unindexed, queue, run, history>>

IndexFollows ==
    /\ up /\ hidden # {} /\ hidden' = {}
    /\ UNCHANGED <<disk, status, up, memory, unindexed, queue, run, bounds, history>>

EditTaxonomy ==
    /\ Edit /\ up
    /\ \E x \in Taxonomies \ {settings} : settings' = x /\ saved' = x
    /\ retaxed' = TRUE
    /\ UNCHANGED <<file, status, up, active, suspended, index, queue, run, last, touched>>

Crash ==
    /\ up /\ crashes < MaxCrashes /\ crashes' = crashes + 1
    /\ up' = FALSE /\ queue' = <<>> /\ run' = Idle
    /\ active' = None /\ suspended' = FALSE /\ settings' = saved
    /\ UNCHANGED <<disk, status, index, failures, edits, calls, history>>

\* Variant: nobody resumes at startup.
Resumes_Not == <<>>

Resumes == <<Resume>>

\* The journal is loaded, the index brought up to date, the rename resumed.
Restart ==
    /\ ~up /\ up' = TRUE
    /\ \/ Goes /\ active' = file /\ suspended' = FALSE
       \/ Fails /\ active' = None /\ suspended' = TRUE
    /\ hidden' = {} /\ unindexed' = {}
    /\ queue' = Resumes
    /\ UNCHANGED <<disk, status, settings, run, history>>

RunStep ==
    \/ PrepareNow \/ TakeResume \/ ResumeComplete \/ ResumeConflict \/ CommitTaxonomy
    \/ CommittedPhase \/ MigratingPhase \/ GiveUp \/ Loop \/ (\E t \in Tasks : Attempt(t))
    \/ WriteTask \/ PersistOutcome \/ TasksDone \/ RebuildIndex \/ CompletePhase \/ Clear

Next ==
    \/ RunStep \/ SubmitRename \/ Retry \/ ResolveConflict \/ IndexFollows
    \/ (\E t \in Tasks : EditTask(t) \/ MoveTask(t)) \/ EditTaxonomy \/ Crash \/ Restart

Spec == Init /\ [][Next]_vars

\* Writes settle and the index answers; the plugin is started again.
Fairness == WF_vars(RunStep) /\ WF_vars(Restart)
FairSpec == Spec /\ Fairness

----------------------------------------------------------------------------
(* Properties *)

Operations ==
    UNION {[old : Taxonomies, new : Taxonomies, phase : Phases,
            outcome : [T -> Outcomes], attempts : [T -> 0 .. 2]] : T \in SUBSET Tasks}

\* None is no journal entry, and a deleted task has no status.
ASSUME RenameAssumption ==
    /\ None \notin Operations \cup Inputs
    /\ "gone" \notin Taxonomies
    /\ {MaxFailures, MaxCrashes, MaxEdits, MaxCalls} \subseteq Nat

Positions == {"idle", "resume", "committed", "startTasks", "loop", "tasks", "write",
              "outcome", "rebuild", "done", "clear", "giveUp"}
Runs == [at : Positions, op : Operations \cup {None}, todo : SUBSET Tasks,
         task : Tasks \cup {None}, result : Outcomes]

TypeOK ==
    /\ saved \in Taxonomies /\ settings \in Taxonomies
    /\ file \in Operations \cup {None} /\ active \in Operations \cup {None}
    /\ suspended \in BOOLEAN /\ up \in BOOLEAN
    /\ status \in [Tasks -> Taxonomies \cup {"gone"}]
    /\ hidden \subseteq Tasks /\ unindexed \subseteq Tasks /\ touched \subseteq Tasks
    /\ run \in Runs
    /\ last \in Inputs \cup {None} /\ retaxed \in BOOLEAN
    /\ edits \in Nat

Pending == file # None
Renamed(t) == status[t] = last.new

\* As long as a task that the user left alone still has the old name under the
\* new taxonomy, the journal on disk says so, whatever failed or crashed: "a
\* durable recovery journal that resumes safe task updates after restart"
\* (CHANGELOG.md:270).
NothingLeftBehind ==
    last # None /\ saved = last.new /\ ~retaxed /\ ~Pending =>
        \A t \in last.tasks \ touched : Renamed(t)

\* No task has the new name before the taxonomy that has it is saved.
TaxonomyFirst ==
    last # None /\ ~retaxed /\ (\E t \in last.tasks \ touched : Renamed(t)) => saved = last.new

\* When the journal is cleared, the index shows every task the rename changed,
\* also those that earlier runs had changed.
ClearedIsIndexed == up /\ ~Pending => unindexed = {}

\* The rename changes a task from the old name to the new one and nothing else:
\* tasks changed elsewhere are preserved "as conflicts instead of overwriting
\* them" (CHANGELOG.md:270).
ConflictsPreserved ==
    [][\A t \in Tasks : status[t] # status'[t] /\ edits' = edits
       => status[t] = last.old /\ status'[t] = last.new]_vars

\* Every run ends, and the next call has its turn.
RunsEnd == run.at # "idle" ~> run.at = "idle"

\* A rename that is resumed after a restart is completed, unless something fails
\* again: the journal is cleared or waits for the user.
PendingResumed ==
    ~up /\ failures = MaxFailures /\ crashes = MaxCrashes
       ~> up /\ run.at = "idle" /\ queue = <<>> /\ (Pending => file.phase = "needsRetry")
=============================================================================
