------------------------ MODULE WorkflowFieldRenameProofs ------------------------
(***************************************************************************)
(* The safety of WorkflowFieldRename, for any tasks and taxonomies and any *)
(* number of calls, edits, failures and crashes.                           *)
(***************************************************************************)
EXTENDS WorkflowFieldRenameInvariant, TLAPS

----------------------------------------------------------------------------
(* Journal entries *)

OperationsOn(T) ==
    [old : Taxonomies, new : Taxonomies, phase : Phases,
     outcome : [T -> Outcomes], attempts : [T -> 0 .. 2]]

LEMMA OperationShape ==
    \A op : op \in Operations <=> \E T \in SUBSET Tasks : op \in OperationsOn(T)
  BY Zenon DEF Operations, OperationsOn

\* A phase, the outcome of a task or an attempt makes a journal entry from one.
LEMMA PhaseTyped ==
    ASSUME NEW op \in Operations, NEW phase \in Phases
    PROVE  LET new == [op EXCEPT !.phase = phase] IN
           /\ new \in Operations
           /\ new.old = op.old /\ new.new = op.new
           /\ new.outcome = op.outcome /\ new.phase = phase
<1> DEFINE new == [op EXCEPT !.phase = phase]
<1>1. PICK T \in SUBSET Tasks : op \in OperationsOn(T)
  BY OperationShape
<1>2. new \in OperationsOn(T)
  BY <1>1 DEF OperationsOn
<1> QED
  BY <1>1, <1>2, OperationShape DEF OperationsOn

LEMMA OutcomeTyped ==
    ASSUME NEW op \in Operations, NEW t \in DOMAIN op.outcome, NEW outcome \in Outcomes
    PROVE  LET new == [op EXCEPT !.outcome[t] = outcome] IN
           /\ new \in Operations
           /\ new.old = op.old /\ new.new = op.new /\ new.phase = op.phase
           /\ new.outcome = [op.outcome EXCEPT ![t] = outcome]
<1> DEFINE new == [op EXCEPT !.outcome[t] = outcome]
<1>1. PICK T \in SUBSET Tasks : op \in OperationsOn(T)
  BY OperationShape
<1>2. new \in OperationsOn(T)
  BY <1>1 DEF OperationsOn
<1> QED
  BY <1>1, <1>2, OperationShape DEF OperationsOn

LEMMA AttemptTyped ==
    ASSUME NEW op \in Operations, NEW t \in DOMAIN op.outcome
    PROVE  LET new == Attempted(op, t) IN
           /\ new \in Operations
           /\ new.old = op.old /\ new.new = op.new /\ new.phase = op.phase
           /\ new.outcome = [op.outcome EXCEPT ![t] = "pending"]
<1> DEFINE more == IF op.attempts[t] < 2 THEN op.attempts[t] + 1 ELSE op.attempts[t]
<1>1. PICK T \in SUBSET Tasks : op \in OperationsOn(T)
  BY OperationShape
<1>2. t \in T /\ op.attempts \in [T -> 0 .. 2] /\ op.outcome \in [T -> Outcomes]
  BY <1>1 DEF OperationsOn
<1>3. more \in 0 .. 2
  BY <1>2
<1>4. [op.attempts EXCEPT ![t] = more] \in [T -> 0 .. 2]
  BY <1>2, <1>3
<1>5. [op.outcome EXCEPT ![t] = "pending"] \in [T -> Outcomes]
  BY <1>2 DEF Outcomes
<1>6. Attempted(op, t) = [op EXCEPT !.outcome = [op.outcome EXCEPT ![t] = "pending"],
                                    !.attempts = [op.attempts EXCEPT ![t] = more]]
  BY <1>1 DEF OperationsOn, Attempted
<1>7. Attempted(op, t) \in OperationsOn(T)
  BY <1>1, <1>4, <1>5, <1>6 DEF OperationsOn
<1> QED
  BY <1>1, <1>6, <1>7, OperationShape DEF OperationsOn

LEMMA PreparedTyped ==
    ASSUME NEW input \in Inputs
    PROVE  /\ Prepared(input) \in Operations
           /\ Prepared(input).old = input.old /\ Prepared(input).new = input.new
           /\ Prepared(input).outcome = [t \in input.tasks |-> "pending"]
           /\ Prepared(input).phase = "prepared"
<1>1. Prepared(input) \in OperationsOn(input.tasks)
  BY DEF OperationsOn, Inputs, Prepared, Phases, Outcomes
<1>2. input.tasks \in SUBSET Tasks
  BY DEF Inputs
<1> QED
  BY <1>1, <1>2, OperationShape DEF Prepared

----------------------------------------------------------------------------
(* Runs *)

\* What every step of a run can rely on.
LEMMA RunFacts ==
    ASSUME RenameInv, run.at # "idle"
    PROVE  /\ up /\ ~suspended /\ active = file /\ Pending
           /\ file \in Operations /\ DOMAIN file.outcome \subseteq Tasks
           /\ file.old \in Taxonomies /\ file.new \in Taxonomies
           /\ last \in Changing /\ file.old = last.old /\ file.new = last.new
           /\ DOMAIN file.outcome = last.tasks
           /\ run.at # "resume" => run.op = file
<1>1. up /\ ~suspended /\ active = file /\ active # None
  BY DEF RenameInv, MemoryFollows, TypeOK
<1>2. file \in Operations
  BY <1>1 DEF RenameInv, TypeOK
<1>3. PICK T \in SUBSET Tasks : file \in OperationsOn(T)
  BY <1>2, OperationShape
<1> QED
  BY <1>1, <1>2, <1>3 DEF RenameInv, MemoryFollows, OfLast, InputsChange, Pending, OperationsOn

\* What a step of a run leaves alone, unless it says otherwise.
Others == <<saved, status, up, settings, suspended, hidden, unindexed, queue, last,
            touched, retaxed, edits>>

LEMMA BoundsLeaveEdits == (Goes \/ Fails) => edits' = edits
  BY DEF Goes, Fails, bounds

\* A run may end anywhere.
LEMMA StopKeeps ==
    ASSUME RenameInv, run' = Idle, InputsChange', UNCHANGED <<file, active>>,
           UNCHANGED <<saved, status, up, settings, suspended, hidden, unindexed, last,
                       touched, retaxed, edits>>
    PROVE  RenameInv'
<1> USE DEF RenameInv, Idle
<1>1. TypeOK'
  BY DEF TypeOK, Runs, Positions, Outcomes
<1>2. MemoryFollows'
  BY DEF MemoryFollows
<1>3. OfLast' /\ AtPosition'
  BY DEF OfLast, AtPosition, Undone, Pending
<1>4. OutcomesTrue'
  BY DEF OutcomesTrue, Pending, Believed, Renamed
<1>5. SavedFirst' /\ TaxonomyFirst' /\ IndexedAtEnd'
  BY DEF SavedFirst, TaxonomyFirst, Renamed, IndexedAtEnd, Pending
<1> QED
  BY <1>1, <1>2, <1>3, <1>4, <1>5

\* A phase may be journaled when the tasks are in the state it stands for.
LEMMA PhaseKeeps ==
    ASSUME RenameInv,
           NEW from \in Positions \ {"idle", "resume"}, NEW phase \in Phases,
           NEW to \in {"startTasks", "loop", "rebuild", "clear", "idle"},
           PersistPhase(from, phase, to),
           to \in {"startTasks", "loop"} => from \in {"committed", "startTasks"},
           to = "loop" => phase = "migrating",
           to = "rebuild" => Undone({"pending"}) = {},
           (to = "clear") <=> (phase = "complete"),
           phase = "complete" => from = "done"
    PROVE  RenameInv'
<1> DEFINE op == [run.op EXCEPT !.phase = phase]
<1>1. run.at = from /\ from # "idle"
  BY DEF PersistPhase, In, Positions
<1>2. /\ up /\ ~suspended /\ active = file /\ Pending /\ run.op = file
      /\ file \in Operations
  BY <1>1, RunFacts
<1>3. /\ op \in Operations /\ op.old = file.old /\ op.new = file.new
      /\ op.outcome = file.outcome /\ op.phase = phase
  BY <1>2, PhaseTyped
<1>4. UNCHANGED Others
  BY BoundsLeaveEdits DEF PersistPhase, Others, index, history
<1>5. CASE Fails /\ Throws /\ UNCHANGED <<file, active>>
  <2>1. InputsChange'
    BY <1>4 DEF RenameInv, InputsChange, Others
  <2> QED
    BY <1>4, <1>5, <2>1, StopKeeps DEF Others, Throws
<1>6. CASE Goes /\ Persist(op) /\ run' = IF to = "idle" THEN Idle
                                         ELSE [run EXCEPT !.at = to, !.op = op]
  <2>1. /\ run' \in Runs /\ run'.at = to
        /\ to # "idle" => run'.op = op
    BY <1>3, <1>6 DEF RenameInv, TypeOK, Runs, Positions, Idle, Outcomes
  <2>2. active' = op /\ file' = op /\ op # None
    BY <1>3, <1>6, RenameAssumption DEF Persist
  <2> HIDE DEF op
  <2> USE <1>1, <1>2, <1>3, <1>4, <2>1, <2>2 DEF RenameInv, Others
  <2>3. TypeOK'
    BY DEF TypeOK
  <2>4. InputsChange' /\ MemoryFollows' /\ OfLast'
    BY DEF InputsChange, MemoryFollows, OfLast, Pending
  <2>5. AtPosition'
    BY DEF AtPosition, Undone, Pending
  <2>6. OutcomesTrue'
    BY DEF OutcomesTrue, Pending, Believed, Renamed
  <2>7. SavedFirst' /\ TaxonomyFirst'
    BY DEF SavedFirst, TaxonomyFirst, Renamed
  <2>8. IndexedAtEnd'
    BY DEF IndexedAtEnd, Pending
  <2> QED
    BY <2>3, <2>4, <2>5, <2>6, <2>7, <2>8
<1> QED
  BY <1>5, <1>6 DEF PersistPhase

\* The phases of a run, in their order.
LEMMA PhasesKeep ==
    RenameInv /\ (CommittedPhase \/ MigratingPhase \/ GiveUp \/ TasksDone \/ CompletePhase)
        => RenameInv'
<1>1. RenameInv /\ CommittedPhase => RenameInv'
  BY PhaseKeeps DEF CommittedPhase, Positions, Phases
<1>2. RenameInv /\ MigratingPhase => RenameInv'
  BY PhaseKeeps DEF MigratingPhase, Positions, Phases
<1>3. RenameInv /\ GiveUp => RenameInv'
  BY PhaseKeeps DEF GiveUp, Positions, Phases
<1>4. RenameInv /\ TasksDone => RenameInv'
  <2> SUFFICES ASSUME RenameInv, TasksDone PROVE RenameInv'
    OBVIOUS
  <2>1. run.at = "tasks" /\ run.todo = {} /\ PersistPhase("tasks", "reindexPending", "rebuild")
    BY DEF TasksDone, PersistPhase, In
  <2>2. Undone({"pending"}) = {}
    BY <2>1 DEF RenameInv, AtPosition
  <2> QED
    BY <2>1, <2>2, PhaseKeeps DEF Positions, Phases
<1>5. RenameInv /\ CompletePhase => RenameInv'
  BY PhaseKeeps DEF CompletePhase, Positions, Phases
<1> QED
  BY <1>1, <1>2, <1>3, <1>4, <1>5

\* A rename begins: every task of it that the user left alone has the old name.
LEMMA PrepareKeeps == RenameInv /\ PrepareNow => RenameInv'
<1> SUFFICES ASSUME RenameInv, PrepareNow PROVE RenameInv'
  OBVIOUS
<1> DEFINE input == Head(queue)
           op == Prepared(input)
<1>1. /\ run.at = "idle" /\ up
      /\ input \in Changing /\ queue' \in Seq(Changing \cup {Resume})
  <2>1. queue \in Seq(Changing \cup {Resume}) /\ queue # <<>> /\ input # Resume
    BY DEF PrepareNow, RenameInv, InputsChange
  <2> QED
    BY <2>1 DEF PrepareNow
<1>2. UNCHANGED <<saved, status, up, settings, suspended, hidden, unindexed, edits>>
  BY BoundsLeaveEdits DEF PrepareNow, index
<1>3. CASE UNCHANGED <<file, active, history>> /\ Throws
  <2>1. InputsChange'
    BY <1>1, <1>3 DEF RenameInv, InputsChange, history
  <2> QED
    BY <1>2, <1>3, <2>1, StopKeeps DEF Throws, history
<1>4. CASE /\ ~(suspended \/ active # None \/ settings # input.old)
           /\ Persist(op) /\ run' = [run EXCEPT !.at = "resume"]
           /\ last' = input /\ touched' = {t \in Tasks : status[t] # input.old}
           /\ retaxed' = FALSE /\ Goes
  <2>1. input \in Inputs /\ input.old # input.new /\ input # None /\ input.tasks \subseteq Tasks
    BY <1>1, RenameAssumption DEF Changing, Inputs
  <2>2. /\ op \in Operations /\ op # None /\ op.old = input.old /\ op.new = input.new
        /\ op.outcome = [t \in input.tasks |-> "pending"] /\ op.phase = "prepared"
    BY <2>1, PreparedTyped, RenameAssumption
  <2>3. active' = op /\ file' = op
    BY <1>4 DEF Persist
  <2>4. run' \in Runs /\ run'.at = "resume"
    BY <1>4 DEF RenameInv, TypeOK, Runs, Positions
  <2>5. /\ last' = input /\ touched' = {t \in Tasks : status[t] # input.old}
        /\ retaxed' = FALSE
    BY <1>4
  <2> HIDE DEF op, input
  <2> USE <1>1, <1>2, <2>1, <2>2, <2>3, <2>4, <2>5 DEF RenameInv
  <2>6. TypeOK'
    BY DEF TypeOK
  <2>7. InputsChange' /\ OfLast'
    BY DEF InputsChange, OfLast, Pending
  <2>8. MemoryFollows'
    BY <1>4 DEF MemoryFollows, TypeOK
  <2>9. AtPosition'
    BY DEF AtPosition, Pending
  <2>10. OutcomesTrue' /\ TaxonomyFirst'
    BY DEF OutcomesTrue, Pending, Believed, Renamed, TaxonomyFirst
  <2>11. SavedFirst' /\ IndexedAtEnd'
    BY DEF SavedFirst, IndexedAtEnd, Pending
  <2> QED
    BY <2>6, <2>7, <2>8, <2>9, <2>10, <2>11
<1> QED
  BY <1>3, <1>4 DEF PrepareNow

LEMMA TakeResumeKeeps == RenameInv /\ TakeResume => RenameInv'
<1> SUFFICES ASSUME RenameInv, TakeResume PROVE RenameInv'
  OBVIOUS
<1> USE DEF RenameInv, TakeResume, disk, memory, index, bounds, history
<1>1. InputsChange'
  BY DEF InputsChange
<1>2. run' = Idle \/ (run' = [run EXCEPT !.at = "resume"] /\ ~suspended /\ active # None)
  OBVIOUS
<1>3. run' \in Runs /\ run'.at \in {"idle", "resume"}
  BY <1>2 DEF Idle, TypeOK, Runs, Positions, Outcomes
<1>4. TypeOK' /\ MemoryFollows' /\ OfLast'
  BY <1>2, <1>3 DEF TypeOK, MemoryFollows, OfLast, Pending, Idle
<1>5. AtPosition' /\ OutcomesTrue'
  BY <1>3 DEF AtPosition, Undone, OutcomesTrue, Pending, Believed, Renamed
<1>6. SavedFirst' /\ TaxonomyFirst' /\ IndexedAtEnd'
  BY <1>3 DEF SavedFirst, TaxonomyFirst, Renamed, IndexedAtEnd, Pending
<1> QED
  BY <1>1, <1>4, <1>5, <1>6

\* A run goes on with the journal it has, without writing anything.
LEMMA GoKeeps ==
    ASSUME RenameInv, run.at # "idle", UNCHANGED Others, UNCHANGED <<file, active>>,
           NEW at \in {"clear", "giveUp", "committed", "done"}, Go(at, file),
           at = "committed" => saved = last.new,
           at = "clear" => file.phase = "complete",
           at = "done" => Undone(Open) = {} /\ unindexed = {}
    PROVE  RenameInv'
<1>1. up /\ Pending /\ active = file /\ file \in Operations
  BY RunFacts
<1>2. run' \in Runs /\ run'.at = at /\ run'.op = file
  BY <1>1 DEF Go, RenameInv, TypeOK, Runs, Positions
<1> USE <1>1, <1>2 DEF RenameInv, Others
<1>3. TypeOK' /\ InputsChange' /\ MemoryFollows' /\ OfLast'
  BY DEF TypeOK, InputsChange, MemoryFollows, OfLast, Pending
<1>4. AtPosition'
  BY DEF AtPosition, Undone, Pending
<1>5. OutcomesTrue'
  BY DEF OutcomesTrue, Pending, Believed, Renamed
<1>6. SavedFirst' /\ TaxonomyFirst' /\ IndexedAtEnd'
  BY DEF SavedFirst, TaxonomyFirst, Renamed, IndexedAtEnd, Pending
<1> QED
  BY <1>3, <1>4, <1>5, <1>6

LEMMA ResumeCompleteKeeps == RenameInv /\ ResumeComplete => RenameInv'
<1> SUFFICES ASSUME RenameInv, ResumeComplete PROVE RenameInv'
  OBVIOUS
<1>1. run.at # "idle"
  BY DEF ResumeComplete, In
<1>2. active = file
  BY <1>1, RunFacts
<1> QED
  BY <1>1, <1>2, GoKeeps DEF ResumeComplete, Others, disk, memory, index, bounds, history

LEMMA ResumeConflictKeeps == RenameInv /\ ResumeConflict => RenameInv'
<1> SUFFICES ASSUME RenameInv, ResumeConflict PROVE RenameInv'
  OBVIOUS
<1>1. run.at # "idle"
  BY DEF ResumeConflict, In
<1>2. active = file
  BY <1>1, RunFacts
<1> QED
  BY <1>1, <1>2, GoKeeps DEF ResumeConflict, Others, disk, memory, index, bounds, history

\* The taxonomy is saved before any task is touched.
LEMMA CommitKeeps == RenameInv /\ CommitTaxonomy => RenameInv'
<1> SUFFICES ASSUME RenameInv, CommitTaxonomy PROVE RenameInv'
  OBVIOUS
<1>1. run.at = "resume"
  BY DEF CommitTaxonomy, In
<1>2. /\ active = file /\ file \in Operations /\ file.new = last.new /\ file.new \in Taxonomies
      /\ up /\ Pending
  BY <1>1, RunFacts
<1>3. /\ UNCHANGED <<status, up, suspended, hidden, unindexed, queue, last, touched, retaxed, edits>>
      /\ UNCHANGED <<file, active>>
  BY BoundsLeaveEdits DEF CommitTaxonomy, index, history
<1>4. CASE settings = active.new /\ Go("committed", active) /\ UNCHANGED <<settings, saved>>
  BY <1>1, <1>2, <1>3, <1>4, GoKeeps DEF Others, RenameInv, MemoryFollows
<1>5. CASE Go(AfterCommit(FALSE), active) /\ UNCHANGED <<settings, saved>>
  BY <1>1, <1>2, <1>3, <1>5, GoKeeps DEF Others, AfterCommit
<1>6. CASE settings' = active.new /\ saved' = active.new /\ Go(AfterCommit(TRUE), active)
  <2>1. run' \in Runs /\ run'.at = "committed" /\ run'.op = file
    BY <1>2, <1>6 DEF Go, AfterCommit, RenameInv, TypeOK, Runs, Positions
  <2> USE <1>1, <1>2, <1>3, <1>6, <2>1 DEF RenameInv
  <2>2. TypeOK' /\ InputsChange' /\ MemoryFollows' /\ OfLast'
    BY DEF TypeOK, InputsChange, MemoryFollows, OfLast, Pending
  <2>3. AtPosition' /\ OutcomesTrue'
    BY DEF AtPosition, Undone, Pending, OutcomesTrue, Believed, Renamed
  <2>4. SavedFirst' /\ TaxonomyFirst' /\ IndexedAtEnd'
    BY DEF SavedFirst, TaxonomyFirst, IndexedAtEnd, Pending
  <2> QED
    BY <2>2, <2>3, <2>4
<1> QED
  BY <1>4, <1>5, <1>6 DEF CommitTaxonomy

----------------------------------------------------------------------------
(* The tasks of a run *)

LEMMA LoopKeeps == RenameInv /\ Loop => RenameInv'
<1> SUFFICES ASSUME RenameInv, Loop PROVE RenameInv'
  OBVIOUS
<1>1. run.at = "loop"
  BY DEF Loop, In
<1>2. up /\ Pending /\ active = file /\ run.op = file /\ DOMAIN file.outcome \subseteq Tasks
  BY <1>1, RunFacts
<1> USE <1>1, <1>2 DEF RenameInv, Loop, disk, memory, index, bounds, history
<1>3. /\ run' \in Runs /\ run'.at = "tasks" /\ run'.op = file
      /\ run'.todo = Undone(Open)
  BY DEF TypeOK, Runs, Positions, Undone
<1>4. TypeOK' /\ InputsChange' /\ MemoryFollows' /\ OfLast'
  BY <1>3 DEF TypeOK, InputsChange, MemoryFollows, OfLast, Pending
<1>5. AtPosition' /\ OutcomesTrue'
  BY <1>3 DEF AtPosition, Undone, Open, Pending, OutcomesTrue, Believed, Renamed
<1>6. SavedFirst' /\ TaxonomyFirst' /\ IndexedAtEnd'
  BY <1>3 DEF SavedFirst, TaxonomyFirst, Renamed, IndexedAtEnd, Pending
<1> QED
  BY <1>4, <1>5, <1>6

\* An outcome is journaled: it is "pending" before the attempt, and true after it.
LEMMA OutcomeKeeps ==
    ASSUME RenameInv, UNCHANGED Others,
           run.at \in {"tasks", "write", "outcome"},
           NEW op \in Operations, Persist(op),
           NEW t \in DOMAIN file.outcome, NEW outcome \in Outcomes,
           op.old = file.old, op.new = file.new, op.phase = file.phase,
           op.outcome = [file.outcome EXCEPT ![t] = outcome],
           run' \in Runs, run'.op = op,
           \/ /\ run'.at = "tasks" /\ run.at = "outcome" /\ run.task = t
              /\ run'.todo = run.todo /\ outcome # "pending"
           \/ /\ run'.at = "write" /\ run.at = "tasks" /\ run'.task = t
              /\ run'.todo = run.todo \ {t},
           t \notin touched => outcome = "pending" \/ Believed(t, outcome)
    PROVE  RenameInv'
<1>1. /\ up /\ ~suspended /\ active = file /\ Pending /\ file \in Operations
      /\ DOMAIN file.outcome = last.tasks
  BY RunFacts
<1>2. /\ active' = op /\ file' = op /\ op # None
      /\ DOMAIN op.outcome = DOMAIN file.outcome
      /\ op.outcome[t] = outcome
      /\ \A u \in DOMAIN file.outcome \ {t} : op.outcome[u] = file.outcome[u]
  BY RenameAssumption DEF Persist
<1> USE <1>1, <1>2 DEF RenameInv, Others
<1>3. TypeOK' /\ InputsChange' /\ MemoryFollows' /\ OfLast'
  BY DEF TypeOK, InputsChange, MemoryFollows, OfLast, Pending
<1>4. AtPosition'
  BY DEF AtPosition, Undone, Open, Pending
<1>5. OutcomesTrue'
  BY DEF OutcomesTrue, Pending, Believed, Renamed
<1>6. SavedFirst' /\ TaxonomyFirst' /\ IndexedAtEnd'
  BY DEF SavedFirst, TaxonomyFirst, Renamed, IndexedAtEnd, AtPosition, Pending
<1> QED
  BY <1>3, <1>4, <1>5, <1>6

LEMMA AttemptKeeps ==
    ASSUME RenameInv, NEW t \in Tasks, Attempt(t)
    PROVE  RenameInv'
<1> DEFINE op == Attempted(run.op, t)
<1>1. run.at = "tasks" /\ t \in run.todo
  BY DEF Attempt, In
<1>2. run.op = file /\ file \in Operations /\ t \in DOMAIN file.outcome
  BY <1>1, RunFacts DEF RenameInv, AtPosition
<1>3. UNCHANGED Others
  BY BoundsLeaveEdits DEF Attempt, Others, index, history
<1>4. CASE Fails /\ Throws /\ UNCHANGED <<file, active>>
  <2>1. InputsChange'
    BY <1>3 DEF RenameInv, InputsChange, Others
  <2> QED
    BY <1>3, <1>4, <2>1, StopKeeps DEF Others, Throws
<1>5. CASE /\ Persist(op)
           /\ run' = [run EXCEPT !.at = "write", !.op = op, !.task = t, !.todo = @ \ {t}]
  <2>1. /\ op \in Operations /\ op.old = file.old /\ op.new = file.new
        /\ op.phase = file.phase /\ op.outcome = [file.outcome EXCEPT ![t] = "pending"]
    BY <1>2, AttemptTyped
  <2>2. /\ run' \in Runs /\ run'.at = "write" /\ run'.op = op /\ run'.task = t
        /\ run'.todo = run.todo \ {t}
    BY <1>5, <2>1 DEF RenameInv, TypeOK, Runs, Positions
  <2> HIDE DEF op
  <2> QED
    BY <1>1, <1>2, <1>3, <1>5, <2>1, <2>2, OutcomeKeeps DEF Outcomes
<1> QED
  BY <1>4, <1>5 DEF Attempt

\* What the write found is true of a task that the user left alone.
LEMMA ResultTrue ==
    ASSUME RenameInv, run.at = "write", NEW t, t = run.task
    PROVE  /\ Result(t) \in Outcomes \ {"pending"}
           /\ t \in last.tasks
           /\ Result(t) = "updated" => status[t] = last.old
           /\ t \notin touched /\ ~(t \in hidden /\ run.op.attempts[t] > 1)
                => /\ Result(t) \notin {"conflict", "missing"}
                   /\ Result(t) = "already-updated" => status[t] = last.new
<1>1. /\ run.op = file /\ file.old = last.old /\ file.new = last.new /\ last \in Changing
      /\ DOMAIN file.outcome = last.tasks /\ Pending
  BY RunFacts
<1>2. t \in last.tasks
  BY <1>1 DEF RenameInv, AtPosition
<1>3. t \notin touched => status[t] \in {last.old, last.new} /\ status[t] # "gone"
  BY <1>1, <1>2, RenameAssumption DEF RenameInv, OutcomesTrue, Changing, Inputs
<1> QED
  BY <1>1, <1>2, <1>3 DEF Result, Found, Missing, Outcomes

\* The write changes the name of a task only under the new taxonomy, and only
\* from the old one.
LEMMA WriteKeeps == RenameInv /\ WriteTask => RenameInv'
<1> SUFFICES ASSUME RenameInv, WriteTask PROVE RenameInv'
  OBVIOUS
<1> DEFINE t == run.task
           changed == Result(t) = "updated" /\ status' = [status EXCEPT ![t] = run.op.new]
<1>1. run.at = "write"
  BY DEF WriteTask, In
<1>2. /\ up /\ ~suspended /\ active = file /\ Pending /\ run.op = file
      /\ file \in Operations /\ file.phase = "migrating"
      /\ last \in Changing /\ file.old = last.old /\ file.new = last.new
      /\ last.new \in Taxonomies /\ last.new # last.old
      /\ DOMAIN file.outcome = last.tasks /\ last.tasks \subseteq Tasks
  BY <1>1, RunFacts DEF RenameInv, AtPosition, Changing, Inputs
<1>3. /\ Result(t) \in Outcomes \ {"pending"}
      /\ t \in last.tasks
      /\ Result(t) = "updated" => status[t] = last.old
      /\ t \notin touched /\ ~(t \in hidden /\ run.op.attempts[t] > 1)
           => /\ Result(t) \notin {"conflict", "missing"}
              /\ Result(t) = "already-updated" => status[t] = last.new
  BY <1>1, ResultTrue
<1>4. /\ UNCHANGED <<saved, file, up, settings, active, suspended, hidden, queue, last, retaxed>>
      /\ edits' = edits
  BY BoundsLeaveEdits DEF WriteTask, disk, memory
<1>5. touched' = IF t \in hidden /\ run.op.attempts[t] > 1 THEN touched \cup {t} ELSE touched
  BY DEF WriteTask
<1>6. /\ changed \/ status' = status
      /\ unindexed' \in {unindexed, unindexed \cup {t}}
  BY DEF WriteTask
<1>7. /\ run' \in Runs /\ run'.at = "outcome" /\ run'.op = file /\ run'.todo = run.todo
      /\ run'.task = t /\ run'.result \in {Result(t), "failed"}
      /\ run'.result = Result(t) /\ Result(t) = "updated" => changed
  BY <1>2, <1>3 DEF WriteTask, RenameInv, TypeOK, Runs, Positions, Outcomes
<1>8. /\ \A u \in Tasks \ {t} : status'[u] = status[u]
      /\ status'[t] \in {status[t], last.new}
      /\ changed => status'[t] = last.new
      /\ status' \in [Tasks -> Taxonomies \cup {"gone"}]
  BY <1>2, <1>3, <1>6 DEF RenameInv, TypeOK
<1>9. t \in Tasks /\ touched \subseteq touched'
  BY <1>2, <1>3, <1>5
<1> HIDE DEF changed, t
<1> USE <1>1, <1>2, <1>4, <1>7 DEF RenameInv
<1>10. TypeOK'
  BY <1>5, <1>6, <1>8, <1>9 DEF TypeOK
<1>11. InputsChange' /\ MemoryFollows' /\ OfLast'
  BY DEF InputsChange, MemoryFollows, OfLast, Pending
<1>12. AtPosition'
  BY <1>3 DEF AtPosition, Undone, Pending, t
<1>13. OutcomesTrue'
  BY <1>3, <1>5, <1>8, <1>9 DEF OutcomesTrue, Pending, Believed, Renamed
<1>14. SavedFirst' /\ TaxonomyFirst' /\ IndexedAtEnd'
  BY DEF SavedFirst, TaxonomyFirst, IndexedAtEnd, Pending
<1> QED
  BY <1>10, <1>11, <1>12, <1>13, <1>14

LEMMA PersistOutcomeKeeps == RenameInv /\ PersistOutcome => RenameInv'
<1> SUFFICES ASSUME RenameInv, PersistOutcome PROVE RenameInv'
  OBVIOUS
<1> DEFINE op == [run.op EXCEPT !.outcome[run.task] = run.result]
<1>1. run.at = "outcome"
  BY DEF PersistOutcome, In
<1>2. /\ up /\ active = file /\ Pending /\ run.op = file /\ file \in Operations
      /\ DOMAIN file.outcome = last.tasks /\ last \in Changing
      /\ run.task \in DOMAIN file.outcome
      /\ run.result \in Outcomes \ {"pending"}
  BY <1>1, RunFacts DEF RenameInv, AtPosition, TypeOK, Runs
<1>3. UNCHANGED Others
  BY BoundsLeaveEdits DEF PersistOutcome, Others, index, history
<1>4. CASE Persist(op) /\ run' = [run EXCEPT !.at = "tasks", !.op = op]
  <2>1. /\ op \in Operations /\ op.old = file.old /\ op.new = file.new
        /\ op.phase = file.phase
        /\ op.outcome = [file.outcome EXCEPT ![run.task] = run.result]
    BY <1>2, OutcomeTyped
  <2>2. /\ run' \in Runs /\ run'.at = "tasks" /\ run'.op = op
        /\ run'.todo = run.todo
    BY <1>4, <2>1 DEF RenameInv, TypeOK, Runs, Positions
  <2>3. run.task \notin touched => Believed(run.task, run.result)
    BY <1>1, <1>2, RenameAssumption DEF RenameInv, OutcomesTrue, Changing
  <2> HIDE DEF op
  <2> QED
    BY <1>1, <1>2, <1>3, <1>4, <2>1, <2>2, <2>3, OutcomeKeeps
<1>5. CASE OutcomeLost /\ UNCHANGED <<file, active>> /\ run.result = "failed"
  <2>1. InputsChange'
    BY <1>3 DEF RenameInv, InputsChange, Others
  <2> QED
    BY <1>3, <1>5, <2>1, StopKeeps DEF Others, OutcomeLost, Throws
<1>6. CASE OutcomeLost /\ UNCHANGED <<file, active>> /\ run.result # "failed"
  <2>1. /\ run' \in Runs /\ run'.at = "outcome" /\ run'.op = file /\ run'.result = "failed"
        /\ run'.task = run.task /\ run'.todo = run.todo
    BY <1>1, <1>2, <1>6 DEF OutcomeLost, RenameInv, TypeOK, Runs, Outcomes
  <2> USE <1>1, <1>2, <1>3, <1>6, <2>1 DEF RenameInv, Others
  <2>2. TypeOK' /\ InputsChange' /\ MemoryFollows' /\ OfLast'
    BY DEF TypeOK, InputsChange, MemoryFollows, OfLast, Pending
  <2>3. AtPosition' /\ OutcomesTrue'
    BY DEF AtPosition, Undone, Pending, OutcomesTrue, Believed, Renamed
  <2>4. SavedFirst' /\ TaxonomyFirst' /\ IndexedAtEnd'
    BY DEF SavedFirst, TaxonomyFirst, Renamed, IndexedAtEnd, Pending
  <2> QED
    BY <2>2, <2>3, <2>4
<1> QED
  BY <1>4, <1>5, <1>6 DEF PersistOutcome

----------------------------------------------------------------------------
(* The end of a run *)

LEMMA RebuildKeeps == RenameInv /\ RebuildIndex => RenameInv'
<1> SUFFICES ASSUME RenameInv, RebuildIndex PROVE RenameInv'
  OBVIOUS
<1>1. run.at = "rebuild"
  BY DEF RebuildIndex, In
<1>2. /\ up /\ ~suspended /\ active = file /\ Pending /\ run.op = file
      /\ file \in Operations
  BY <1>1, RunFacts
<1>3. /\ UNCHANGED <<saved, file, status, up, settings, active, suspended, queue, last,
                     touched, retaxed, edits>>
      /\ hidden' \subseteq Tasks /\ unindexed' \in {unindexed, {}}
  BY BoundsLeaveEdits
     DEF RebuildIndex, Rebuilds, disk, memory, index, history, RenameInv, TypeOK
<1>4. PICK at \in {"giveUp", "done"} :
        /\ run' = [run EXCEPT !.at = at, !.op = file]
        /\ at = "done" => unindexed' = {} /\ \A t \in DOMAIN file.outcome : file.outcome[t] # "failed"
  BY <1>2 DEF RebuildIndex, Rebuilds, Go, AfterRebuild
<1>5. run' \in Runs /\ run'.at = at /\ run'.op = file
  BY <1>2, <1>4 DEF RenameInv, TypeOK, Runs, Positions
<1> USE <1>1, <1>2, <1>3, <1>4, <1>5 DEF RenameInv
<1>6. TypeOK' /\ InputsChange' /\ MemoryFollows' /\ OfLast'
  BY DEF TypeOK, InputsChange, MemoryFollows, OfLast, Pending
<1>7. AtPosition'
  BY DEF AtPosition, Undone, Open, Pending
<1>8. OutcomesTrue'
  BY DEF OutcomesTrue, Pending, Believed, Renamed
<1>9. SavedFirst' /\ TaxonomyFirst' /\ IndexedAtEnd'
  BY DEF SavedFirst, TaxonomyFirst, Renamed, IndexedAtEnd, Pending
<1> QED
  BY <1>6, <1>7, <1>8, <1>9

\* The journal is cleared when each outcome in it is final, so that each task
\* the user left alone has the new name.
LEMMA ClearKeeps == RenameInv /\ Clear => RenameInv'
<1> SUFFICES ASSUME RenameInv, Clear PROVE RenameInv'
  OBVIOUS
<1>1. run.at = "clear"
  BY DEF Clear, In
<1>2. /\ up /\ ~suspended /\ active = file /\ Pending /\ file \in Operations
      /\ file.phase = "complete" /\ DOMAIN file.outcome = last.tasks /\ last \in Changing
  BY <1>1, RunFacts DEF RenameInv, AtPosition
<1>3. UNCHANGED Others
  BY BoundsLeaveEdits DEF Clear, Others, index, history
<1>4. InputsChange'
  BY <1>3 DEF RenameInv, InputsChange, Others
<1>5. CASE Throws /\ UNCHANGED <<file, active>>
  BY <1>3, <1>4, <1>5, StopKeeps DEF Others, Throws
<1>6. CASE Persist(None) /\ Ends
  <2>1. \A t \in last.tasks \ touched : Renamed(t)
    <3> SUFFICES ASSUME NEW t \in last.tasks \ touched PROVE Renamed(t)
      OBVIOUS
    <3>1. file.outcome[t] \in Outcomes
      <4>1. PICK T \in SUBSET Tasks : file \in OperationsOn(T)
        BY <1>2, OperationShape
      <4> QED
        BY <1>2, <4>1 DEF OperationsOn
    <3>2. file.outcome[t] \notin Open
      BY <1>2 DEF RenameInv, AtPosition, Undone
    <3>3. Believed(t, file.outcome[t])
      BY <1>2, RenameAssumption DEF RenameInv, OutcomesTrue, Changing
    <3> QED
      BY <3>1, <3>2, <3>3 DEF Believed, Outcomes, Open
  <2>2. /\ run' = Idle /\ file' = None /\ active' = None /\ unindexed = {}
    BY <1>1, <1>6 DEF Persist, Ends, RenameInv, IndexedAtEnd
  <2> USE <1>2, <1>3, <2>1, <2>2 DEF RenameInv, Others, Idle
  <2>3. TypeOK' /\ MemoryFollows' /\ OfLast'
    BY DEF TypeOK, Runs, Positions, Outcomes, MemoryFollows, OfLast, Pending
  <2>4. AtPosition' /\ IndexedAtEnd'
    BY DEF AtPosition, Pending, IndexedAtEnd
  <2>5. OutcomesTrue'
    BY DEF OutcomesTrue, Pending, Renamed
  <2>6. SavedFirst' /\ TaxonomyFirst'
    BY DEF SavedFirst, TaxonomyFirst, Renamed
  <2> QED
    BY <1>4, <2>3, <2>4, <2>5, <2>6
<1> QED
  BY <1>5, <1>6 DEF Clear

LEMMA RunStepKeeps == RenameInv /\ RunStep => RenameInv'
  BY PhasesKeep, PrepareKeeps, TakeResumeKeeps, ResumeCompleteKeeps, ResumeConflictKeeps,
     CommitKeeps, LoopKeeps, AttemptKeeps, WriteKeeps, PersistOutcomeKeeps, RebuildKeeps,
     ClearKeeps
     DEF RunStep

----------------------------------------------------------------------------
(* Calls, edits, crashes *)

LEMMA CallKeeps ==
    ASSUME RenameInv, NEW c \in Changing \cup {Resume}, Call(c)
    PROVE  RenameInv'
<1> USE DEF RenameInv, Call, disk, memory, index, history
<1>1. InputsChange'
  BY DEF InputsChange
<1>2. TypeOK' /\ MemoryFollows' /\ OfLast' /\ AtPosition'
  BY DEF TypeOK, MemoryFollows, OfLast, AtPosition, Undone, Pending
<1>3. OutcomesTrue'
  BY DEF OutcomesTrue, Pending, Believed, Renamed
<1>4. SavedFirst' /\ TaxonomyFirst' /\ IndexedAtEnd'
  BY DEF SavedFirst, TaxonomyFirst, Renamed, IndexedAtEnd, Pending
<1> QED
  BY <1>1, <1>2, <1>3, <1>4

LEMMA SubmitKeeps == RenameInv /\ SubmitRename => RenameInv'
<1> SUFFICES ASSUME RenameInv, NEW new \in Taxonomies \ {settings},
                    Call([old |-> settings, new |-> new,
                          tasks |-> {t \in Tasks : status[t] = settings}])
             PROVE  RenameInv'
  BY DEF SubmitRename
<1>1. [old |-> settings, new |-> new, tasks |-> {t \in Tasks : status[t] = settings}]
        \in Changing
  BY DEF Changing, Inputs, RenameInv, TypeOK
<1> QED
  BY <1>1, CallKeeps

\* The taxonomy of the rename wins over another one.
LEMMA ResolveKeeps == RenameInv /\ ResolveConflict => RenameInv'
<1> SUFFICES ASSUME RenameInv, ResolveConflict PROVE RenameInv'
  OBVIOUS
<1>1. /\ active = file /\ Pending /\ file.new = last.new /\ file.new \in Taxonomies
  <2>1. active = file /\ file # None
    BY DEF ResolveConflict, RenameInv, MemoryFollows, TypeOK
  <2>2. last # None /\ file.new = last.new
    BY <2>1 DEF RenameInv, OfLast, Pending
  <2> QED
    BY <2>1, <2>2 DEF RenameInv, InputsChange, Changing, Inputs, Pending
<1>2. /\ UNCHANGED <<file, status, up, active, suspended, hidden, unindexed, run, edits,
                     last, touched, retaxed>>
      /\ \/ settings' = last.new /\ saved' = last.new
         \/ UNCHANGED <<settings, saved>>
  BY <1>1 DEF ResolveConflict, index, history
<1>3. InputsChange'
  BY DEF ResolveConflict, RenameInv, InputsChange, history
<1> USE <1>1, <1>2 DEF RenameInv
<1>4. TypeOK' /\ MemoryFollows' /\ OfLast' /\ AtPosition'
  BY DEF TypeOK, MemoryFollows, OfLast, AtPosition, Undone, Pending
<1>5. OutcomesTrue'
  BY DEF OutcomesTrue, Pending, Believed, Renamed
<1>6. SavedFirst' /\ TaxonomyFirst' /\ IndexedAtEnd'
  BY DEF SavedFirst, TaxonomyFirst, Renamed, IndexedAtEnd, Pending
<1> QED
  BY <1>3, <1>4, <1>5, <1>6

\* Whatever the user changes becomes the exception of the promises.
LEMMA EditsKeep ==
    RenameInv /\ ((\E t \in Tasks : EditTask(t) \/ MoveTask(t)) \/ EditTaxonomy \/ IndexFollows)
        => RenameInv'
<1> USE DEF RenameInv, Edit, disk, memory, index, bounds, history
<1>1. ASSUME RenameInv, NEW t \in Tasks, EditTask(t) PROVE RenameInv'
  <2> USE <1>1 DEF EditTask
  <2>1. /\ status' \in [Tasks -> Taxonomies \cup {"gone"}]
        /\ \A u \in Tasks \ {t} : status'[u] = status[u]
    BY DEF TypeOK
  <2>2. last # None => last.tasks \subseteq Tasks
    BY DEF InputsChange, Changing, Inputs
  <2>3. TypeOK' /\ InputsChange' /\ MemoryFollows' /\ OfLast' /\ AtPosition'
    BY <2>1 DEF TypeOK, InputsChange, MemoryFollows, OfLast, AtPosition, Undone, Pending
  <2>4. OutcomesTrue' /\ TaxonomyFirst'
    BY <2>1, <2>2 DEF OutcomesTrue, Pending, Believed, Renamed, TaxonomyFirst
  <2>5. SavedFirst' /\ IndexedAtEnd'
    BY DEF SavedFirst, IndexedAtEnd, Pending
  <2> QED
    BY <2>3, <2>4, <2>5
<1>2. ASSUME RenameInv, NEW t \in Tasks, MoveTask(t) PROVE RenameInv'
  <2> USE <1>2 DEF MoveTask
  <2>1. TypeOK' /\ InputsChange' /\ MemoryFollows' /\ OfLast' /\ AtPosition'
    BY DEF TypeOK, InputsChange, MemoryFollows, OfLast, AtPosition, Undone, Pending
  <2>2. OutcomesTrue' /\ SavedFirst' /\ TaxonomyFirst' /\ IndexedAtEnd'
    BY DEF OutcomesTrue, Pending, Believed, Renamed, TaxonomyFirst, SavedFirst, IndexedAtEnd
  <2> QED
    BY <2>1, <2>2
<1>3. ASSUME RenameInv, EditTaxonomy PROVE RenameInv'
  <2> USE <1>3 DEF EditTaxonomy
  <2>1. TypeOK' /\ InputsChange' /\ MemoryFollows' /\ OfLast' /\ AtPosition'
    BY DEF TypeOK, InputsChange, MemoryFollows, OfLast, AtPosition, Undone, Pending
  <2>2. OutcomesTrue' /\ SavedFirst' /\ TaxonomyFirst' /\ IndexedAtEnd'
    BY DEF OutcomesTrue, Pending, Believed, Renamed, TaxonomyFirst, SavedFirst, IndexedAtEnd
  <2> QED
    BY <2>1, <2>2
<1>4. ASSUME RenameInv, IndexFollows PROVE RenameInv'
  <2> USE <1>4 DEF IndexFollows
  <2>1. TypeOK' /\ InputsChange' /\ MemoryFollows' /\ OfLast' /\ AtPosition'
    BY DEF TypeOK, InputsChange, MemoryFollows, OfLast, AtPosition, Undone, Pending
  <2>2. OutcomesTrue' /\ SavedFirst' /\ TaxonomyFirst' /\ IndexedAtEnd'
    BY DEF OutcomesTrue, Pending, Believed, Renamed, TaxonomyFirst, SavedFirst, IndexedAtEnd
  <2> QED
    BY <2>1, <2>2
<1> QED
  BY <1>1, <1>2, <1>3, <1>4

\* A crash leaves the journal, the taxonomy and the tasks; a restart reads them.
LEMMA CrashKeeps == RenameInv /\ (Crash \/ Restart) => RenameInv'
<1> USE DEF RenameInv, disk, memory, index, bounds, history
<1>1. ASSUME RenameInv, Crash PROVE RenameInv'
  <2> USE <1>1 DEF Crash, Idle
  <2>1. InputsChange'
    BY DEF InputsChange
  <2>2. TypeOK' /\ MemoryFollows' /\ OfLast' /\ AtPosition'
    BY DEF TypeOK, Runs, Positions, Outcomes, MemoryFollows, OfLast, AtPosition, Undone, Pending
  <2>3. OutcomesTrue' /\ SavedFirst' /\ TaxonomyFirst' /\ IndexedAtEnd'
    BY DEF OutcomesTrue, Pending, Believed, Renamed, TaxonomyFirst, SavedFirst, IndexedAtEnd
  <2> QED
    BY <2>1, <2>2, <2>3
<1>2. ASSUME RenameInv, Restart PROVE RenameInv'
  <2> USE <1>2 DEF Restart, Resumes
  <2>1. run.at = "idle" /\ edits' = edits
    BY BoundsLeaveEdits DEF MemoryFollows, TypeOK
  <2>2. InputsChange'
    BY DEF InputsChange
  <2>3. TypeOK' /\ MemoryFollows' /\ OfLast' /\ AtPosition'
    BY <2>1 DEF TypeOK, MemoryFollows, OfLast, AtPosition, Undone, Pending
  <2>4. OutcomesTrue' /\ SavedFirst' /\ TaxonomyFirst' /\ IndexedAtEnd'
    BY <2>1 DEF OutcomesTrue, Pending, Believed, Renamed, TaxonomyFirst, SavedFirst, IndexedAtEnd
  <2> QED
    BY <2>2, <2>3, <2>4
<1> QED
  BY <1>1, <1>2

----------------------------------------------------------------------------
(* The invariant and what follows from it *)

LEMMA RenameInit == Init => RenameInv
<1> SUFFICES ASSUME Init PROVE RenameInv
  OBVIOUS
<1> USE RenameAssumption DEF Init, Idle
<1>1. InputsChange
  BY DEF InputsChange
<1>2. TypeOK
  <2>1. up \in BOOLEAN /\ suspended \in BOOLEAN /\ retaxed \in BOOLEAN
    BY Zenon
  <2>2. edits \in Nat
    BY MaxEdits \in Nat
  <2>3. status \in [Tasks -> Taxonomies \cup {"gone"}]
    OBVIOUS
  <2>4. run \in Runs
    BY DEF Runs, Positions, Outcomes
  <2> QED
    BY <2>1, <2>2, <2>3, <2>4 DEF TypeOK
<1>3. MemoryFollows /\ OfLast /\ AtPosition /\ OutcomesTrue
  BY DEF MemoryFollows, OfLast, AtPosition, Pending, OutcomesTrue
<1>4. SavedFirst /\ TaxonomyFirst /\ IndexedAtEnd
  BY DEF SavedFirst, TaxonomyFirst, IndexedAtEnd, Pending
<1> QED
  BY <1>1, <1>2, <1>3, <1>4 DEF RenameInv

LEMMA RenameStep == RenameInv /\ [Next]_vars => RenameInv'
<1>1. RenameInv /\ Next => RenameInv'
  <2>1. RenameInv /\ Retry => RenameInv'
    BY CallKeeps DEF Retry
  <2> QED
    BY <2>1, RunStepKeeps, SubmitKeeps, ResolveKeeps, EditsKeep, CrashKeeps DEF Next
<1>2. RenameInv /\ UNCHANGED vars => RenameInv'
  <2> SUFFICES ASSUME RenameInv, UNCHANGED vars PROVE RenameInv'
    OBVIOUS
  <2> USE DEF RenameInv, vars, disk, memory, index, bounds, history
  <2>1. TypeOK' /\ InputsChange' /\ MemoryFollows' /\ OfLast' /\ AtPosition'
    BY DEF TypeOK, InputsChange, MemoryFollows, OfLast, AtPosition, Undone, Pending
  <2>2. OutcomesTrue' /\ SavedFirst' /\ TaxonomyFirst' /\ IndexedAtEnd'
    BY DEF OutcomesTrue, Pending, Believed, Renamed, TaxonomyFirst, SavedFirst, IndexedAtEnd
  <2> QED
    BY <2>1, <2>2
<1> QED
  BY <1>1, <1>2

\* The invariant of the rename holds, whatever fails, crashes or is edited.
THEOREM RenameInvariant == Spec => []RenameInv
  BY RenameInit, RenameStep, PTL DEF Spec

\* Every variable of the rename keeps its type.
THEOREM RenameTypes == Spec => []TypeOK
<1>1. RenameInv => TypeOK
  BY DEF RenameInv
<1> QED
  BY <1>1, RenameInvariant, PTL

\* No task that the user left alone keeps the old name under the new taxonomy
\* without a journal on disk.
THEOREM NoTaskLeftBehind == Spec => []NothingLeftBehind
<1>1. RenameInv => NothingLeftBehind
  BY DEF RenameInv, OutcomesTrue, NothingLeftBehind
<1> QED
  BY <1>1, RenameInvariant, PTL

\* No task has the new name before its taxonomy is saved.
THEOREM TaxonomyIsFirst == Spec => []TaxonomyFirst
<1>1. RenameInv => TaxonomyFirst
  BY DEF RenameInv
<1> QED
  BY <1>1, RenameInvariant, PTL

\* When the journal is cleared, the index has every task that was changed.
THEOREM ClearedMeansIndexed == Spec => []ClearedIsIndexed
<1>1. RenameInv => ClearedIsIndexed
  BY DEF RenameInv, IndexedAtEnd, ClearedIsIndexed
<1> QED
  BY <1>1, RenameInvariant, PTL

OnlyRename ==
    \A t \in Tasks : status[t] # status'[t] /\ edits' = edits
       => status[t] = last.old /\ status'[t] = last.new

LEMMA OnlyWriteRenames == RenameInv /\ [Next]_vars => OnlyRename
<1> SUFFICES ASSUME RenameInv, Next, status' # status PROVE OnlyRename
  BY DEF vars, OnlyRename
<1>1. CASE WriteTask
  <2>1. run.at = "write"
    BY <1>1 DEF WriteTask, In
  <2>2. /\ Result(run.task) = "updated" /\ status' = [status EXCEPT ![run.task] = run.op.new]
        /\ run.op.new = last.new
    BY <1>1, <2>1, RunFacts DEF WriteTask
  <2>3. status[run.task] = last.old
    BY <2>1, <2>2, ResultTrue
  <2> QED
    BY <2>2, <2>3 DEF OnlyRename, RenameInv, TypeOK
<1>2. CASE \E t \in Tasks : EditTask(t)
  BY <1>2 DEF EditTask, Edit, OnlyRename, RenameInv, TypeOK
<1>3. WriteTask \/ \E t \in Tasks : EditTask(t)
  BY DEF Next, RunStep, PrepareNow, TakeResume, ResumeComplete, ResumeConflict, CommitTaxonomy,
         CommittedPhase, MigratingPhase, GiveUp, TasksDone, CompletePhase, PersistPhase, Loop,
         Attempt, PersistOutcome, RebuildIndex, Clear, SubmitRename, Retry, Call,
         ResolveConflict, IndexFollows, MoveTask, EditTaxonomy, Crash, Restart
<1> QED
  BY <1>1, <1>2, <1>3

\* The rename changes tasks from the old name to the new one and preserves any
\* other change.
THEOREM ConflictsArePreserved == Spec => ConflictsPreserved
<1>1. RenameInv /\ [Next]_vars => [OnlyRename]_vars
  BY OnlyWriteRenames
<1> QED
  BY <1>1, RenameInvariant, PTL DEF Spec, ConflictsPreserved, OnlyRename
=============================================================================
