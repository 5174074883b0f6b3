------------------------------- MODULE TimeTracker -------------------------------
(***************************************************************************)
(* The time tracker (src/systems/time-tracker.ts) with its store of the    *)
(* running timer (src/storage/active-tracker-store.ts).  Starting and      *)
(* stopping a timer and editing a session are transitions, which one       *)
(* promise queue runs one at a time.  A transition reads the sessions of a *)
(* task from the index, writes the task's file, reindexes it and changes   *)
(* the record of the running timer, which the store saves through a queue  *)
(* of its own; resumeFromIndex, a side effect of the index, clears the     *)
(* record of a task the index no longer has, outside the transitions.      *)
(* Calls fail, the process dies, and tasks leave the index and return.     *)
(*                                                                         *)
(* A period of tracked time is named by the id of its record.  A session   *)
(* keeps the id of the period it came from (none if the user added it),    *)
(* which the code does not; no guard reads it.                             *)
(***************************************************************************)
EXTENDS Naturals, Sequences

CONSTANTS
    Tasks,         \* operon ids
    NoTask,        \* the task of a timer that is not assigned to one
    Gone,          \* the index does not have the task
    MaxTime,       \* localNow, in seconds
    Bounds         \* how many transitions, faults and departures a run has

ASSUME TimeTrackerAssumption ==
    /\ NoTask \notin Tasks
    /\ MaxTime \in Nat
    /\ Bounds \in [{"transitions", "faults", "departures"} -> Nat]

VARIABLES
    field,      \* field[t]: the sessions in the task's trackers field
    seen,       \* seen[t]: those the index has of it, or Gone
    disk,       \* active-trackers.json
    active,     \* the store's record of the running timer
    mutations,  \* mutationQueue of the store
    nextId,
    now,
    finalized,  \* finalizedActiveRecordIds
    op, pc,     \* the transition at the head of the queue
    task,       \* the task it is for
    current,    \* the record it stops
    previous,   \* the record a start replaces
    write,      \* the sessions it writes
    answer,     \* what the last transition returned
    removed,    \* history: the sessions that writes took away from tasks
    misfiled,   \* history: periods whose record lost its task on disk only, by a
                \* restore that failed after it had changed the file
    left        \* how many more transitions, faults and departures may happen

store == <<disk, active, mutations, nextId>>
tx    == <<op, pc, task, current, previous, write, answer>>
history == <<removed, misfiled>>
vars  == <<field, seen, store, now, finalized, tx, history, left>>

----------------------------------------------------------------------------
NoRecord == [id |-> 0, task |-> NoTask, start |-> 0]
Times    == 0..MaxTime
Records  == [id : Nat, task : Tasks \cup {NoTask}, start : Times]
Sessions == [start : Times, end : Times, of : Nat]
Removals == [task : Tasks, session : Sessions, by : {"edit", "stop"}]

Running   == active.id # 0
Present(t) == t \in Tasks /\ seen[t] # Gone
Spend(what) == left[what] > 0 /\ left' = [left EXCEPT ![what] = @ - 1]
Idle      == op = "none"
Goto(label) == pc' = label
Return(result) ==
    /\ op' = "none" /\ pc' = "idle" /\ answer' = result
    /\ task' = NoTask /\ current' = NoRecord /\ previous' = NoRecord /\ write' = {}

\* The mutations of the store: to clear the record, or to set it, by a
\* transition that awaits it or by resumeFromIndex.
Clearing(by)   == [by |-> by, kind |-> "clear", record |-> NoRecord]
Setting(r)     == [by |-> "transition", kind |-> "set", record |-> r]
Enqueue(m)     == mutations' = Append(mutations, m)
ClearRecord    == Enqueue(Clearing("transition"))

Init ==
    /\ field = [t \in Tasks |-> {}] /\ seen = field
    /\ disk = NoRecord /\ active = NoRecord /\ mutations = <<>>
    /\ nextId = 1 /\ now = 0 /\ finalized = {}
    /\ op = "none" /\ pc = "idle" /\ task = NoTask
    /\ current = NoRecord /\ previous = NoRecord /\ write = {} /\ answer = TRUE
    /\ removed = {} /\ misfiled = {} /\ left = Bounds

----------------------------------------------------------------------------
(* Stopping the running timer, by itself or for a switch *)

\* Variant: only the memory of this session tells what is saved already.
AlreadyPersisted_Memory(r) == r.id \in finalized

\* The session of a record is saved already if this process saved it, or if
\* the task has a session that begins when the record does.
AlreadyPersisted(r) ==
    r.id \in finalized \/ \E s \in seen[r.task] : s.start = r.start

Session(r) == [start |-> r.start, end |-> now, of |-> r.id]

\* stopActive up to its first await.
BeginStopping ==
    /\ current' = active
    /\ IF Present(active.task) /\ ~AlreadyPersisted(active)
       THEN /\ Goto("save") /\ write' = seen[active.task] \cup {Session(active)}
            /\ UNCHANGED mutations
       ELSE /\ Goto(IF active.task = NoTask \/ Present(active.task)
                    THEN "clear" ELSE "discard")
            /\ ClearRecord /\ UNCHANGED write

Stop ==
    /\ Idle /\ Running /\ Spend("transitions")
    /\ op' = "stop" /\ task' = active.task
    /\ BeginStopping
    /\ UNCHANGED <<field, seen, disk, active, nextId, now, finalized, previous, answer,
                   history>>

\* stopActiveWithExternalTaskMutation: the caller writes the session together
\* with its own change of the task, and may decline.
StopExternally(t) ==
    /\ Idle /\ active.task = t /\ Present(t) /\ Spend("transitions")
    /\ op' = "external" /\ task' = t
    /\ BeginStopping
    /\ UNCHANGED <<field, seen, disk, active, nextId, now, finalized, previous, answer,
                   history>>

\* addSession, updateSession(ByRange), deleteSession(ByRange): they write what
\* the index shows them, edited.
EditSession(t) ==
    /\ Idle /\ Present(t) /\ Spend("transitions")
    /\ op' = "edit" /\ task' = t /\ Goto("save")
    /\ \/ \E b \in Times :
             write' = seen[t] \cup {[start |-> b, end |-> MaxTime, of |-> 0]}
       \/ \E s \in seen[t] :
             \/ write' = seen[t] \ {s}
             \/ \E b \in Times \ {s.start} :
                    write' = (seen[t] \ {s}) \cup {[s EXCEPT !.start = b]}
    /\ UNCHANGED <<field, seen, store, now, finalized, current, previous, answer, history>>

\* The task whose sessions the transition writes.
Subject == IF op = "edit" THEN task ELSE current.task

\* writeTaskFields: it needs the task in the index.
SaveSessions ==
    /\ pc = "save" /\ Present(Subject) /\ Goto("reindex")
    /\ field' = [field EXCEPT ![Subject] = write]
    /\ removed' = removed \cup {[task |-> Subject, session |-> s,
                                 by |-> IF op = "edit" THEN "edit" ELSE "stop"] :
                                    s \in field[Subject] \ write}
    /\ UNCHANGED <<seen, store, now, finalized, op, task, current, previous, write,
                   answer, misfiled, left>>

\* Variant: the answer of writeTaskFields is not looked at.
SaveFails_Ignored ==
    /\ pc = "save" /\ ~Present(Subject) /\ op # "edit"
    /\ Goto("clear") /\ ClearRecord
    /\ UNCHANGED <<field, seen, disk, active, nextId, now, finalized, op, task, current,
                   previous, write, answer, history, left>>

\* The writer or the caller refuses or throws: the transition ends, the timer runs.
SaveFails ==
    /\ pc = "save"
    /\ \/ ~Present(Subject) /\ UNCHANGED left
       \/ op = "external" /\ UNCHANGED left
       \/ Spend("faults")
    /\ Return(FALSE)
    /\ UNCHANGED <<field, seen, store, now, finalized, history>>

Scanned(t) == IF seen[t] = Gone THEN seen ELSE [seen EXCEPT ![t] = field[t]]

\* reindexFilePath keeps the previous state of a file it fails to scan.  What is
\* saved is remembered before the record is cleared.
Reindex ==
    /\ pc = "reindex"
    /\ \/ seen' = Scanned(Subject) /\ UNCHANGED left
       \/ UNCHANGED seen /\ Spend("faults")
    /\ IF op = "edit"
       THEN Return(TRUE) /\ UNCHANGED <<mutations, finalized>>
       ELSE /\ Goto("clear") /\ ClearRecord
            /\ finalized' = finalized \cup {current.id}
            /\ UNCHANGED <<op, task, current, previous, write, answer>>
    /\ UNCHANGED <<field, disk, active, nextId, now, history>>

\* The index rejects.
ReindexFails ==
    /\ pc = "reindex" /\ Spend("faults")
    /\ Return(FALSE)
    /\ UNCHANGED <<field, seen, store, now, finalized, history>>

----------------------------------------------------------------------------
(* Starting a timer *)

\* setActiveTracker when r is the record of the running timer and q are the
\* mutations of the store: a timer without a task keeps its start when it is
\* given one.
SetRecord(t, r, q) ==
    /\ previous' = r /\ Goto("set")
    /\ mutations' = Append(q, Setting([id |-> 0, task |-> t,
                                       start |-> IF r = NoRecord THEN now ELSE r.start]))

\* Variant: a start that switches calls stop, which waits behind it in the queue.
Start_StopQueued(t) ==
    /\ Idle /\ Present(t) /\ active.task # t /\ Spend("transitions")
    /\ op' = "start" /\ task' = t
    /\ IF active.task # NoTask
       THEN current' = active /\ Goto("clear") /\ UNCHANGED <<mutations, previous, write>>
       ELSE SetRecord(t, active, mutations) /\ UNCHANGED <<current, write>>
    /\ UNCHANGED <<field, seen, disk, active, nextId, now, finalized, answer, history>>

Start(t) ==
    /\ Idle /\ Present(t) /\ active.task # t /\ Spend("transitions")
    /\ op' = "start" /\ task' = t
    /\ IF active.task # NoTask
       THEN BeginStopping /\ UNCHANGED previous
       ELSE SetRecord(t, active, mutations) /\ UNCHANGED <<current, write>>
    /\ UNCHANGED <<field, seen, disk, active, nextId, now, finalized, answer, history>>

StartUnassigned ==
    /\ Idle /\ ~Running /\ Spend("transitions")
    /\ op' = "start" /\ task' = NoTask
    /\ SetRecord(NoTask, NoRecord, mutations)
    /\ UNCHANGED <<field, seen, disk, active, nextId, now, finalized, current, write,
                   answer, history>>

\* The status of the task is written, if its workflow has one for tracking: the
\* status is not modelled, the reindex and the failure are.
Apply ==
    /\ pc = "apply" /\ Return(TRUE)
    /\ seen' \in {seen, Scanned(task)}
    /\ UNCHANGED <<field, store, now, finalized, history, left>>

ApplyFails ==
    /\ pc = "apply"
    /\ \/ ~Present(task) /\ UNCHANGED left
       \/ Spend("faults")
    /\ Goto("restore")
    /\ Enqueue(IF previous = NoRecord THEN Clearing("transition") ELSE Setting(previous))
    /\ UNCHANGED <<field, seen, disk, active, nextId, now, finalized, op, task, current,
                   previous, write, answer, history>>

----------------------------------------------------------------------------
(* The store of the running timer *)

\* The record that the first mutation makes active; one without an id takes that
\* of the record it replaces, or a new one.
Committed ==
    LET m == Head(mutations) IN
    IF m.kind = "clear" THEN NoRecord
    ELSE [m.record EXCEPT !.id = IF @ # 0 THEN @ ELSE IF Running THEN active.id ELSE nextId]

GiveId == nextId' = IF Committed.id = nextId THEN nextId + 1 ELSE nextId

\* Where a transition goes on when the mutation it awaited is committed.
Continue ==
    \/ /\ pc = "clear" /\ op # "start" /\ Return(TRUE)
       /\ mutations' = Tail(mutations) /\ finalized' = finalized \ {current.id}
    \/ /\ pc = "clear" /\ op = "start"
       /\ SetRecord(task, NoRecord, Tail(mutations))
       /\ finalized' = finalized \ {current.id}
       /\ UNCHANGED <<op, task, current, write, answer>>
    \/ /\ pc = "set" /\ task # NoTask /\ Goto("apply")
       /\ mutations' = Tail(mutations)
       /\ UNCHANGED <<finalized, op, task, current, previous, write, answer>>
    \/ /\ pc = "set" /\ task = NoTask /\ Return(TRUE)
       /\ mutations' = Tail(mutations) /\ UNCHANGED finalized
    \/ /\ pc \in {"discard", "restore"} /\ Return(FALSE)
       /\ mutations' = Tail(mutations) /\ UNCHANGED finalized

\* mutateActive: the file first, then the memory.
Commit ==
    /\ mutations # <<>>
    /\ disk' = (IF Committed = active THEN disk ELSE Committed)
    /\ active' = Committed /\ GiveId
    /\ IF Head(mutations).by = "resume"
       THEN mutations' = Tail(mutations) /\ UNCHANGED <<finalized, tx>>
       ELSE Continue
    /\ UNCHANGED <<field, seen, now, history, left>>

\* The flush rejects, before or after it had its effect on the file.
Reject ==
    /\ mutations # <<>> /\ Committed # active /\ Spend("faults")
    /\ mutations' = Tail(mutations)
    /\ disk' \in {disk, Committed} /\ GiveId
    /\ IF Head(mutations).by = "resume" THEN UNCHANGED tx ELSE Return(FALSE)
    /\ misfiled' = IF pc = "restore" /\ Head(mutations).kind = "set" /\ disk' # disk
                   THEN misfiled \cup {previous.id} ELSE misfiled
    /\ UNCHANGED <<field, seen, active, now, finalized, removed>>

----------------------------------------------------------------------------
(* The index, time and restarts *)

\* resumeFromIndex, with at most one of its calls pending.
ResumeFromIndex ==
    /\ active.task # NoTask /\ ~Present(active.task)
    /\ \A i \in DOMAIN mutations : mutations[i].by # "resume"
    /\ Enqueue(Clearing("resume"))
    /\ UNCHANGED <<field, seen, disk, active, nextId, now, finalized, tx, history, left>>

Leave(t) ==
    /\ Present(t) /\ Spend("departures")
    /\ seen' = [seen EXCEPT ![t] = Gone]
    /\ UNCHANGED <<field, store, now, finalized, tx, history>>

\* The task returns, or the index catches up with its file.
Refresh(t) ==
    /\ seen[t] # field[t] /\ seen' = [seen EXCEPT ![t] = field[t]]
    /\ UNCHANGED <<field, store, now, finalized, tx, history, left>>

Tick ==
    /\ now < MaxTime /\ now' = now + 1
    /\ UNCHANGED <<field, seen, store, finalized, tx, history, left>>

Crash ==
    /\ Spend("faults") /\ Return(TRUE)
    /\ active' = disk /\ mutations' = <<>> /\ finalized' = {}
    /\ seen' = [t \in Tasks |-> IF seen[t] = Gone THEN Gone ELSE field[t]]
    /\ UNCHANGED <<field, disk, nextId, now, history>>

----------------------------------------------------------------------------
Step ==
    \/ SaveSessions \/ SaveFails \/ Reindex \/ ReindexFails \/ Apply \/ ApplyFails
Write == Commit \/ Reject

Next ==
    \/ Stop \/ StartUnassigned \/ Step \/ Write \/ ResumeFromIndex \/ Tick \/ Crash
    \/ \E t \in Tasks :
           Start(t) \/ StopExternally(t) \/ EditSession(t) \/ Leave(t) \/ Refresh(t)

\* Every call a transition awaits settles, and so does every write of the store:
\* the guard, which asks the user, is passed before a transition is modelled.
Fairness == WF_vars(Step) /\ WF_vars(Write)

Spec == Init /\ [][Next]_vars /\ Fairness

----------------------------------------------------------------------------
(* Correctness *)

TypeOK ==
    /\ field \in [Tasks -> SUBSET Sessions]
    /\ seen \in [Tasks -> (SUBSET Sessions) \cup {Gone}]
    /\ disk \in Records /\ active \in Records
    /\ nextId \in Nat \ {0} /\ now \in Times /\ finalized \subseteq Nat
    /\ op \in {"none", "start", "stop", "external", "edit"}
    /\ pc \in {"idle", "save", "reindex", "clear", "discard", "set", "apply", "restore"}
    /\ task \in Tasks \cup {NoTask} /\ current \in Records /\ previous \in Records
    /\ write \subseteq Sessions /\ answer \in BOOLEAN
    /\ removed \subseteq Removals /\ misfiled \subseteq Nat
    /\ left \in [{"transitions", "faults", "departures"} -> Nat]

EditedByUser(id) == \E e \in removed : e.by = "edit" /\ e.session.of = id

\* A period of tracked time is counted once: stopping it again, after a failed
\* clear of its record or a crash before it, adds no second session, to its task
\* or another one.  (One whose session the user changed is no longer recognised by
\* its start, and one that the file had without its task may be given another.)
CountedOnce ==
    \A t, u \in Tasks : \A s \in field[t], r \in field[u] :
        s.of = r.of /\ s.of # 0 => \/ t = u /\ s = r
                                  \/ EditedByUser(s.of) \/ s.of \in misfiled

\* Its session was taken away again, by the user or by the stop of another period
\* that had not seen a session with the same start.
TakenAway(r) == \E e \in removed : /\ e.task = r.task
                                  /\ \/ e.session.start = r.start
                                     \/ e.by = "edit" /\ e.session.of = r.id

Saved(r) == \/ \E s \in field[r.task] : s.of = r.id \/ s.start = r.start
            \/ TakenAway(r)

\* The record that a stop or a switch removes from active-trackers.json has its
\* session in the task's file by then, whatever failed or restarted before, or
\* the session has been taken away since.
StopSaves ==
    [][pc = "clear" /\ current.task # NoTask /\ disk'.id # current.id /\ disk' # disk =>
          Saved(current)]_vars

\* The queue of transitions moves on: every start, stop and edit ends, whichever
\* of its calls fail.
TransitionsEnd == ~Idle ~> Idle
=============================================================================
