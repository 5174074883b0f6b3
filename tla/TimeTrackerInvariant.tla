-------------------------- MODULE TimeTrackerInvariant --------------------------
(***************************************************************************)
(* The inductive invariant of TimeTracker: what the queue of the store     *)
(* holds at each position of a transition, how the records of the running  *)
(* timer relate, and which sessions the records, the files and the index   *)
(* share.                                                                  *)
(***************************************************************************)
EXTENDS TimeTracker

----------------------------------------------------------------------------
(* The transition and the queue of the store *)

Resume     == Clearing("resume")
ClearTimer == Clearing("transition")
Awaited    == pc \in {"clear", "discard", "set", "restore"}

\* The mutation that the transition awaits, ...
Awaits ==
    CASE pc \in {"clear", "discard"} -> {ClearTimer}
      [] pc = "set" -> {Setting([id |-> 0, task |-> task, start |-> start]) : start \in Times}
      [] pc = "restore" -> {IF previous = NoRecord THEN ClearTimer ELSE Setting(previous)}

\* ... a clear by the index may stand before or behind it.
QueueInv ==
    IF Awaited THEN \E m \in Awaits : mutations \in {<<m>>, <<m, Resume>>, <<Resume, m>>}
               ELSE mutations \in {<<>>, <<Resume>>}

\* What a transition knows of the running timer at its position; the index may
\* have cleared the record since.
RunningOr(r) == active \in {r, NoRecord}
PositionInv ==
    /\ Idle <=> pc = "idle"
    /\ Idle => current = NoRecord /\ previous = NoRecord
    /\ op = "edit" => pc \in {"save", "reindex"} /\ task \in Tasks /\ current = NoRecord
    /\ pc \in {"save", "reindex"} /\ op # "edit" => current.task # NoTask
    /\ pc \in {"save", "reindex", "clear", "discard"} =>
           /\ previous = NoRecord
           /\ op # "edit" => current.id # 0 /\ RunningOr(current)
    /\ pc \in {"set", "apply", "restore"} => op = "start" /\ previous.task = NoTask
    /\ pc = "set" => RunningOr(previous) /\ (task = NoTask => previous = NoRecord)
    /\ pc \in {"apply", "restore"} => task # NoTask /\ active.task \in {task, NoTask}

\* A record has an id, and a record with a task that is on disk as well is the same
\* there.
RecordInv ==
    /\ \A r \in {active, disk, current, previous} : r.id = 0 => r = NoRecord
    /\ active.task # NoTask /\ disk.id = active.id => disk = active \/ active.id \in misfiled

----------------------------------------------------------------------------
(* Sessions *)

Live    == {active, disk, current, previous}
Seen(t) == IF seen[t] = Gone THEN {} ELSE seen[t]

\* The sessions of a task, with those a stop or an edit is about to write.
StopWrites(t) == IF pc = "save" /\ op # "edit" /\ Subject = t THEN write ELSE {}
EditWrites(t) == IF op = "edit" /\ pc = "save" /\ Subject = t THEN write ELSE {}
Held(t)       == field[t] \cup Seen(t) \cup StopWrites(t)
All(t)        == Held(t) \cup EditWrites(t)

\* The periods that must be counted once.
Counted(id)  == id # 0 /\ ~EditedByUser(id) /\ id \notin misfiled
Unsaved(id)  == \A t \in Tasks : \A s \in All(t) : s.of = id => ~Counted(id)

Fresh ==
    /\ \A r \in Live : r.id < nextId
    /\ \A t \in Tasks : \A s \in All(t) : s.of < nextId

Once(S) == \A s, r \in S : s.of = r.of /\ Counted(s.of) => s = r
OnceEach ==
    /\ \A t \in Tasks : Once(field[t]) /\ Once(Seen(t))
    /\ pc = "save" => Once(write)

OneTask ==
    \A t, u \in Tasks : \A s \in All(t), r \in All(u) : s.of = r.of /\ Counted(s.of) => t = u

\* A session of a period that may be stopped again is that of its record.
Belongs ==
    \A r \in Live, t \in Tasks :
        /\ \A s \in Held(t) : s.of = r.id /\ Counted(s.of) => r.task = t /\ s.start = r.start
        /\ \A s \in All(t) : s.of = r.id /\ Counted(s.of) => r.task = t

\* A session of it that the index shows, or that an edit writes, is still in the file.
Kept ==
    \A r \in Live, t \in Tasks : \A s \in Seen(t) \cup EditWrites(t) :
        s.of = r.id /\ Counted(s.of) => \E w \in field[t] : w.of = s.of

\* The record on disk is that of the running timer, or its period has no session.
DiskFollows == disk.id \in {0, active.id} \/ Unsaved(disk.id)

SessionInv == Fresh /\ OnceEach /\ OneTask /\ Belongs /\ Kept /\ DiskFollows

----------------------------------------------------------------------------
(* What a stop takes for saved *)

\* A session that the index shows is in the file or was taken away from it.
SeenStays ==
    \A t \in Tasks : \A s \in Seen(t) :
        \/ \E w \in field[t] : w.start = s.start
        \/ \E e \in removed : e.task = t /\ e.session.start = s.start

\* So is one that this process remembers as saved; a period without a task is not.
FinalizedStays ==
    \A r \in {active, current} :
        r.id \in finalized /\ r.id # 0 => r.task # NoTask /\ Saved(r)
FinalizedOld ==
    /\ \A id \in finalized : id < nextId
    /\ previous.id # 0 => previous.id \notin finalized

StopKnows ==
    /\ pc = "save" /\ op # "edit" => \E s \in write : s.of = current.id
    /\ pc = "reindex" /\ op # "edit" => \E s \in field[current.task] : s.of = current.id
    /\ pc = "clear" /\ current.task # NoTask => Saved(current)

StopInv == SeenStays /\ FinalizedStays /\ FinalizedOld /\ StopKnows
=============================================================================
