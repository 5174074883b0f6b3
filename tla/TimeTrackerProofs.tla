--------------------------- MODULE TimeTrackerProofs ---------------------------
(***************************************************************************)
(* The safety of TimeTracker, for any tasks, any times and any number of   *)
(* transitions, faults and departures.                                     *)
(***************************************************************************)
EXTENDS TimeTrackerInvariant, SequenceTheorems, TLAPS

Base == TypeOK /\ QueueInv /\ PositionInv /\ RecordInv

----------------------------------------------------------------------------
(* The queue of the store *)

LEMMA AppendsFirst == ASSUME NEW m PROVE Append(<<>>, m) = <<m>>
  OBVIOUS

LEMMA AppendsSecond == ASSUME NEW m, NEW r PROVE Append(<<r>>, m) = <<r, m>>
<1> DEFINE s == Append(<<r>>, m)
           t == <<r, m>>
<1>1. /\ t \in Seq({m, r}) /\ <<r>> \in Seq({m, r}) /\ Len(<<r>>) = 1 /\ <<r>>[1] = r
      /\ Len(t) = 2 /\ t[1] = r /\ t[2] = m
  OBVIOUS
<1>2. s \in Seq({m, r}) /\ Len(s) = 2 /\ s[1] = r /\ s[2] = m
  BY <1>1, AppendProperties
<1>3. \A i \in 1 .. Len(s) : s[i] = t[i]
  <2>1. 1 .. 2 = {1, 2}
    OBVIOUS
  <2> QED
    BY <1>1, <1>2, <2>1
<1> HIDE DEF s, t
<1>4. s = t
  BY <1>1, <1>2, <1>3, SeqEqual
<1> QED
  BY <1>4 DEF s, t

LEMMA HeadsAndTails ==
    /\ \A m : Head(<<m>>) = m /\ Tail(<<m>>) = <<>>
    /\ \A m, r : Head(<<m, r>>) = m /\ Tail(<<m, r>>) = <<r>>
    /\ \A m, r : <<m>> # <<>> /\ <<m, r>> # <<>>
  OBVIOUS

LEMMA NoRecordTyped == NoRecord \in Records /\ NoRecord.id = 0 /\ NoRecord.task = NoTask
  BY TimeTrackerAssumption DEF NoRecord, Records, Times

\* A set takes its record from the transition.
LEMMA AwaitsWhat ==
    ASSUME TypeOK, RecordInv, Awaited, NEW m \in Awaits
    PROVE  /\ m.by = "transition" /\ m # Resume
           /\ pc \in {"clear", "discard"} => m = ClearTimer
           /\ pc = "set" => /\ m.kind = "set" /\ m.record \in Records
                            /\ m.record.id = 0 /\ m.record.task = task
           /\ pc = "restore" => IF previous = NoRecord THEN m = ClearTimer
                                ELSE m.kind = "set" /\ m.record = previous
<1>1. CASE pc \in {"clear", "discard"}
  BY <1>1 DEF Awaits, ClearTimer, Clearing, Resume
<1>2. CASE pc = "set"
  BY <1>2 DEF Awaits, Setting, Records, TypeOK, Resume, Clearing
<1>3. CASE pc = "restore"
  BY <1>3 DEF Awaits, ClearTimer, Clearing, Setting, Resume
<1> QED
  BY <1>1, <1>2, <1>3 DEF Awaited

LEMMA QueueHead ==
    ASSUME TypeOK, QueueInv, RecordInv, mutations # <<>>
    PROVE  \/ /\ Head(mutations) = Resume /\ Head(mutations).by = "resume"
              /\ IF Awaited THEN \E m \in Awaits : Tail(mutations) = <<m>>
                            ELSE Tail(mutations) = <<>>
           \/ /\ Awaited /\ Head(mutations) \in Awaits /\ Head(mutations).by = "transition"
              /\ Tail(mutations) \in {<<>>, <<Resume>>}
<1>1. Resume.by = "resume"
  BY DEF Resume, Clearing
<1>2. CASE Awaited
  <2>1. PICK m \in Awaits : mutations \in {<<m>>, <<m, Resume>>, <<Resume, m>>}
    BY <1>2 DEF QueueInv
  <2>2. m.by = "transition"
    BY <1>2, AwaitsWhat
  <2> QED
    BY <1>1, <1>2, <2>1, <2>2, HeadsAndTails
<1>3. CASE ~Awaited
  BY <1>1, <1>3, HeadsAndTails DEF QueueInv
<1> QED
  BY <1>2, <1>3

\* What the first mutation makes of the record.
LEMMA CommittedIs ==
    ASSUME TypeOK, QueueInv, RecordInv, mutations # <<>>
    PROVE  /\ Committed \in Records
           /\ Committed.id = 0 => Committed = NoRecord
           /\ Head(mutations).by = "resume" => Committed = NoRecord
           /\ Head(mutations).by # "resume" =>
                /\ Awaited
                /\ pc \in {"clear", "discard"} => Committed = NoRecord
                /\ pc = "set" => /\ Committed.task = task
                                 /\ Committed.id = IF Running THEN active.id ELSE nextId
                /\ pc = "restore" => Committed = previous
<1> DEFINE m == Head(mutations)
           id == IF m.record.id # 0 THEN m.record.id ELSE IF Running THEN active.id ELSE nextId
<1>1. NoRecord \in Records /\ active.id \in Nat /\ nextId \in Nat \ {0}
  BY NoRecordTyped DEF TypeOK, Records
<1>2. CASE m = Resume \/ m = ClearTimer
  <2>1. Committed = NoRecord
    BY <1>2 DEF Committed, Resume, ClearTimer, Clearing
  <2>2. m = Resume <=> m.by = "resume"
    BY <1>2 DEF Resume, ClearTimer, Clearing
  <2> QED
    <3>1. CASE m.by = "resume"
      BY <1>1, <2>1, <3>1
    <3>2. CASE m.by # "resume"
      <4>1. Awaited /\ m \in Awaits /\ m = ClearTimer /\ m.kind # "set"
        BY <1>2, <2>2, <3>2, QueueHead DEF ClearTimer, Clearing
      <4>2. pc # "set" /\ (pc = "restore" => previous = NoRecord)
        BY <4>1, AwaitsWhat
      <4> QED
        BY <1>1, <2>1, <3>2, <4>1, <4>2
    <3> QED
      BY <3>1, <3>2
<1>3. CASE m # Resume /\ m # ClearTimer
  <2>1. Awaited /\ m \in Awaits /\ m.by = "transition"
    BY <1>3, QueueHead
  <2>2. pc \in {"set", "restore"} /\ m.kind = "set" /\ m.record \in Records
    BY <1>3, <2>1, AwaitsWhat DEF Awaited, TypeOK
  <2>3. Committed = [m.record EXCEPT !.id = id]
    BY <2>2 DEF Committed
  <2>4. /\ Committed \in Records /\ Committed.id = id /\ Committed.task = m.record.task
        /\ Committed.id = m.record.id => Committed = m.record
    BY <1>1, <2>2, <2>3 DEF Records
  <2>5. id # 0
    BY <1>1 DEF Running
  <2>6. CASE pc = "set"
    BY <2>1, <2>4, <2>5, <2>6, AwaitsWhat
  <2>7. CASE pc = "restore"
    <3>1. m.record = previous /\ previous # NoRecord
      BY <1>3, <2>1, <2>7, AwaitsWhat
    <3>2. previous.id # 0
      BY <3>1 DEF RecordInv
    <3> QED
      BY <2>1, <2>4, <2>5, <2>7, <3>1, <3>2
  <2> QED
    BY <2>2, <2>6, <2>7
<1> QED
  BY <1>2, <1>3

LEMMA Enqueued ==
    ASSUME QueueInv, ~Awaited, NEW m
    PROVE  Append(mutations, m) \in {<<m>>, <<Resume, m>>}
  BY AppendsFirst, AppendsSecond DEF QueueInv

----------------------------------------------------------------------------
(* Types *)

LEMMA TypedInit == Init => TypeOK
  BY NoRecordTyped, TimeTrackerAssumption DEF Init, TypeOK, Times

LEMMA ReturnTyped ==
    ASSUME NEW result \in BOOLEAN, Return(result)
    PROVE  /\ op' \in {"none", "start", "stop", "external", "edit"}
           /\ pc' \in {"idle", "save", "reindex", "clear", "discard", "set", "apply", "restore"}
           /\ task' \in Tasks \cup {NoTask} /\ current' \in Records /\ previous' \in Records
           /\ write' \subseteq Sessions /\ answer' \in BOOLEAN
  BY NoRecordTyped DEF Return

LEMMA SpendTyped ==
    ASSUME TypeOK, NEW what \in {"transitions", "faults", "departures"}, Spend(what)
    PROVE  left' \in [{"transitions", "faults", "departures"} -> Nat]
  BY DEF TypeOK, Spend

LEMMA PresentTyped ==
    ASSUME TypeOK, NEW t, Present(t) PROVE t \in Tasks /\ seen[t] \in SUBSET Sessions
<1>1. t \in Tasks /\ seen[t] # Gone
  BY DEF Present
<1>2. seen \in [Tasks -> (SUBSET Sessions) \cup {Gone}]
  BY DEF TypeOK
<1> QED
  BY <1>1, <1>2

LEMMA StoppingTyped ==
    ASSUME TypeOK, BeginStopping
    PROVE  /\ current' = active /\ active \in Records
           /\ pc' \in {"save", "clear", "discard"}
           /\ pc' # "save" => /\ mutations' = Append(mutations, ClearTimer) /\ write' = write
           /\ pc' = "save" => /\ mutations' = mutations /\ active.task \in Tasks
                              /\ seen[active.task] \in SUBSET Sessions
                              /\ write' = seen[active.task] \cup {Session(active)}
                              /\ ~AlreadyPersisted(active)
           /\ write' \in SUBSET Sessions
<1>1. Session(active) \in Sessions
  BY DEF TypeOK, Session, Sessions, Records
<1>2. CASE Present(active.task) /\ ~AlreadyPersisted(active)
  <2>1. active.task \in Tasks /\ seen[active.task] \in SUBSET Sessions
    BY <1>2, PresentTyped
  <2> QED
    BY <1>1, <1>2, <2>1 DEF BeginStopping, Goto, TypeOK
<1>3. CASE ~(Present(active.task) /\ ~AlreadyPersisted(active))
  BY <1>3 DEF BeginStopping, Goto, TypeOK, ClearRecord, Enqueue, ClearTimer
<1> QED
  BY <1>2, <1>3

LEMMA TypedStep ==
    ASSUME Base, [Next]_vars PROVE TypeOK'
<1> USE DEF Base, TypeOK
<1>0. NoRecord \in Records
  BY NoRecordTyped
<1>1. ASSUME Stop PROVE TypeOK'
  <2>1. current' \in Records /\ pc' \in {"save", "clear", "discard"} /\ write' \in SUBSET Sessions
    BY <1>1, StoppingTyped DEF Stop
  <2>2. active.task \in Tasks \cup {NoTask}
    BY DEF Records
  <2> QED
    BY <1>1, <2>1, <2>2, SpendTyped DEF Stop, history
<1>2. ASSUME NEW t \in Tasks, StopExternally(t) PROVE TypeOK'
  <2>1. current' \in Records /\ pc' \in {"save", "clear", "discard"} /\ write' \in SUBSET Sessions
    BY <1>2, StoppingTyped DEF StopExternally
  <2> QED
    BY <1>2, <2>1, SpendTyped DEF StopExternally, history
<1>3. ASSUME NEW t \in Tasks, EditSession(t) PROVE TypeOK'
  <2>1. seen[t] \in SUBSET Sessions
    BY <1>3, PresentTyped DEF EditSession
  <2>2. write' \in SUBSET Sessions
    <3>1. MaxTime \in Times
      BY TimeTrackerAssumption DEF Times
    <3> QED
      BY <1>3, <2>1, <3>1 DEF EditSession, Sessions
  <2> QED
    BY <1>3, <2>2, SpendTyped DEF EditSession, history, store, Goto
<1>4. ASSUME SaveSessions PROVE TypeOK'
  <2>1. Subject \in Tasks
    BY <1>4 DEF SaveSessions, Present
  <2>2. removed' \subseteq Removals
    BY <1>4, <2>1 DEF SaveSessions, Removals
  <2> QED
    BY <1>4, <2>1, <2>2 DEF SaveSessions, store, Goto
<1>5. ASSUME SaveFails PROVE TypeOK'
  BY <1>5, ReturnTyped, SpendTyped DEF SaveFails, store, history
<1>6. ASSUME Reindex PROVE TypeOK'
  <2>1. seen' \in [Tasks -> (SUBSET Sessions) \cup {Gone}]
    BY <1>6 DEF Reindex, Scanned
  <2>2. left' \in [{"transitions", "faults", "departures"} -> Nat]
    BY <1>6, SpendTyped DEF Reindex
  <2>3. CASE op = "edit"
    BY <1>6, <2>1, <2>2, <2>3, ReturnTyped DEF Reindex, history
  <2>4. CASE op # "edit"
    <3>1. current.id \in Nat
      BY DEF Records
    <3> QED
      BY <1>6, <2>1, <2>2, <2>4, <3>1 DEF Reindex, history, Goto
  <2> QED
    BY <2>3, <2>4
<1>7. ASSUME ReindexFails PROVE TypeOK'
  BY <1>7, ReturnTyped, SpendTyped DEF ReindexFails, store, history
<1>8. ASSUME NEW t \in Tasks, Start(t) PROVE TypeOK'
  <2>1. CASE active.task # NoTask
    <3>1. current' \in Records /\ pc' \in {"save", "clear", "discard"} /\ write' \in SUBSET Sessions
      BY <1>8, <2>1, StoppingTyped DEF Start
    <3> QED
      BY <1>8, <2>1, <3>1, SpendTyped DEF Start, history
  <2>2. CASE active.task = NoTask
    BY <1>8, <2>2, SpendTyped DEF Start, SetRecord, Goto, history
  <2> QED
    BY <2>1, <2>2
<1>9. ASSUME StartUnassigned PROVE TypeOK'
  BY <1>0, <1>9, SpendTyped DEF StartUnassigned, SetRecord, Goto, history
<1>10. ASSUME Apply PROVE TypeOK'
  <2>1. seen' \in [Tasks -> (SUBSET Sessions) \cup {Gone}]
    BY <1>10 DEF Apply, Scanned
  <2> QED
    BY <1>10, <2>1, ReturnTyped DEF Apply, store, history
<1>11. ASSUME ApplyFails PROVE TypeOK'
  BY <1>11, SpendTyped DEF ApplyFails, Goto, history
<1>12. ASSUME Commit PROVE TypeOK'
  <2>1. Committed \in Records /\ nextId' \in Nat \ {0}
    BY <1>12, CommittedIs DEF Commit, GiveId
  <2>2. CASE Head(mutations).by = "resume"
    BY <1>12, <2>1, <2>2 DEF Commit, tx, history
  <2>3. CASE Head(mutations).by # "resume"
    <3>1. Continue
      BY <1>12, <2>3 DEF Commit
    <3>2. /\ op' \in {"none", "start", "stop", "external", "edit"}
          /\ pc' \in {"idle", "save", "reindex", "clear", "discard", "set", "apply", "restore"}
          /\ task' \in Tasks \cup {NoTask} /\ current' \in Records /\ previous' \in Records
          /\ write' \subseteq Sessions /\ answer' \in BOOLEAN /\ finalized' \subseteq Nat
      BY <1>0, <3>1, ReturnTyped DEF Continue, SetRecord, Goto
    <3> QED
      BY <1>12, <2>1, <3>2 DEF Commit, history
  <2> QED
    BY <2>2, <2>3
<1>13. ASSUME Reject PROVE TypeOK'
  <2>1. Committed \in Records /\ nextId' \in Nat \ {0}
    BY <1>13, CommittedIs DEF Reject, GiveId
  <2>2. misfiled' \subseteq Nat
    BY <1>13 DEF Reject, Records
  <2>3. left' \in [{"transitions", "faults", "departures"} -> Nat]
    BY <1>13, SpendTyped DEF Reject
  <2>4. CASE Head(mutations).by = "resume"
    BY <1>13, <2>1, <2>2, <2>3, <2>4 DEF Reject, tx
  <2>5. CASE Head(mutations).by # "resume"
    BY <1>13, <2>1, <2>2, <2>3, <2>5, ReturnTyped DEF Reject
  <2> QED
    BY <2>4, <2>5
<1>14. ASSUME ResumeFromIndex PROVE TypeOK'
  BY <1>14 DEF ResumeFromIndex, tx, history
<1>15. ASSUME NEW t \in Tasks, Leave(t) \/ Refresh(t) PROVE TypeOK'
  <2>1. seen' \in [Tasks -> (SUBSET Sessions) \cup {Gone}]
    BY <1>15 DEF Leave, Refresh
  <2>2. left' \in [{"transitions", "faults", "departures"} -> Nat]
    BY <1>15, SpendTyped DEF Leave, Refresh
  <2> QED
    BY <1>15, <2>1, <2>2 DEF Leave, Refresh, tx, store, history
<1>16. ASSUME Tick PROVE TypeOK'
  BY <1>16, TimeTrackerAssumption DEF Tick, tx, store, history, Times
<1>17. ASSUME Crash PROVE TypeOK'
  <2>1. seen' \in [Tasks -> (SUBSET Sessions) \cup {Gone}]
    BY <1>17 DEF Crash
  <2> QED
    BY <1>17, <2>1, ReturnTyped, SpendTyped DEF Crash, history
<1>18. ASSUME UNCHANGED vars PROVE TypeOK'
  BY <1>18 DEF vars, tx, store, history
<1> QED
  BY <1>1, <1>2, <1>3, <1>4, <1>5, <1>6, <1>7, <1>8, <1>9, <1>10, <1>11, <1>12, <1>13,
     <1>14, <1>15, <1>16, <1>17, <1>18 DEF Next, Step, Write

----------------------------------------------------------------------------
(* The transition, the queue and the records *)

LEMMA ReturnPositioned ==
    ASSUME NEW result, Return(result)
    PROVE  PositionInv' /\ ~Awaited' /\ current' = NoRecord /\ previous' = NoRecord
  BY DEF Return, PositionInv, Awaited, Idle, RunningOr

\* The queue does not change with what it depends on.
LEMMA QueueFrame ==
    ASSUME QueueInv, UNCHANGED <<mutations, pc, task, previous>> PROVE QueueInv'
<1>1. Awaits' = Awaits /\ (Awaited' <=> Awaited)
  BY DEF Awaits, Awaited, Setting, ClearTimer, Clearing
<1>2. Resume' = Resume
  BY DEF Resume, Clearing
<1> QED
  BY <1>1, <1>2 DEF QueueInv

LEMMA QueueAt ==
    ASSUME QueueInv, ~Awaited, NEW m, Awaited', m \in Awaits', mutations' = Append(mutations, m)
    PROVE  QueueInv'
  BY Enqueued DEF QueueInv, Resume, Clearing

LEMMA QueueAway ==
    ASSUME mutations' \in {<<>>, <<Resume>>}, ~Awaited' PROVE QueueInv'
  BY DEF QueueInv, Resume, Clearing

LEMMA RecordFrame ==
    ASSUME RecordInv, UNCHANGED <<active, disk>>, misfiled \subseteq misfiled',
           current' \in {active, disk, current, NoRecord},
           previous' \in {active, previous, NoRecord}
    PROVE  RecordInv'
  BY NoRecordTyped DEF RecordInv

LEMMA StoppingPositioned ==
    ASSUME Base, Idle, active.id # 0, BeginStopping, op' \in {"stop", "external", "start"},
           UNCHANGED <<active, disk, previous, misfiled>>
    PROVE  QueueInv' /\ PositionInv' /\ RecordInv'
<1> USE DEF Base
<1>1. pc = "idle" /\ ~Awaited /\ previous = NoRecord
  BY DEF PositionInv, Awaited
<1>2. QueueInv'
  <2>1. CASE pc' = "save"
    <3>1. mutations' = mutations /\ ~Awaited'
      BY <2>1, StoppingTyped DEF Awaited
    <3> QED
      BY <1>1, <3>1, QueueAway DEF QueueInv
  <2>2. CASE pc' # "save"
    <3>1. pc' \in {"clear", "discard"} /\ mutations' = Append(mutations, ClearTimer)
      BY <2>2, StoppingTyped
    <3>2. Awaited' /\ ClearTimer \in Awaits'
      BY <3>1 DEF Awaited, Awaits, ClearTimer, Clearing
    <3> QED
      BY <1>1, <3>1, <3>2, QueueAt
  <2> QED
    BY <2>1, <2>2
<1>3. PositionInv'
  <2>1. current' = active /\ pc' \in {"save", "clear", "discard"}
    BY StoppingTyped
  <2>2. pc' = "save" => active.task # NoTask
    BY StoppingTyped, TimeTrackerAssumption
  <2> QED
    BY <1>1, <2>1, <2>2 DEF PositionInv, Idle, RunningOr
<1>4. RecordInv'
  BY StoppingTyped, RecordFrame
<1> QED
  BY <1>2, <1>3, <1>4

LEMMA SettingPositioned ==
    ASSUME TypeOK, NEW t, NEW r \in Records, NEW q \in {<<>>, <<Resume>>},
           SetRecord(t, r, q), task' = t, op' = "start",
           r.task = NoTask, t = NoTask => r = NoRecord, active' \in {r, NoRecord}
    PROVE  QueueInv' /\ PositionInv'
<1> DEFINE start == IF r = NoRecord THEN now ELSE r.start
           m == Setting([id |-> 0, task |-> t, start |-> start])
<1>1. start \in Times
  BY DEF TypeOK, Records
<1>2. pc' = "set" /\ previous' = r /\ mutations' = Append(q, m)
  BY DEF SetRecord, Goto
<1>3. m \in Awaits' /\ Awaited'
  BY <1>1, <1>2 DEF Awaits, Awaited, Setting
<1>4. mutations' \in {<<m>>, <<Resume, m>>}
  BY <1>2, AppendsFirst, AppendsSecond
<1> HIDE DEF m
<1>5. QueueInv'
  BY <1>3, <1>4 DEF QueueInv, Resume, Clearing
<1>6. PositionInv'
  BY <1>2, NoRecordTyped DEF PositionInv, Idle, RunningOr
<1> QED
  BY <1>5, <1>6

\* A commit of the store, for a transition or for the index.
LEMMA CommitRecords ==
    ASSUME Base, Commit
    PROVE  /\ active' = Committed
           /\ disk' = active' \/ UNCHANGED <<active, disk>>
           /\ UNCHANGED misfiled
           /\ Committed = NoRecord => active' = NoRecord
  BY DEF Commit, history

LEMMA CommitPositioned ==
    ASSUME Base, Commit PROVE QueueInv' /\ PositionInv' /\ RecordInv'
<1> USE DEF Base
<1>0. mutations # <<>> /\ active' = Committed
  BY DEF Commit
<1>1. CASE Head(mutations).by = "resume"
  <2>1. Committed = NoRecord /\ mutations' = Tail(mutations) /\ UNCHANGED tx
    BY <1>0, <1>1, CommittedIs DEF Commit
  <2>2. QueueInv'
    <3>1. IF Awaited THEN \E m \in Awaits : Tail(mutations) = <<m>> ELSE Tail(mutations) = <<>>
      BY <1>0, <1>1, QueueHead
    <3>2. Awaits' = Awaits /\ (Awaited' <=> Awaited)
      BY <2>1 DEF Awaits, Awaited, Setting, ClearTimer, Clearing, tx
    <3> QED
      BY <2>1, <3>1, <3>2 DEF QueueInv
  <2>3. PositionInv'
    <3>1. active' = NoRecord
      BY <1>0, <2>1
    <3> QED
      BY <2>1, <3>1, NoRecordTyped DEF PositionInv, RunningOr, tx, Idle
  <2>4. RecordInv'
    BY <1>0, <2>1, CommitRecords, NoRecordTyped DEF RecordInv, tx
  <2> QED
    BY <2>2, <2>3, <2>4
<1>2. CASE Head(mutations).by # "resume"
  <2>1. /\ Continue /\ Awaited
        /\ Tail(mutations) \in {<<>>, <<Resume>>}
    <3>1. Resume.by = "resume"
      BY DEF Resume, Clearing
    <3> QED
      BY <1>0, <1>2, <3>1, QueueHead DEF Commit
  <2>2. Committed.id = 0 => Committed = NoRecord
    BY <1>0, CommittedIs
  <2>3. ASSUME current' \in {current, NoRecord}, previous' \in {previous, NoRecord}
        PROVE  RecordInv'
    BY <1>0, <2>2, <2>3, CommitRecords, NoRecordTyped DEF RecordInv
  <2>4. CASE pc = "clear" /\ op = "start"
    <3>1. SetRecord(task, NoRecord, Tail(mutations)) /\ UNCHANGED <<op, task, current>>
      BY <2>1, <2>4 DEF Continue
    <3>2. active' = NoRecord
      BY <1>0, <1>2, <2>4, CommittedIs
    <3>3. previous' = NoRecord
      BY <3>1 DEF SetRecord
    <3> QED
      BY <2>1, <2>3, <2>4, <3>1, <3>2, <3>3, SettingPositioned, NoRecordTyped
  <2>5. CASE pc = "set" /\ task # NoTask
    <3>1. /\ pc' = "apply" /\ mutations' = Tail(mutations)
          /\ UNCHANGED <<op, task, current, previous>>
      BY <2>1, <2>5 DEF Continue, Goto
    <3>2. active'.task = task
      BY <1>0, <1>2, <2>5, CommittedIs
    <3>3. QueueInv'
      BY <2>1, <3>1, QueueAway DEF Awaited
    <3>4. PositionInv'
      BY <2>5, <3>1, <3>2 DEF PositionInv, Idle, RunningOr
    <3> QED
      BY <2>3, <3>1, <3>3, <3>4
  <2>6. CASE ~(pc = "clear" /\ op = "start") /\ ~(pc = "set" /\ task # NoTask)
    <3>1. mutations' = Tail(mutations) /\ \E result \in BOOLEAN : Return(result)
      BY <2>1, <2>6 DEF Continue
    <3>2. PositionInv' /\ ~Awaited' /\ current' = NoRecord /\ previous' = NoRecord
      BY <3>1, ReturnPositioned
    <3> QED
      BY <2>1, <2>3, <3>1, <3>2, QueueAway
  <2> QED
    BY <2>4, <2>5, <2>6
<1> QED
  BY <1>1, <1>2

\* A record that a failed flush leaves on disk is not that of the running timer,
\* unless a restore wrote it without its task.
LEMMA RejectPositioned ==
    ASSUME Base, Reject PROVE QueueInv' /\ PositionInv' /\ RecordInv'
<1> USE DEF Base
<1>0. /\ mutations # <<>> /\ Committed # active /\ UNCHANGED active
      /\ disk' \in {disk, Committed} /\ mutations' = Tail(mutations)
      /\ misfiled \subseteq misfiled'
  BY DEF Reject
<1>1. Committed.id = 0 => Committed = NoRecord
  BY <1>0, CommittedIs
<1>2. ASSUME active.task # NoTask, disk'.id = active.id
      PROVE  disk' = active \/ active.id \in misfiled'
  <2>1. CASE disk' = disk
    BY <1>0, <1>2, <2>1 DEF RecordInv
  <2>2. CASE disk' # disk
    <3>1. disk' = Committed /\ Committed.id = active.id
      BY <1>0, <1>2, <2>2
    <3>2. Committed # NoRecord
      BY <1>0, <1>1, <1>2, <3>1, NoRecordTyped DEF RecordInv
    <3>3. Head(mutations).by # "resume" /\ pc \in {"set", "restore"}
      BY <1>0, <3>2, CommittedIs DEF Awaited
    <3>4. pc # "set"
      BY <1>2, NoRecordTyped DEF PositionInv, RunningOr
    <3>5. pc = "restore" /\ Committed = previous
      BY <1>0, <3>3, <3>4, CommittedIs
    <3>6. Head(mutations).kind = "set"
      <4>1. Awaited /\ Head(mutations) \in Awaits
        <5>1. Resume.by = "resume"
          BY DEF Resume, Clearing
        <5> QED
          BY <1>0, <3>3, <5>1, QueueHead
      <4> QED
        BY <3>2, <3>5, <4>1, AwaitsWhat
    <3> QED
      BY <2>2, <3>1, <3>5, <3>6 DEF Reject
  <2> QED
    BY <2>1, <2>2
<1>3. ASSUME current' \in {current, NoRecord}, previous' \in {previous, NoRecord}
      PROVE  RecordInv'
  <2>1. \A r \in {active', disk', current', previous'} : r.id = 0 => r = NoRecord
    BY <1>0, <1>1, <1>3, NoRecordTyped DEF RecordInv
  <2>2. NoRecord' = NoRecord
    BY DEF NoRecord
  <2> QED
    BY <1>0, <1>2, <2>1, <2>2 DEF RecordInv
<1>4. CASE Head(mutations).by = "resume"
  <2>1. UNCHANGED tx
    BY <1>4 DEF Reject
  <2>2. IF Awaited THEN \E m \in Awaits : Tail(mutations) = <<m>> ELSE Tail(mutations) = <<>>
    BY <1>0, <1>4, QueueHead
  <2>3. Awaits' = Awaits /\ (Awaited' <=> Awaited)
    BY <2>1 DEF Awaits, Awaited, Setting, ClearTimer, Clearing, tx
  <2>4. QueueInv'
    BY <1>0, <2>2, <2>3 DEF QueueInv
  <2>5. PositionInv'
    BY <1>0, <2>1 DEF PositionInv, RunningOr, tx, Idle
  <2> QED
    BY <1>3, <2>1, <2>4, <2>5 DEF tx
<1>5. CASE Head(mutations).by # "resume"
  <2>1. Return(FALSE)
    BY <1>5 DEF Reject
  <2>2. PositionInv' /\ ~Awaited' /\ current' = NoRecord /\ previous' = NoRecord
    BY <2>1, ReturnPositioned
  <2>3. Tail(mutations) \in {<<>>, <<Resume>>}
    <3>1. Resume.by = "resume"
      BY DEF Resume, Clearing
    <3> QED
      BY <1>0, <1>5, <3>1, QueueHead
  <2> QED
    BY <1>0, <1>3, <2>2, <2>3, QueueAway
<1> QED
  BY <1>4, <1>5

\* One clear by the index waits at a time.
LEMMA ResumePositioned ==
    ASSUME Base, ResumeFromIndex PROVE QueueInv' /\ PositionInv' /\ RecordInv'
<1> USE DEF Base
<1>1. /\ mutations' = Append(mutations, Resume)
      /\ \A i \in DOMAIN mutations : mutations[i].by # "resume"
      /\ UNCHANGED <<active, disk, tx, misfiled>>
  BY DEF ResumeFromIndex, Enqueue, Resume, history
<1>2. Resume.by = "resume"
  BY DEF Resume, Clearing
<1>3. \A m : mutations # <<m, Resume>> /\ mutations # <<Resume, m>> /\ mutations # <<Resume>>
  BY <1>1, <1>2
<1>4. IF Awaited THEN \E m \in Awaits : mutations' \in {<<m>>, <<m, Resume>>, <<Resume, m>>}
                 ELSE mutations' \in {<<>>, <<Resume>>}
  BY <1>1, <1>3, AppendsFirst, AppendsSecond DEF QueueInv
<1>5. Awaits' = Awaits /\ (Awaited' <=> Awaited)
  BY <1>1 DEF Awaits, Awaited, Setting, ClearTimer, Clearing, tx
<1>6. QueueInv'
  BY <1>4, <1>5 DEF QueueInv, Resume, Clearing
<1>7. PositionInv'
  BY <1>1 DEF PositionInv, RunningOr, tx, Idle
<1>8. RecordInv'
  BY <1>1 DEF RecordInv, tx
<1> QED
  BY <1>6, <1>7, <1>8

LEMMA BaseInit == Init => Base
<1> SUFFICES ASSUME Init PROVE Base
  OBVIOUS
<1>1. TypeOK
  BY TypedInit
<1>2. QueueInv
  BY DEF Init, QueueInv, Awaited
<1>3. PositionInv /\ RecordInv
  BY NoRecordTyped DEF Init, PositionInv, RecordInv, Idle, RunningOr
<1> QED
  BY <1>1, <1>2, <1>3 DEF Base

\* A transition that ends leaves nothing to await behind.
LEMMA Returns ==
    ASSUME Base, NEW result, Return(result), ~Awaited,
           UNCHANGED <<active, disk, mutations, misfiled>>
    PROVE  QueueInv' /\ PositionInv' /\ RecordInv'
<1>1. PositionInv' /\ ~Awaited' /\ current' = NoRecord /\ previous' = NoRecord
  BY ReturnPositioned
<1>2. QueueInv'
  BY <1>1, QueueAway DEF Base, QueueInv
<1>3. RecordInv'
  BY <1>1, RecordFrame DEF Base
<1> QED
  BY <1>1, <1>2, <1>3

LEMMA BaseStep == ASSUME Base, [Next]_vars PROVE Base'
<1> USE DEF Base
<1>0. TypeOK'
  BY TypedStep
<1> DEFINE Goal == QueueInv' /\ PositionInv' /\ RecordInv'
<1>1. ASSUME Stop PROVE Goal
  BY <1>1, StoppingPositioned DEF Stop, Running, history
<1>2. ASSUME NEW t \in Tasks, StopExternally(t) PROVE Goal
  <2>1. active.id # 0
    BY <1>2, NoRecordTyped, TimeTrackerAssumption DEF StopExternally, RecordInv
  <2> QED
    BY <1>2, <2>1, StoppingPositioned DEF StopExternally, history
<1>3. ASSUME NEW t \in Tasks, EditSession(t) PROVE Goal
  <2>1. /\ Idle /\ op' = "edit" /\ pc' = "save" /\ task' = t
        /\ UNCHANGED <<mutations, active, disk, current, previous, misfiled>>
    BY <1>3 DEF EditSession, Goto, store, history
  <2>2. pc = "idle" /\ current = NoRecord /\ previous = NoRecord
    BY <2>1 DEF PositionInv
  <2>3. QueueInv'
    BY <2>1, <2>2, QueueAway DEF QueueInv, Awaited
  <2>4. PositionInv'
    BY <2>1, <2>2 DEF PositionInv, Idle
  <2>5. RecordInv'
    BY <2>1, RecordFrame
  <2> QED
    BY <2>3, <2>4, <2>5
<1>4. ASSUME SaveSessions PROVE Goal
  <2>1. /\ pc = "save" /\ pc' = "reindex"
        /\ UNCHANGED <<mutations, active, disk, op, task, current, previous, misfiled>>
    BY <1>4 DEF SaveSessions, Goto, store
  <2>2. QueueInv'
    BY <2>1, QueueAway DEF QueueInv, Awaited
  <2>3. PositionInv'
    BY <2>1 DEF PositionInv, Idle, RunningOr
  <2>4. RecordInv'
    BY <2>1, RecordFrame
  <2> QED
    BY <2>2, <2>3, <2>4
<1>5. ASSUME SaveFails PROVE Goal
  BY <1>5, Returns DEF SaveFails, store, history, Awaited
<1>6. ASSUME Reindex PROVE Goal
  <2>1. pc = "reindex" /\ ~Awaited /\ UNCHANGED <<active, disk, misfiled>>
    BY <1>6 DEF Reindex, Awaited, history
  <2>2. CASE op = "edit"
    BY <1>6, <2>1, <2>2, Returns DEF Reindex
  <2>3. CASE op # "edit"
    <3>1. /\ pc' = "clear" /\ mutations' = Append(mutations, ClearTimer)
          /\ UNCHANGED <<op, task, current, previous>>
      BY <1>6, <2>3 DEF Reindex, Goto, ClearRecord, Enqueue, ClearTimer
    <3>2. ClearTimer \in Awaits' /\ Awaited'
      BY <3>1 DEF Awaits, Awaited, ClearTimer, Clearing
    <3>3. QueueInv'
      BY <2>1, <3>1, <3>2, QueueAt
    <3>4. PositionInv'
      BY <2>1, <2>3, <3>1 DEF PositionInv, Idle, RunningOr
    <3>5. RecordInv'
      BY <2>1, <3>1, RecordFrame
    <3> QED
      BY <3>3, <3>4, <3>5
  <2> QED
    BY <2>2, <2>3
<1>7. ASSUME ReindexFails PROVE Goal
  BY <1>7, Returns DEF ReindexFails, store, history, Awaited
<1>8. ASSUME NEW t \in Tasks, Start(t) PROVE Goal
  <2>1. CASE active.task # NoTask
    <3>1. active.id # 0
      BY <2>1, NoRecordTyped DEF RecordInv
    <3> QED
      BY <1>8, <2>1, <3>1, StoppingPositioned DEF Start, history
  <2>2. CASE active.task = NoTask
    <3>1. /\ SetRecord(t, active, mutations) /\ op' = "start" /\ task' = t /\ Idle
          /\ UNCHANGED <<active, disk, current, misfiled>> /\ previous' = active
      BY <1>8, <2>2 DEF Start, history, SetRecord
    <3>2. mutations \in {<<>>, <<Resume>>}
      BY <3>1 DEF PositionInv, QueueInv, Awaited
    <3>3. QueueInv' /\ PositionInv'
      BY <2>2, <3>1, <3>2, SettingPositioned, TimeTrackerAssumption DEF TypeOK
    <3>4. RecordInv'
      BY <3>1, RecordFrame
    <3> QED
      BY <3>3, <3>4
  <2> QED
    BY <2>1, <2>2
<1>9. ASSUME StartUnassigned PROVE Goal
  <2>1. /\ SetRecord(NoTask, NoRecord, mutations) /\ op' = "start" /\ task' = NoTask /\ Idle
        /\ UNCHANGED <<active, disk, current, misfiled>> /\ previous' = NoRecord
    BY <1>9 DEF StartUnassigned, history, SetRecord
  <2>2. mutations \in {<<>>, <<Resume>>}
    BY <2>1 DEF PositionInv, QueueInv, Awaited
  <2>3. active' = NoRecord
    BY <1>9, <2>1 DEF StartUnassigned, Running, RecordInv
  <2>4. QueueInv' /\ PositionInv'
    BY <2>1, <2>2, <2>3, SettingPositioned, NoRecordTyped
  <2>5. RecordInv'
    BY <2>1, RecordFrame
  <2> QED
    BY <2>4, <2>5
<1>10. ASSUME Apply PROVE Goal
  BY <1>10, Returns DEF Apply, store, history, Awaited
<1>11. ASSUME ApplyFails PROVE Goal
  <2> DEFINE m == IF previous = NoRecord THEN Clearing("transition") ELSE Setting(previous)
  <2>1. /\ pc = "apply" /\ pc' = "restore" /\ mutations' = Append(mutations, m)
        /\ UNCHANGED <<active, disk, op, task, current, previous, misfiled>>
    BY <1>11 DEF ApplyFails, Goto, Enqueue, history
  <2>2. m \in Awaits' /\ Awaited'
    BY <2>1 DEF Awaits, Awaited, ClearTimer, Clearing, Setting, NoRecord
  <2> HIDE DEF m
  <2>3. QueueInv'
    BY <2>1, <2>2, QueueAt DEF Awaited
  <2>4. PositionInv'
    BY <2>1 DEF PositionInv, Idle, RunningOr
  <2>5. RecordInv'
    BY <2>1, RecordFrame
  <2> QED
    BY <2>3, <2>4, <2>5
<1>12. ASSUME Commit PROVE Goal
  BY <1>12, CommitPositioned
<1>13. ASSUME Reject PROVE Goal
  BY <1>13, RejectPositioned
<1>14. ASSUME ResumeFromIndex PROVE Goal
  BY <1>14, ResumePositioned
<1>15. ASSUME UNCHANGED <<store, tx, history>> PROVE Goal
  <2>1. QueueInv'
    BY <1>15, QueueFrame DEF store, tx
  <2>2. PositionInv'
    BY <1>15 DEF PositionInv, store, tx, Idle, RunningOr
  <2>3. RecordInv'
    BY <1>15 DEF RecordInv, store, tx, history
  <2> QED
    BY <2>1, <2>2, <2>3
<1>16. ASSUME Crash PROVE Goal
  <2>1. /\ mutations' = <<>> /\ active' = disk /\ UNCHANGED <<disk, misfiled>>
        /\ Return(TRUE)
    BY <1>16 DEF Crash, history
  <2>2. PositionInv' /\ ~Awaited' /\ current' = NoRecord /\ previous' = NoRecord
    BY <2>1, ReturnPositioned
  <2>3. QueueInv'
    BY <2>1, <2>2, QueueAway
  <2>4. RecordInv'
    BY <2>1, <2>2, NoRecordTyped DEF RecordInv
  <2> QED
    BY <2>2, <2>3, <2>4
<1>17. ASSUME Next PROVE Goal
  <2>1. ASSUME NEW t \in Tasks, Leave(t) \/ Refresh(t) PROVE Goal
    BY <1>15, <2>1 DEF Leave, Refresh
  <2>2. ASSUME Tick PROVE Goal
    BY <1>15, <2>2 DEF Tick
  <2> HIDE DEF Goal
  <2> QED
    BY <1>1, <1>2, <1>3, <1>4, <1>5, <1>6, <1>7, <1>8, <1>9, <1>10, <1>11, <1>12, <1>13,
       <1>14, <1>16, <1>17, <2>1, <2>2 DEF Next, Step, Write
<1>18. ASSUME UNCHANGED vars PROVE Goal
  BY <1>15, <1>18 DEF vars
<1>19. Goal
  BY <1>17, <1>18
<1> QED
  BY <1>0, <1>19

----------------------------------------------------------------------------
(* Sessions *)

LEMMA NoTimer == NoRecord.id = 0 /\ NoRecord.id \in Nat /\ Unsaved(0) /\ ~Counted(0)
  BY NoRecordTyped DEF Unsaved, Counted, Records

\* A period without a task has no session that counts.
LEMMA Taskless ==
    ASSUME SessionInv, NEW r \in Live, r.task = NoTask PROVE Unsaved(r.id)
  BY TimeTrackerAssumption DEF SessionInv, Belongs, Unsaved

LEMMA Counting ==
    ASSUME removed \subseteq removed', misfiled \subseteq misfiled', NEW id, Counted(id)'
    PROVE  Counted(id)
  BY DEF Counted, EditedByUser

\* What holds of the sessions stays so when there are fewer of them.
LEMMA Shrinks ==
    ASSUME SessionInv, NEW id, Unsaved(id),
           \A t \in Tasks : All(t)' \subseteq All(t),
           removed \subseteq removed', misfiled \subseteq misfiled'
    PROVE  Unsaved(id)'
<1> SUFFICES ASSUME NEW t \in Tasks, NEW s \in All(t)', s.of = id, Counted(id)'
             PROVE  FALSE
  BY DEF Unsaved
<1>1. s \in All(t) /\ Counted(id)
  BY Counting
<1> QED
  BY <1>1 DEF Unsaved

LEMMA FewerSessions ==
    ASSUME SessionInv, nextId \in Nat, nextId' \in Nat, nextId \leq nextId',
           \A r \in Live' : r.id \in Nat,
           \A t \in Tasks : \A s \in All(t) : s.of \in Nat,
           \A t \in Tasks : All(t)' \subseteq All(t) /\ Held(t)' \subseteq Held(t),
           removed \subseteq removed', misfiled \subseteq misfiled',
           \A r \in Live' : r \in Live \/ (r.id < nextId' /\ Unsaved(r.id))
    PROVE  Fresh' /\ OneTask' /\ Belongs'
<1>1. Fresh'
  <2>1. ASSUME NEW r \in Live' PROVE r.id < nextId'
    <3>1. CASE r \in Live
      <4>1. r.id < nextId
        BY <3>1 DEF SessionInv, Fresh
      <4> QED
        BY <4>1
    <3> QED
      BY <3>1
  <2>2. ASSUME NEW t \in Tasks, NEW s \in All(t)' PROVE s.of < nextId'
    <3>1. s \in All(t)
      OBVIOUS
    <3>2. s.of < nextId /\ s.of \in Nat
      BY <3>1 DEF SessionInv, Fresh
    <3> QED
      BY <3>2
  <2> QED
    BY <2>1, <2>2 DEF Fresh
<1>2. OneTask'
  <2>1. ASSUME NEW t \in Tasks, NEW u \in Tasks, NEW s \in All(t)', NEW r \in All(u)',
               s.of = r.of, Counted(s.of)'
        PROVE  t = u
    <3>1. Counted(s.of) /\ s \in All(t) /\ r \in All(u)
      BY <2>1, Counting
    <3> QED
      BY <2>1, <3>1 DEF SessionInv, OneTask
  <2> QED
    BY <2>1 DEF OneTask
<1>3. Belongs'
  <2>1. ASSUME NEW r \in Live', NEW t \in Tasks, NEW s \in All(t)', s.of = r.id, Counted(s.of)'
        PROVE  r.task = t /\ (s \in Held(t)' => s.start = r.start)
    <3>1. Counted(s.of) /\ s \in All(t) /\ (s \in Held(t)' => s \in Held(t))
      BY <2>1, Counting
    <3>2. CASE r \in Live
      BY <2>1, <3>1, <3>2 DEF SessionInv, Belongs
    <3>3. CASE r \notin Live
      <4>1. Unsaved(r.id)
        BY <3>3
      <4> QED
        BY <2>1, <3>1, <4>1 DEF Unsaved
    <3> QED
      BY <3>2, <3>3
  <2>2. \A t \in Tasks : Held(t)' \subseteq All(t)'
    BY DEF All
  <2>3. \A r \in Live', t \in Tasks : \A s \in All(t)' :
            s.of = r.id /\ Counted(s.of)' => r.task = t /\ (s \in Held(t)' => s.start = r.start)
    BY <2>1
  <2> QED
    BY <2>2, <2>3 DEF Belongs
<1> QED
  BY <1>1, <1>2, <1>3

\* A step that writes no file, begins no writing and makes no record of a period
\* that has a session.
LEMMA SessionFrame ==
    ASSUME SessionInv, TypeOK, TypeOK', UNCHANGED field, nextId \leq nextId',
           \A t \in Tasks : Seen(t)' \in {Seen(t), field[t], {}},
           pc' = "save" => pc = "save" /\ UNCHANGED <<op, Subject, write>>,
           removed \subseteq removed', misfiled \subseteq misfiled',
           \A r \in Live' : r \in Live \/ (r.id < nextId' /\ Unsaved(r.id)),
           disk'.id \in {0, active'.id} \/ UNCHANGED <<active, disk>> \/ Unsaved(disk'.id)
    PROVE  SessionInv'
<1>1. ASSUME NEW t \in Tasks
      PROVE  /\ StopWrites(t)' \subseteq StopWrites(t) /\ EditWrites(t)' \subseteq EditWrites(t)
             /\ field[t]' = field[t]
  BY DEF StopWrites, EditWrites
<1>2. \A t \in Tasks : All(t)' \subseteq All(t) /\ Held(t)' \subseteq Held(t)
  BY <1>1 DEF All, Held
<1>3. \A t \in Tasks : \A s \in All(t) : s.of \in Nat
  <2>1. ASSUME NEW t \in Tasks PROVE All(t) \subseteq Sessions
    <3>1. field[t] \subseteq Sessions /\ StopWrites(t) \subseteq Sessions /\ EditWrites(t) \subseteq Sessions
      BY DEF TypeOK, StopWrites, EditWrites
    <3>2. Seen(t) \subseteq Sessions
      BY DEF TypeOK, Seen
    <3> QED
      BY <3>1, <3>2 DEF All, Held
  <2> QED
    BY <2>1 DEF Sessions
<1>4. nextId \in Nat /\ nextId' \in Nat /\ \A r \in Live' : r.id \in Nat
  BY DEF TypeOK, Live, Records
<1>5. Fresh' /\ OneTask' /\ Belongs'
  BY <1>2, <1>3, <1>4, FewerSessions
<1>6. OnceEach'
  <2>1. ASSUME NEW t \in Tasks PROVE Once(field[t])' /\ Once(Seen(t))'
    <3>1. Once(field[t]) /\ Once(Seen(t)) /\ Once({})
      BY DEF SessionInv, OnceEach, Once
    <3>2. \A S : Once(S) => \A s, r \in S : s.of = r.of /\ Counted(s.of)' => s = r
      BY Counting DEF Once
    <3> QED
      BY <3>1, <3>2 DEF Once
  <2>2. ASSUME pc' = "save" PROVE Once(write)'
    <3>1. Once(write) /\ write' = write
      BY <2>2 DEF SessionInv, OnceEach
    <3> QED
      BY <3>1, Counting DEF Once
  <2> QED
    BY <2>1, <2>2 DEF OnceEach
<1>7. Kept'
  <2>1. ASSUME NEW r \in Live', NEW t \in Tasks, NEW s \in Seen(t)' \cup EditWrites(t)',
               s.of = r.id, Counted(s.of)'
        PROVE  \E w \in field[t] : w.of = s.of
    <3>1. Counted(s.of)
      BY <2>1, Counting
    <3>2. CASE s \in field[t]
      BY <3>2
    <3>3. CASE s \notin field[t]
      <4>1. s \in Seen(t) \cup EditWrites(t) /\ s \in All(t)
        BY <1>1, <3>3 DEF All, Held
      <4>2. r \in Live
        BY <2>1, <3>1, <4>1 DEF Unsaved
      <4> QED
        BY <2>1, <3>1, <4>1, <4>2 DEF SessionInv, Kept
    <3> QED
      BY <3>2, <3>3
  <2> QED
    BY <2>1 DEF Kept
<1>8. DiskFollows'
  <2>1. disk'.id \in {0, active'.id} \/ Unsaved(disk'.id)
    BY DEF SessionInv, DiskFollows
  <2>2. ASSUME NEW id, Unsaved(id) PROVE Unsaved(id)'
    BY <1>2, <2>2, Shrinks
  <2> QED
    BY <2>1, <2>2 DEF DiskFollows
<1> QED
  BY <1>5, <1>6, <1>7, <1>8 DEF SessionInv

\* Where no transition writes, the sessions are those of the files and the index.
LEMMA NothingToWrite ==
    ASSUME pc # "save"
    PROVE  \A t : StopWrites(t) = {} /\ EditWrites(t) = {} /\ All(t) = field[t] \cup Seen(t)
                  /\ Held(t) = field[t] \cup Seen(t)
  BY DEF StopWrites, EditWrites, All, Held

\* A stop that saves the session of the running timer: the index shows none of its
\* period, for it would begin when the record does.
LEMMA StoppingSessions ==
    ASSUME Base, Base', SessionInv, Idle, active.id # 0, BeginStopping, pc' = "save",
           op' \in {"stop", "external", "start"},
           UNCHANGED <<field, seen, active, disk, nextId, previous, removed, misfiled>>
    PROVE  SessionInv'
<1> USE DEF Base
<1> DEFINE T == active.task
           S == Session(active)
<1>1. /\ current' = active /\ T \in Tasks /\ seen[T] \in SUBSET Sessions
      /\ write' = seen[T] \cup {S} /\ ~AlreadyPersisted(active) /\ active \in Records
  BY StoppingTyped
<1>2. S.of = active.id /\ S.start = active.start
  BY DEF Session
<1>3. pc = "idle" /\ previous = NoRecord /\ current = NoRecord
  BY DEF PositionInv
<1>4. Seen(T) \subseteq seen[T] /\ (Present(T) => Seen(T) = seen[T])
  BY DEF Seen, Present
<1>5. Present(T) /\ Seen(T) = seen[T]
  <2>1. Present(T)
    BY NoRecordTyped DEF BeginStopping, Goto
  <2> QED
    BY <2>1, <1>4
<1>6. ASSUME NEW t \in Tasks
      PROVE  /\ field[t]' = field[t] /\ Seen(t)' = Seen(t) /\ EditWrites(t)' = {}
             /\ Held(t) = field[t] \cup Seen(t) /\ All(t) = Held(t)
             /\ All(t)' = Held(t)' /\ Held(t) \subseteq Held(t)'
             /\ \A s \in Held(t)' : s \in Held(t) \/ (s = S /\ t = T)
  <2>1. All(t) = field[t] \cup Seen(t) /\ Held(t) = field[t] \cup Seen(t)
    BY <1>3, NothingToWrite
  <2>2. field[t]' = field[t] /\ Seen(t)' = Seen(t) /\ EditWrites(t)' = {}
    BY DEF Seen, EditWrites
  <2>3. StopWrites(t)' \subseteq IF t = T THEN Seen(T) \cup {S} ELSE {}
    <3>1. Subject' = T
      BY <1>1 DEF Subject
    <3> QED
      BY <1>1, <1>5, <3>1 DEF StopWrites
  <2> QED
    BY <2>1, <2>2, <2>3 DEF All, Held
<1> HIDE DEF S, T
<1>7. \A id : Counted(id)' <=> Counted(id)
  BY DEF Counted, EditedByUser
<1>8. Live' \subseteq Live /\ active \in Live
  BY <1>1 DEF Live
<1>9. ASSUME NEW s \in Seen(T), s.of = S.of, Counted(s.of) PROVE FALSE
  <2>1. s \in Held(T)
    BY <1>1, <1>6
  <2>2. s.start = active.start
    BY <1>1, <1>2, <1>8, <1>9, <2>1 DEF SessionInv, Belongs
  <2>3. s \in seen[T] /\ T = active.task
    BY <1>5 DEF T
  <2> QED
    BY <1>1, <2>2, <2>3 DEF AlreadyPersisted
<1>10. Fresh'
  <2>1. \A r \in Live' : r.id < nextId'
    BY <1>8 DEF SessionInv, Fresh
  <2>2. S.of < nextId'
    BY <1>2, <1>8 DEF SessionInv, Fresh
  <2> QED
    BY <1>6, <2>1, <2>2 DEF SessionInv, Fresh
<1>11. OnceEach'
  <2>1. Once(write)'
    <3>1. Once(Seen(T))
      BY <1>1 DEF SessionInv, OnceEach
    <3>2. write' = Seen(T) \cup {S}
      BY <1>1, <1>5
    <3>3. ASSUME NEW s \in write', NEW r \in write', s.of = r.of, Counted(s.of)'
          PROVE  s = r
      <4>1. Counted(s.of) /\ Counted(r.of)
        BY <1>7, <3>3
      <4>2. CASE s \in Seen(T) /\ r \in Seen(T)
        BY <3>1, <3>3, <4>1, <4>2 DEF Once
      <4>3. CASE s = S \/ r = S
        BY <1>9, <3>2, <3>3, <4>1, <4>3
      <4> QED
        BY <3>2, <4>2, <4>3
    <3> QED
      BY <3>3 DEF Once
  <2>2. \A t \in Tasks : Once(field[t])' /\ Once(Seen(t))'
    BY <1>6, <1>7 DEF SessionInv, OnceEach, Once
  <2> QED
    BY <2>1, <2>2 DEF OnceEach
<1>12. ASSUME NEW t \in Tasks, NEW s \in Held(t), s.of = S.of, Counted(s.of) PROVE t = T
  BY <1>2, <1>6, <1>8, <1>12 DEF SessionInv, Belongs, T
<1>13. OneTask'
  <2>1. ASSUME NEW t \in Tasks, NEW u \in Tasks, NEW s \in All(t)', NEW r \in All(u)',
               s.of = r.of, Counted(s.of)'
        PROVE  t = u
    <3>1. Counted(s.of) /\ Counted(r.of)
      BY <1>7, <2>1
    <3>2. s \in Held(t) \/ (s = S /\ t = T)
      BY <1>6
    <3>3. r \in Held(u) \/ (r = S /\ u = T)
      BY <1>6
    <3>4. CASE s \in Held(t) /\ r \in Held(u)
      BY <1>6, <2>1, <3>1, <3>4 DEF SessionInv, OneTask
    <3> QED
      BY <1>12, <2>1, <3>1, <3>2, <3>3, <3>4
  <2> QED
    BY <2>1 DEF OneTask
<1>14. Belongs'
  <2>1. ASSUME NEW r \in Live', NEW t \in Tasks, NEW s \in Held(t)', s.of = r.id, Counted(s.of)'
        PROVE  r.task = t /\ s.start = r.start
    <3>1. Counted(s.of) /\ r \in Live
      BY <1>7, <1>8, <2>1
    <3>2. CASE s \in Held(t)
      BY <2>1, <3>1, <3>2 DEF SessionInv, Belongs
    <3>3. CASE s = S /\ t = T
      <4>1. r.id = active.id /\ Counted(active.id)
        BY <1>2, <2>1, <3>1, <3>3
      <4>2. r \in {active, disk, NoRecord}
        BY <1>1, <1>3 DEF Live
      <4>3. r # NoRecord
        BY <4>1, NoTimer
      <4>4. r = active
        BY <1>1, <4>1, <4>2, <4>3, TimeTrackerAssumption DEF RecordInv, Counted, T
      <4> QED
        BY <1>2, <3>3, <4>4 DEF T
    <3> QED
      BY <1>6, <3>2, <3>3
  <2> QED
    BY <1>6, <2>1 DEF Belongs
<1>15. Kept'
  BY <1>6, <1>7, <1>8 DEF SessionInv, Kept
<1>16. DiskFollows'
  <2>1. CASE disk.id \in {0, active.id}
    BY <2>1 DEF DiskFollows
  <2>2. CASE disk.id \notin {0, active.id}
    <3>1. Unsaved(disk.id)
      BY <2>2 DEF SessionInv, DiskFollows
    <3>2. ASSUME NEW t \in Tasks, NEW s \in All(t)', s.of = disk.id PROVE ~Counted(disk.id)
      BY <1>2, <1>6, <2>2, <3>1, <3>2 DEF Unsaved
    <3> QED
      BY <1>7, <3>2 DEF DiskFollows, Unsaved
  <2> QED
    BY <2>1, <2>2
<1> QED
  BY <1>10, <1>11, <1>13, <1>14, <1>15, <1>16 DEF SessionInv

\* A transition that an edit begins holds the sessions of the index, one of them
\* left out, moved, or added.
LEMMA EditSessions ==
    ASSUME Base, Base', SessionInv, NEW t \in Tasks, EditSession(t) PROVE SessionInv'
<1> USE DEF Base
<1>1. /\ Idle /\ Present(t) /\ op' = "edit" /\ task' = t /\ pc' = "save"
      /\ UNCHANGED <<field, seen, active, disk, nextId, current, previous, removed, misfiled>>
  BY DEF EditSession, Goto, store, history
<1>2. pc = "idle" /\ Seen(t) = seen[t] /\ seen[t] \in SUBSET Sessions
  BY <1>1, PresentTyped DEF PositionInv, Seen, Present
<1>3. PICK x \in Sessions, drop \in SUBSET Seen(t) :
           /\ write' \subseteq (Seen(t) \ drop) \cup {x}
           /\ x.of = 0 \/ \E s \in drop : drop = {s} /\ x.of = s.of
  <2>0. MaxTime \in Times
    BY TimeTrackerAssumption DEF Times
  <2>1. ASSUME NEW b \in Times, write' = seen[t] \cup {[start |-> b, end |-> MaxTime, of |-> 0]}
        PROVE  \E x \in Sessions, drop \in SUBSET Seen(t) :
                  /\ write' \subseteq (Seen(t) \ drop) \cup {x}
                  /\ x.of = 0 \/ \E s \in drop : drop = {s} /\ x.of = s.of
    <3> DEFINE x == [start |-> b, end |-> MaxTime, of |-> 0]
    <3>1. x \in Sessions /\ x.of = 0
      BY <2>0 DEF Sessions
    <3>2. {} \in SUBSET Seen(t) /\ write' \subseteq (Seen(t) \ {}) \cup {x}
      BY <1>2, <2>1
    <3> HIDE DEF x
    <3> QED
      BY <3>1, <3>2
  <2>2. ASSUME NEW s \in seen[t], write' = seen[t] \ {s}
        PROVE  \E x \in Sessions, drop \in SUBSET Seen(t) :
                  /\ write' \subseteq (Seen(t) \ drop) \cup {x}
                  /\ x.of = 0 \/ \E y \in drop : drop = {y} /\ x.of = y.of
    <3>1. s \in Sessions /\ {s} \in SUBSET Seen(t) /\ write' \subseteq (Seen(t) \ {s}) \cup {s}
      BY <1>2, <2>2
    <3> QED
      BY <3>1
  <2>3. ASSUME NEW s \in seen[t], NEW b \in Times,
               write' = (seen[t] \ {s}) \cup {[s EXCEPT !.start = b]}
        PROVE  \E x \in Sessions, drop \in SUBSET Seen(t) :
                  /\ write' \subseteq (Seen(t) \ drop) \cup {x}
                  /\ x.of = 0 \/ \E y \in drop : drop = {y} /\ x.of = y.of
    <3> DEFINE x == [s EXCEPT !.start = b]
    <3>1. s \in Sessions
      BY <1>2
    <3>2. x \in Sessions /\ x.of = s.of
      BY <3>1 DEF Sessions
    <3>3. {s} \in SUBSET Seen(t) /\ write' \subseteq (Seen(t) \ {s}) \cup {x}
      BY <1>2, <2>3
    <3> HIDE DEF x
    <3> QED
      BY <3>2, <3>3
  <2> QED
    BY <2>1, <2>2, <2>3 DEF EditSession
<1>4. ASSUME NEW s \in write' PROVE s.of = 0 \/ \E y \in Seen(t) : y.of = s.of
  BY <1>3
<1>5. \A id : Counted(id)' <=> Counted(id)
  BY <1>1 DEF Counted, EditedByUser
<1>6. ASSUME NEW u \in Tasks
      PROVE  /\ field[u]' = field[u] /\ Seen(u)' = Seen(u) /\ Held(u)' = Held(u)
             /\ Seen(u) \subseteq Held(u) /\ Held(u) \subseteq All(u) /\ Held(u) \subseteq All(u)'
             /\ \A s \in EditWrites(u)' : s \in write' /\ u = t
             /\ \A s \in All(u)' : s \in All(u) \/ (s \in write' /\ u = t)
  <2>1. All(u) = field[u] \cup Seen(u) /\ Held(u) = field[u] \cup Seen(u)
    BY <1>2, NothingToWrite
  <2>2. field[u]' = field[u] /\ Seen(u)' = Seen(u) /\ StopWrites(u)' = {}
    BY <1>1 DEF Seen, StopWrites
  <2>3. Subject' = t
    BY <1>1 DEF Subject
  <2>4. EditWrites(u)' \subseteq IF u = t THEN write' ELSE {}
    BY <2>3 DEF EditWrites
  <2> QED
    BY <2>1, <2>2, <2>4 DEF All, Held
\* Every session that counts afterwards is of a period that had one of the task.
<1>7. ASSUME NEW u \in Tasks, NEW s \in All(u)', Counted(s.of)'
      PROVE  \E y \in Held(u) : y.of = s.of
  <2>1. Counted(s.of) /\ s.of # 0
    BY <1>5, <1>7 DEF Counted
  <2>2. CASE s \in All(u)
    BY <1>2, <2>2, NothingToWrite
  <2>3. CASE s \in write' /\ u = t
    BY <1>4, <1>6, <2>1, <2>3
  <2> QED
    BY <1>6, <2>2, <2>3
<1>8. Live' = Live
  BY <1>1 DEF Live
<1>9. Fresh'
  <2>1. \A r \in Live' : r.id < nextId'
    BY <1>1, <1>8 DEF SessionInv, Fresh
  <2>2. 0 < nextId'
    BY DEF TypeOK
  <2>3. ASSUME NEW u \in Tasks, NEW s \in All(u)' PROVE s.of < nextId'
    <3>1. s.of = 0 \/ \E y \in All(u) : y.of = s.of
      BY <1>4, <1>6
    <3> QED
      BY <1>1, <2>2, <3>1 DEF SessionInv, Fresh
  <2> QED
    BY <2>1, <2>3 DEF Fresh
<1>10. OnceEach'
  <2>1. Once(write)'
    <3>1. ASSUME NEW s \in write', NEW r \in write', s.of = r.of, Counted(s.of)'
          PROVE  s = r
      <4>1. Counted(s.of) /\ s.of # 0
        BY <1>5, <3>1 DEF Counted
      <4>2. ASSUME NEW y \in Seen(t) \ drop, y.of = x.of, Counted(y.of) PROVE FALSE
        <5>1. PICK z \in drop : drop = {z} /\ x.of = z.of
          BY <1>3, <4>2 DEF Counted
        <5>2. Once(Seen(t))
          BY DEF SessionInv, OnceEach
        <5> QED
          BY <1>3, <4>2, <5>1, <5>2 DEF Once
      <4>3. CASE s \in Seen(t) \ drop /\ r \in Seen(t) \ drop
        <5>1. Once(Seen(t))
          BY DEF SessionInv, OnceEach
        <5> QED
          BY <3>1, <4>1, <4>3, <5>1 DEF Once
      <4> QED
        BY <1>3, <3>1, <4>1, <4>2, <4>3
    <3> QED
      BY <3>1 DEF Once
  <2>2. \A u \in Tasks : Once(field[u])' /\ Once(Seen(u))'
    BY <1>5, <1>6 DEF SessionInv, OnceEach, Once
  <2> QED
    BY <2>1, <2>2 DEF OnceEach
<1>11. OneTask'
  <2>1. ASSUME NEW u \in Tasks, NEW v \in Tasks, NEW s \in All(u)', NEW r \in All(v)',
               s.of = r.of, Counted(s.of)'
        PROVE  u = v
    <3>1. Counted(s.of) /\ Counted(r.of)'
      BY <1>5, <2>1
    <3>2. (\E y \in Held(u) : y.of = s.of) /\ (\E z \in Held(v) : z.of = s.of)
      BY <1>7, <2>1, <3>1
    <3> QED
      BY <1>6, <3>1, <3>2 DEF SessionInv, OneTask
  <2> QED
    BY <2>1 DEF OneTask
<1>12. Belongs'
  <2>1. ASSUME NEW r \in Live', NEW u \in Tasks, NEW s \in All(u)', s.of = r.id, Counted(s.of)'
        PROVE  r.task = u /\ (s \in Held(u)' => s.start = r.start)
    <3>1. Counted(s.of) /\ r \in Live
      BY <1>5, <1>8, <2>1
    <3>2. PICK y \in Held(u) : y.of = s.of
      BY <1>7, <2>1
    <3>3. r.task = u
      BY <2>1, <3>1, <3>2 DEF SessionInv, Belongs
    <3>4. s \in Held(u)' => s.start = r.start
      BY <1>6, <2>1, <3>1 DEF SessionInv, Belongs
    <3> QED
      BY <3>3, <3>4
  <2>2. \A u \in Tasks : Held(u)' \subseteq All(u)'
    BY <1>6
  <2>3. \A r \in Live', u \in Tasks : \A s \in All(u)' :
            s.of = r.id /\ Counted(s.of)' => r.task = u /\ (s \in Held(u)' => s.start = r.start)
    BY <2>1
  <2> QED
    BY <2>2, <2>3 DEF Belongs
<1>13. Kept'
  <2>1. ASSUME NEW r \in Live', NEW u \in Tasks, NEW s \in Seen(u)' \cup EditWrites(u)',
               s.of = r.id, Counted(s.of)'
        PROVE  \E w \in field[u]' : w.of = s.of
    <3>1. Counted(s.of) /\ s.of # 0 /\ r \in Live
      BY <1>5, <1>8, <2>1 DEF Counted
    <3>2. PICK y \in Seen(u) : y.of = s.of
      BY <1>4, <1>6, <3>1
    <3> QED
      BY <1>6, <2>1, <3>1, <3>2 DEF SessionInv, Kept
  <2> QED
    BY <2>1 DEF Kept
<1>14. DiskFollows'
  <2>1. ASSUME Unsaved(disk.id) PROVE Unsaved(disk.id)'
    <3>1. ASSUME NEW u \in Tasks, NEW s \in All(u)', s.of = disk.id, Counted(s.of)' PROVE FALSE
      <4>1. Counted(disk.id) /\ Counted(s.of)'
        BY <1>5, <3>1
      <4>2. \E y \in Held(u) : y.of = s.of
        BY <1>7, <4>1
      <4> QED
        BY <1>6, <2>1, <3>1, <4>1, <4>2 DEF Unsaved
    <3>2. \A u \in Tasks : \A s \in All(u)' : s.of = disk.id => ~Counted(s.of)'
      BY <3>1
    <3>3. disk'.id = disk.id
      BY <1>1
    <3> QED
      BY <3>2, <3>3 DEF Unsaved
  <2> QED
    BY <1>1, <2>1 DEF SessionInv, DiskFollows
<1> QED
  BY <1>9, <1>10, <1>11, <1>12, <1>13, <1>14 DEF SessionInv

\* A stop or an edit writes its sessions; what the file loses by an edit is edited
\* by the user, and by a stop it loses no period that may be stopped again.
LEMMA SavingSessions ==
    ASSUME Base, Base', SessionInv, StopKnows, SaveSessions PROVE SessionInv'
<1> USE DEF Base
<1> DEFINE T == Subject
<1>1. /\ pc = "save" /\ pc' = "reindex" /\ Present(T) /\ T \in Tasks
      /\ field' = [field EXCEPT ![T] = write]
      /\ UNCHANGED <<seen, active, disk, nextId, op, current, previous, misfiled>>
      /\ removed \subseteq removed'
  BY DEF SaveSessions, Goto, store, Present
<1>2. field'[T] = write /\ \A t \in Tasks \ {T} : field'[t] = field[t]
  BY <1>1 DEF TypeOK
<1>3. ASSUME NEW t \in Tasks
      PROVE  /\ Seen(t)' = Seen(t)
             /\ All(t)' = field'[t] \cup Seen(t) /\ Held(t)' = field'[t] \cup Seen(t)
             /\ All(t)' \subseteq All(t)
             /\ field[t] \subseteq Held(t) /\ Seen(t) \subseteq Held(t) /\ Held(t) \subseteq All(t)
             /\ op # "edit" => write \subseteq Held(T)
             /\ op = "edit" => T = task /\ EditWrites(T) = write
  <2>1. Seen(t)' = Seen(t) /\ StopWrites(t)' = {} /\ EditWrites(t)' = {}
    BY <1>1 DEF Seen, StopWrites, EditWrites
  <2>2. op # "edit" => StopWrites(T) = write
    BY <1>1 DEF StopWrites
  <2>3. op = "edit" => T = task /\ EditWrites(T) = write
    BY <1>1 DEF EditWrites, Subject
  <2>4. write \subseteq All(T)
    BY <2>2, <2>3 DEF All, Held
  <2> HIDE DEF T
  <2>5. All(t)' = field'[t] \cup Seen(t) /\ Held(t)' = field'[t] \cup Seen(t)
    BY <2>1 DEF All, Held
  <2>6. /\ field[t] \subseteq Held(t) /\ Seen(t) \subseteq Held(t) /\ Held(t) \subseteq All(t)
        /\ op # "edit" => write \subseteq Held(T)
    BY <2>2 DEF All, Held
  <2>7. All(t)' \subseteq All(t)
    BY <1>2, <2>4, <2>5, <2>6
  <2> QED
    BY <2>1, <2>3, <2>5, <2>6, <2>7
<1>4. Once(write)
  BY <1>1 DEF SessionInv, OnceEach
<1>5. Live' = Live
  BY <1>1 DEF Live
\* What an edit takes away is edited.
<1>6. ASSUME op = "edit", NEW w \in field[T] \ write PROVE ~Counted(w.of)'
  <2>1. [task |-> T, session |-> w, by |-> "edit"] \in removed'
    BY <1>6 DEF SaveSessions
  <2>2. \E e \in removed' : e.by = "edit" /\ e.session.of = w.of
    <3> DEFINE e == [task |-> T, session |-> w, by |-> "edit"]
    <3>1. e.by = "edit" /\ e.session = w
      OBVIOUS
    <3> HIDE DEF e
    <3> QED
      BY <2>1, <3>1 DEF e
  <2>3. EditedByUser(w.of)'
    BY <2>2 DEF EditedByUser
  <2> QED
    BY <2>3 DEF Counted
<1>7. ASSUME NEW id, Counted(id)' PROVE Counted(id)
  BY <1>1, <1>7, Counting
<1> HIDE DEF T
<1>8. \A t \in Tasks : \A s \in All(t) : s.of < nextId
  BY DEF SessionInv, Fresh
<1>9. Fresh'
  BY <1>1, <1>3, <1>5 DEF SessionInv, Fresh
<1>10. OnceEach'
  <2>1. ASSUME NEW t \in Tasks PROVE Once(field[t])' /\ Once(Seen(t))'
    <3>1. Once(field[t]) /\ Once(Seen(t))
      BY DEF SessionInv, OnceEach
    <3>2. \A S : Once(S) => \A s, r \in S : s.of = r.of /\ Counted(s.of)' => s = r
      BY <1>7 DEF Once
    <3>3. field'[t] \in {field[t], write}
      BY <1>2
    <3>4. \A s, r \in field'[t] : s.of = r.of /\ Counted(s.of)' => s = r
      BY <1>4, <3>1, <3>2, <3>3
    <3>5. \A s, r \in Seen(t)' : s.of = r.of /\ Counted(s.of)' => s = r
      BY <1>3, <3>1, <3>2
    <3> QED
      BY <3>4, <3>5 DEF Once
  <2> QED
    BY <1>1, <2>1 DEF OnceEach
<1>11. OneTask'
  <2>1. ASSUME NEW t \in Tasks, NEW u \in Tasks, NEW s \in All(t)', NEW r \in All(u)',
               s.of = r.of, Counted(s.of)'
        PROVE  t = u
    <3>1. Counted(s.of) /\ s \in All(t) /\ r \in All(u)
      BY <1>3, <1>7, <2>1
    <3> QED
      BY <2>1, <3>1 DEF SessionInv, OneTask
  <2> QED
    BY <2>1 DEF OneTask
\* A session of a live period that the task still has was in its file before.
<1>12. ASSUME NEW r \in Live, op = "edit", NEW s \in Seen(T) \cup write,
              s.of = r.id, Counted(s.of)'
       PROVE  \E w \in write \cap field[T] : w.of = s.of
  <2>1. Counted(s.of) /\ s \in Seen(T) \cup EditWrites(T)
    BY <1>1, <1>3, <1>7, <1>12
  <2>2. PICK w \in field[T] : w.of = s.of
    BY <1>1, <1>12, <2>1 DEF SessionInv, Kept
  <2>3. w \in write
    <3>1. ASSUME w \notin write PROVE FALSE
      <4>1. ~Counted(w.of)'
        BY <1>6, <1>12, <3>1 DEF T
      <4>2. w.of = s.of
        BY <2>2
      <4> QED
        BY <1>12, <4>1, <4>2 DEF Counted, EditedByUser
    <3> QED
      BY <3>1
  <2> QED
    BY <2>2, <2>3
<1>13. Belongs'
  <2>1. ASSUME NEW r \in Live', NEW t \in Tasks, NEW s \in All(t)', s.of = r.id, Counted(s.of)'
        PROVE  r.task = t /\ s.start = r.start
    <3>1. Counted(s.of) /\ s \in All(t) /\ r \in Live
      BY <1>3, <1>5, <1>7, <2>1
    <3>2. r.task = t
      BY <2>1, <3>1 DEF SessionInv, Belongs
    <3>3. s \in Held(t)
      <4>1. CASE s \in Seen(t) \/ t # T \/ op # "edit"
        BY <1>1, <1>2, <1>3, <4>1
      <4>2. CASE s \notin Seen(t) /\ t = T /\ op = "edit"
        <5>1. s \in write
          BY <1>2, <1>3, <4>2
        <5>2. PICK w \in write \cap field[T] : w.of = s.of
          BY <1>12, <2>1, <3>1, <4>2, <5>1
        <5>3. w = s
          BY <1>4, <3>1, <5>1, <5>2 DEF Once
        <5> QED
          BY <1>1, <1>3, <4>2, <5>2, <5>3
      <4> QED
        BY <4>1, <4>2
    <3> QED
      BY <2>1, <3>1, <3>2, <3>3 DEF SessionInv, Belongs
  <2>2. \A t \in Tasks : Held(t)' = All(t)'
    BY <1>3
  <2>3. \A r \in Live', t \in Tasks : \A s \in All(t)' :
            s.of = r.id /\ Counted(s.of)' => r.task = t /\ s.start = r.start
    BY <2>1
  <2> QED
    BY <2>2, <2>3 DEF Belongs
<1>14. Kept'
  <2>1. ASSUME NEW r \in Live', NEW t \in Tasks, NEW s \in Seen(t)', s.of = r.id, Counted(s.of)'
        PROVE  \E w \in field'[t] : w.of = s.of
    <3>1. Counted(s.of) /\ s \in Seen(t) /\ s \in All(t) /\ r \in Live
      BY <1>3, <1>5, <1>7, <2>1
    <3>2. CASE t # T
      BY <1>2, <2>1, <3>1, <3>2 DEF SessionInv, Kept
    <3>3. CASE t = T /\ op = "edit"
      BY <1>1, <1>2, <1>12, <2>1, <3>1, <3>3
    <3>4. CASE t = T /\ op # "edit"
      <4>1. previous = NoRecord /\ RunningOr(current) /\ \E w \in write : w.of = current.id
        BY <1>1, <3>4 DEF PositionInv, StopKnows
      <4>2. r.id # 0
        BY <2>1, <3>1 DEF Counted
      <4>3. r.id = current.id
        <5>1. r # NoRecord
          BY <4>2, NoTimer
        <5>2. CASE r = disk
          <6>1. ~Unsaved(disk.id)
            BY <2>1, <3>1, <5>2 DEF Unsaved
          <6>2. disk.id = active.id
            BY <4>2, <5>2, <6>1 DEF SessionInv, DiskFollows
          <6>3. active # NoRecord
            BY <4>2, <5>2, <6>2, NoTimer
          <6> QED
            BY <4>1, <5>2, <6>2, <6>3 DEF RunningOr
        <5>3. CASE r # disk
          BY <3>1, <4>1, <5>1, <5>3 DEF Live, RunningOr
        <5> QED
          BY <5>2, <5>3
      <4> QED
        BY <1>2, <2>1, <3>4, <4>1, <4>3
    <3> QED
      BY <3>2, <3>3, <3>4
  <2>2. \A t \in Tasks : EditWrites(t)' = {}
    BY <1>1 DEF EditWrites
  <2> QED
    BY <2>1, <2>2 DEF Kept
<1>15. DiskFollows'
  <2>1. disk' = disk /\ active' = active
    BY <1>1
  <2>2. disk.id \in {0, active.id} \/ Unsaved(disk.id)
    BY DEF SessionInv, DiskFollows
  <2>3. CASE disk.id \in {0, active.id}
    BY <2>1, <2>3 DEF DiskFollows
  <2>4. CASE Unsaved(disk.id)
    <3>1. Unsaved(disk.id)'
      BY <1>1, <1>3, <2>1, <2>4, Shrinks DEF Unsaved
    <3> QED
      BY <2>1, <3>1 DEF DiskFollows
  <2> QED
    BY <2>2, <2>3, <2>4
<1> QED
  BY <1>9, <1>10, <1>11, <1>13, <1>14, <1>15 DEF SessionInv

\* The record that a mutation of the store makes has no session that counts: a new
\* one, one without a task, or none.
LEMMA CommittedUnsaved ==
    ASSUME Base, SessionInv, mutations # <<>>, GiveId
    PROVE  Unsaved(Committed.id) /\ Committed.id < nextId' /\ nextId \leq nextId'
<1> USE DEF Base
<1>1. /\ Committed \in Records /\ Committed.id \in Nat /\ nextId \in Nat \ {0}
      /\ active.id \in Nat /\ active.id < nextId /\ previous.id < nextId
  <2>1. Committed \in Records
    BY CommittedIs
  <2> QED
    BY <2>1 DEF TypeOK, Records, SessionInv, Fresh, Live
<1>2. \/ Committed = NoRecord
      \/ Committed.id = nextId
      \/ pc = "set" /\ Running /\ Committed.id = active.id
      \/ pc = "restore" /\ Committed = previous
  BY CommittedIs DEF Awaited
<1>3. Committed.id \leq nextId
  BY <1>1, <1>2, NoTimer
<1>4. Committed.id < nextId' /\ nextId \leq nextId'
  BY <1>1, <1>3 DEF GiveId
<1>5. Unsaved(Committed.id)
  <2>1. CASE Committed = NoRecord
    BY <2>1, NoTimer
  <2>2. CASE Committed.id = nextId
    <3>1. \A t \in Tasks : \A s \in All(t) : s.of # nextId
      <4>1. ~(nextId < nextId)
        BY <1>1
      <4> QED
        BY <4>1 DEF SessionInv, Fresh
    <3> QED
      BY <2>2, <3>1 DEF Unsaved
  <2>3. CASE pc = "set" /\ Running /\ Committed.id = active.id
    <3>1. active # NoRecord
      BY <2>3, NoTimer DEF Running
    <3>2. active = previous /\ previous.task = NoTask
      BY <2>3, <3>1 DEF PositionInv, RunningOr
    <3> QED
      BY <2>3, <3>2, Taskless DEF Live
  <2>4. CASE pc = "restore" /\ Committed = previous
    <3>1. previous.task = NoTask
      BY <2>4 DEF PositionInv
    <3> QED
      BY <2>4, <3>1, Taskless DEF Live
  <2> QED
    BY <1>2, <2>1, <2>2, <2>3, <2>4
<1> QED
  BY <1>4, <1>5

LEMMA SessionInit == Init => SessionInv
<1> SUFFICES ASSUME Init PROVE SessionInv
  OBVIOUS
<1>1. \A t \in Tasks : All(t) = {} /\ Held(t) = {} /\ Seen(t) = {} /\ EditWrites(t) = {} /\ field[t] = {}
  BY DEF Init, All, Held, Seen, StopWrites, EditWrites
<1>2. \A r \in Live : r = NoRecord
  BY DEF Init, Live
<1>3. pc # "save" /\ nextId = 1 /\ disk = NoRecord
  BY DEF Init
<1>4. Fresh
  BY <1>1, <1>2, <1>3, NoRecordTyped DEF Fresh
<1>5. OnceEach /\ OneTask /\ Belongs /\ Kept
  BY <1>1, <1>3 DEF OnceEach, OneTask, Belongs, Kept, Once
<1>6. DiskFollows
  BY <1>3, NoRecordTyped DEF DiskFollows
<1> QED
  BY <1>4, <1>5, <1>6 DEF SessionInv

\* A transition that ends or goes on without a write.
LEMMA Carries ==
    ASSUME Base, Base', SessionInv, UNCHANGED <<field, active, disk, nextId, removed, misfiled>>,
           \A t \in Tasks : Seen(t)' \in {Seen(t), field[t], {}},
           pc' # "save", current' \in {active, current, NoRecord},
           previous' \in {active, previous, NoRecord}
    PROVE  SessionInv'
<1>1. \A r \in Live' : r \in Live \/ (r.id < nextId' /\ Unsaved(r.id))
  <2>1. 0 < nextId'
    BY DEF Base, TypeOK
  <2> QED
    BY <2>1, NoTimer DEF Live
<1>2. nextId \leq nextId'
  BY DEF Base, TypeOK
<1> QED
  BY <1>1, <1>2, SessionFrame DEF Base

LEMMA SessionStep == ASSUME Base, Base', SessionInv, StopKnows, [Next]_vars PROVE SessionInv'
<1> USE DEF Base
<1>0. /\ nextId \leq nextId /\ \A t \in Tasks : Seen(t) \in {Seen(t), field[t], {}}
      /\ 0 < nextId
  BY DEF TypeOK
<1>1. ASSUME Idle, active.id # 0, BeginStopping, op' \in {"stop", "external", "start"},
             UNCHANGED <<field, seen, active, disk, nextId, previous, removed, misfiled>>
      PROVE  SessionInv'
  <2>1. CASE pc' = "save"
    BY <1>1, <2>1, StoppingSessions
  <2>2. CASE pc' # "save"
    <3>1. current' = active /\ \A t \in Tasks : Seen(t)' = Seen(t)
      BY <1>1, StoppingTyped DEF Seen
    <3> QED
      BY <1>1, <2>2, <3>1, Carries
  <2> QED
    BY <2>1, <2>2
<1>2. ASSUME Stop PROVE SessionInv'
  BY <1>1, <1>2 DEF Stop, Running, history
<1>3. ASSUME NEW t \in Tasks, StopExternally(t) PROVE SessionInv'
  <2>1. active.id # 0
    BY <1>3, NoRecordTyped, TimeTrackerAssumption DEF StopExternally, RecordInv
  <2> QED
    BY <1>1, <1>3, <2>1 DEF StopExternally, history
<1>4. ASSUME NEW t \in Tasks, EditSession(t) PROVE SessionInv'
  BY <1>4, EditSessions
<1>5. ASSUME SaveSessions PROVE SessionInv'
  BY <1>5, SavingSessions
<1>6. ASSUME UNCHANGED <<field, seen, active, disk, nextId, removed, misfiled>>,
             pc' # "save", current' \in {active, current, NoRecord},
             previous' \in {active, previous, NoRecord}
      PROVE  SessionInv'
  <2>1. \A t \in Tasks : Seen(t)' = Seen(t)
    BY <1>6 DEF Seen
  <2> QED
    BY <1>6, <2>1, Carries
<1>7. ASSUME SaveFails \/ ReindexFails PROVE SessionInv'
  BY <1>6, <1>7 DEF SaveFails, ReindexFails, Return, store, history
<1>8. ASSUME NEW t, seen' \in {seen, Scanned(t)} PROVE \A u \in Tasks : Seen(u)' \in {Seen(u), field[u], {}}
  BY <1>8 DEF Scanned, Seen, TypeOK
<1>9. ASSUME Reindex PROVE SessionInv'
  <2>1. /\ UNCHANGED <<field, active, disk, nextId, removed, misfiled>>
        /\ seen' \in {seen, Scanned(Subject)}
    BY <1>9 DEF Reindex, history
  <2>2. pc' # "save" /\ current' \in {active, current, NoRecord} /\ previous' \in {active, previous, NoRecord}
    BY <1>9 DEF Reindex, Return, Goto
  <2>3. \A u \in Tasks : Seen(u)' \in {Seen(u), field[u], {}}
    BY <1>8, <2>1
  <2> QED
    BY <2>1, <2>2, <2>3, Carries
<1>10. ASSUME NEW t \in Tasks, Start(t) PROVE SessionInv'
  <2>1. CASE active.task # NoTask
    <3>1. active.id # 0
      BY <2>1, NoRecordTyped DEF RecordInv
    <3> QED
      BY <1>1, <1>10, <2>1, <3>1 DEF Start, history
  <2>2. CASE active.task = NoTask
    BY <1>6, <1>10, <2>2 DEF Start, SetRecord, Goto, history
  <2> QED
    BY <2>1, <2>2
<1>11. ASSUME StartUnassigned PROVE SessionInv'
  BY <1>6, <1>11 DEF StartUnassigned, SetRecord, Goto, history
<1>12. ASSUME Apply PROVE SessionInv'
  <2>1. /\ UNCHANGED <<field, active, disk, nextId, removed, misfiled>>
        /\ seen' \in {seen, Scanned(task)}
        /\ pc' # "save" /\ current' = NoRecord /\ previous' = NoRecord
    BY <1>12 DEF Apply, Return, store, history
  <2>2. \A u \in Tasks : Seen(u)' \in {Seen(u), field[u], {}}
    BY <1>8, <2>1
  <2> QED
    BY <2>1, <2>2, Carries
<1>13. ASSUME ApplyFails PROVE SessionInv'
  BY <1>6, <1>13 DEF ApplyFails, Goto, history
<1>14. ASSUME Commit \/ Reject PROVE SessionInv'
  <2>1. mutations # <<>> /\ GiveId /\ UNCHANGED <<field, seen, removed>> /\ misfiled \subseteq misfiled'
    BY <1>14 DEF Commit, Reject, history
  <2>2. Unsaved(Committed.id) /\ Committed.id < nextId' /\ nextId \leq nextId'
    BY <2>1, CommittedUnsaved
  <2>3. \/ active' = Committed /\ disk' \in {Committed, disk} /\ (Committed = active => disk' = disk)
           /\ (Committed # active => disk' = Committed)
        \/ active' = active /\ disk' \in {Committed, disk}
    BY <1>14 DEF Commit, Reject
  <2>4. /\ current' \in {current, NoRecord} /\ previous' \in {previous, NoRecord}
        /\ pc' = "save" => pc = "save" /\ UNCHANGED <<op, current, task, write>>
    BY <1>14 DEF Commit, Reject, Continue, Return, SetRecord, Goto, tx
  <2>5. \A r \in Live' : r \in Live \/ (r.id < nextId' /\ Unsaved(r.id))
    <3>1. 0 < nextId'
      BY DEF TypeOK
    <3> QED
      BY <2>2, <2>3, <2>4, <3>1, NoTimer DEF Live
  <2>6. disk'.id \in {0, active'.id} \/ UNCHANGED <<active, disk>> \/ Unsaved(disk'.id)
    BY <2>2, <2>3
  <2>7. pc' = "save" => pc = "save" /\ UNCHANGED <<op, Subject, write>>
    BY <2>4 DEF Subject
  <2>8. \A t \in Tasks : Seen(t)' \in {Seen(t), field[t], {}}
    BY <2>1 DEF Seen
  <2> QED
    BY <2>1, <2>2, <2>5, <2>6, <2>7, <2>8, SessionFrame
<1>15. ASSUME UNCHANGED <<field, store, tx, history>>,
              \A t \in Tasks : Seen(t)' \in {Seen(t), field[t], {}}
       PROVE  SessionInv'
  <2>1. pc' = "save" => pc = "save" /\ UNCHANGED <<op, Subject, write>>
    BY <1>15 DEF Subject, tx
  <2>2. /\ UNCHANGED <<field, active, disk, nextId>> /\ Live' = Live
        /\ removed \subseteq removed' /\ misfiled \subseteq misfiled'
    BY <1>15 DEF Live, store, tx, history
  <2> QED
    BY <1>0, <1>15, <2>1, <2>2, SessionFrame
<1>16. ASSUME NEW t \in Tasks, Leave(t) \/ Refresh(t) PROVE SessionInv'
  <2>1. \A u \in Tasks : Seen(u)' \in {Seen(u), field[u], {}}
    <3>1. seen' \in {[seen EXCEPT ![t] = Gone], [seen EXCEPT ![t] = field[t]]}
      BY <1>16 DEF Leave, Refresh
    <3> QED
      BY <3>1 DEF Seen, TypeOK
  <2> QED
    BY <1>15, <1>16, <2>1 DEF Leave, Refresh
<1>17. ASSUME Tick \/ UNCHANGED vars PROVE SessionInv'
  <2>1. UNCHANGED <<field, seen, store, tx, history>>
    BY <1>17 DEF Tick, vars
  <2>2. \A u \in Tasks : Seen(u)' = Seen(u)
    BY <2>1 DEF Seen
  <2> QED
    BY <1>15, <2>1, <2>2
<1>18. ASSUME ResumeFromIndex PROVE SessionInv'
  <2>1. UNCHANGED <<field, seen, active, disk, nextId, tx, removed, misfiled>>
    BY <1>18 DEF ResumeFromIndex, history
  <2>2. /\ pc' = "save" => pc = "save" /\ UNCHANGED <<op, Subject, write>>
        /\ Live' = Live
    BY <2>1 DEF Subject, Live, tx
  <2>3. \A u \in Tasks : Seen(u)' = Seen(u)
    BY <2>1 DEF Seen
  <2> QED
    BY <1>0, <2>1, <2>2, <2>3, SessionFrame
<1>19. ASSUME Crash PROVE SessionInv'
  <2>1. /\ active' = disk /\ UNCHANGED <<field, disk, nextId, removed, misfiled>>
        /\ pc' = "idle" /\ current' = NoRecord /\ previous' = NoRecord
    BY <1>19 DEF Crash, Return, history
  <2>2. \A u \in Tasks : Seen(u)' \in {Seen(u), field[u], {}}
    BY <1>19 DEF Crash, Seen
  <2>3. \A r \in Live' : r \in Live \/ (r.id < nextId' /\ Unsaved(r.id))
    BY <1>0, <2>1, NoTimer DEF Live
  <2> QED
    BY <1>0, <2>1, <2>2, <2>3, SessionFrame
<1> QED
  BY <1>2, <1>3, <1>4, <1>5, <1>7, <1>9, <1>10, <1>11, <1>12, <1>13, <1>14, <1>16, <1>17,
     <1>18, <1>19 DEF Next, Step, Write

----------------------------------------------------------------------------
(* What a stop takes for saved *)

LEMMA StopInit == Init => StopInv
<1> SUFFICES ASSUME Init PROVE StopInv
  OBVIOUS
<1>1. \A t \in Tasks : Seen(t) = {}
  BY DEF Init, Seen
<1>2. finalized = {} /\ pc = "idle"
  BY DEF Init
<1> QED
  BY <1>1, <1>2 DEF StopInv, SeenStays, FinalizedStays, FinalizedOld, StopKnows

\* A period stays saved while no file is written.
LEMMA StaysSaved ==
    ASSUME UNCHANGED <<field, removed>>, NEW r, Saved(r) PROVE Saved(r)'
  BY DEF Saved, TakenAway

LEMMA SeenStaysFrame ==
    ASSUME SeenStays, UNCHANGED <<field, removed>>,
           \A t \in Tasks : Seen(t)' \in {Seen(t), field[t], {}}
    PROVE  SeenStays'
<1> SUFFICES ASSUME NEW t \in Tasks, NEW s \in Seen(t)'
             PROVE  \/ \E w \in field'[t] : w.start = s.start
                    \/ \E e \in removed' : e.task = t /\ e.session.start = s.start
  BY DEF SeenStays
<1>1. CASE s \in field[t]
  BY <1>1
<1>2. CASE s \in Seen(t)
  BY <1>2 DEF SeenStays
<1> QED
  BY <1>1, <1>2

\* A step that writes no file and remembers nothing as saved.
LEMMA StopFrame ==
    ASSUME StopInv, UNCHANGED <<field, removed>>, finalized' \subseteq finalized,
           nextId \in Nat, nextId' \in Nat, finalized \subseteq Nat, nextId \leq nextId',
           \A t \in Tasks : Seen(t)' \in {Seen(t), field[t], {}},
           \A r \in {active', current'} :
               r \in {active, current} \/ r.id \notin finalized \/ r.id = 0,
           previous'.id = 0 \/ previous'.id \notin finalized,
           \/ UNCHANGED <<pc, op, current, write>>
           \/ pc' \notin {"save", "reindex", "clear"}
           \/ op' = "edit" /\ pc' # "clear"
    PROVE  StopInv'
<1>1. SeenStays'
  BY SeenStaysFrame DEF StopInv
<1>2. FinalizedStays'
  <2>1. ASSUME NEW r \in {active', current'}, r.id \in finalized', r.id # 0
        PROVE  r.task # NoTask /\ Saved(r)'
    <3>1. r \in {active, current} /\ r.id \in finalized
      BY <2>1
    <3> QED
      BY <2>1, <3>1, StaysSaved DEF StopInv, FinalizedStays
  <2> QED
    BY <2>1 DEF FinalizedStays, Saved, TakenAway
<1>3. FinalizedOld'
  <2>1. ASSUME NEW id \in finalized' PROVE id < nextId'
    <3>1. id \in Nat /\ id < nextId
      BY DEF StopInv, FinalizedOld
    <3> QED
      BY <3>1
  <2>2. previous'.id # 0 => previous'.id \notin finalized'
    OBVIOUS
  <2> QED
    BY <2>1, <2>2 DEF FinalizedOld
<1>4. StopKnows'
  BY DEF StopInv, StopKnows, Saved, TakenAway
<1> QED
  BY <1>1, <1>2, <1>3, <1>4 DEF StopInv

\* A stop goes straight to the clear of the record when the index shows a session
\* that begins with the record, or this process remembers it.
LEMMA StoppingKnows ==
    ASSUME Base, SessionInv, StopInv, Idle, active.id # 0, BeginStopping,
           op' \in {"stop", "external", "start"},
           UNCHANGED <<field, seen, active, nextId, finalized, previous, removed>>
    PROVE  StopInv'
<1> USE DEF Base
<1>1. current' = active /\ active \in Records /\ pc' \in {"save", "clear", "discard"}
  BY StoppingTyped
<1>2. SeenStays'
  <2>1. \A t \in Tasks : Seen(t)' = Seen(t)
    BY DEF Seen
  <2> QED
    BY <2>1, SeenStaysFrame DEF StopInv
<1>3. FinalizedStays'
  BY <1>1 DEF StopInv, FinalizedStays, Saved, TakenAway
<1>4. FinalizedOld'
  BY DEF StopInv, FinalizedOld
<1>5. pc' = "save" => \E s \in write' : s.of = active.id
  <2>1. Session(active).of = active.id
    BY DEF Session
  <2> QED
    BY <2>1, StoppingTyped
<1>6. ASSUME pc' = "clear", active.task # NoTask PROVE Saved(active)
  <2>1. Present(active.task) /\ AlreadyPersisted(active)
    BY <1>6 DEF BeginStopping, Goto
  <2>2. CASE active.id \in finalized
    BY <2>2 DEF StopInv, FinalizedStays
  <2>3. CASE \E s \in seen[active.task] : s.start = active.start
    <3>1. PICK s \in seen[active.task] : s.start = active.start
      BY <2>3
    <3>2. active.task \in Tasks /\ s \in Seen(active.task)
      BY <2>1, <3>1 DEF Present, Seen
    <3>3. \/ \E w \in field[active.task] : w.start = s.start
          \/ \E e \in removed : e.task = active.task /\ e.session.start = s.start
      BY <3>2 DEF StopInv, SeenStays
    <3> QED
      BY <3>1, <3>3 DEF Saved, TakenAway
  <2> QED
    BY <2>1, <2>2, <2>3 DEF AlreadyPersisted
<1>7. StopKnows'
  <2>1. pc' = "clear" /\ current'.task # NoTask => Saved(current)'
    BY <1>1, <1>6 DEF Saved, TakenAway
  <2> QED
    BY <1>1, <1>5, <2>1 DEF StopKnows
<1> QED
  BY <1>2, <1>3, <1>4, <1>7 DEF StopInv

\* What a write takes from a task is recorded as removed; a stop writes the session
\* of the period it stops.
LEMMA SavingKnows ==
    ASSUME Base, StopInv, SaveSessions PROVE StopInv'
<1> USE DEF Base
<1> DEFINE T == Subject
           Entry(s) == [task |-> T, session |-> s, by |-> IF op = "edit" THEN "edit" ELSE "stop"]
<1>1. /\ pc = "save" /\ pc' = "reindex" /\ T \in Tasks
      /\ field' = [field EXCEPT ![T] = write]
      /\ UNCHANGED <<seen, active, nextId, finalized, op, current, previous>>
      /\ removed \subseteq removed'
  BY DEF SaveSessions, Goto, store, Present
<1>2. field'[T] = write /\ \A t \in Tasks \ {T} : field'[t] = field[t]
  BY <1>1 DEF TypeOK
<1>3. ASSUME NEW t \in Tasks, NEW w \in field[t], w \notin field'[t]
      PROVE  \E e \in removed' : /\ e.task = t /\ e.session = w
                                 /\ e.by = IF op = "edit" THEN "edit" ELSE "stop"
  <2>1. t = T /\ w \in field[T] \ write
    BY <1>2, <1>3
  <2>2. Entry(w) \in removed'
    BY <2>1 DEF SaveSessions
  <2>3. /\ Entry(w).task = T /\ Entry(w).session = w
        /\ Entry(w).by = IF op = "edit" THEN "edit" ELSE "stop"
    OBVIOUS
  <2> HIDE DEF Entry, T
  <2> QED
    BY <2>1, <2>2, <2>3
<1>4. op # "edit" => T = current.task
  BY DEF Subject
<1> HIDE DEF Entry, T
<1>5. SeenStays'
  <2>1. ASSUME NEW t \in Tasks, NEW s \in Seen(t)
        PROVE  \/ \E w \in field'[t] : w.start = s.start
               \/ \E e \in removed' : e.task = t /\ e.session.start = s.start
    <3>1. CASE \E w \in field[t] : w.start = s.start
      BY <1>3, <3>1
    <3>2. CASE \E e \in removed : e.task = t /\ e.session.start = s.start
      BY <1>1, <3>2
    <3> QED
      BY <3>1, <3>2 DEF StopInv, SeenStays
  <2>2. \A t \in Tasks : Seen(t)' = Seen(t)
    BY <1>1 DEF Seen
  <2> QED
    BY <2>1, <2>2 DEF SeenStays
<1>6. ASSUME op # "edit" PROVE Saved(current)'
  <2>1. \E s \in write : s.of = current.id
    BY <1>1, <1>6 DEF StopInv, StopKnows
  <2> QED
    BY <1>1, <1>2, <1>4, <1>6, <2>1 DEF Saved
<1>7. FinalizedStays'
  <2>1. ASSUME NEW r \in {active, current}, r.id \in finalized, r.id # 0
        PROVE  r.task # NoTask /\ Saved(r)'
    <3>1. r.task # NoTask /\ Saved(r)
      BY <2>1 DEF StopInv, FinalizedStays
    <3>2. r.task \in Tasks
      BY <3>1 DEF TypeOK, Records
    <3>3. CASE op # "edit"
      <4>1. r # NoRecord
        BY <2>1, NoRecordTyped
      <4>2. r = current
        BY <1>1, <3>3, <4>1 DEF PositionInv, RunningOr
      <4> QED
        BY <1>6, <3>1, <3>3, <4>2, <1>1 DEF Saved, TakenAway
    <3>4. CASE op = "edit"
      <4>1. CASE \E s \in field[r.task] : s.of = r.id \/ s.start = r.start
        <5>1. PICK s \in field[r.task] : s.of = r.id \/ s.start = r.start
          BY <4>1
        <5>2. CASE s \in field'[r.task]
          BY <3>1, <5>1, <5>2 DEF Saved
        <5>3. CASE s \notin field'[r.task]
          <6>1. \E e \in removed' : e.task = r.task /\ e.session = s /\ e.by = "edit"
            BY <1>3, <3>2, <3>4, <5>3
          <6> QED
            BY <3>1, <5>1, <6>1 DEF Saved, TakenAway
        <5> QED
          BY <5>2, <5>3
      <4>2. CASE TakenAway(r)
        BY <1>1, <3>1, <4>2 DEF Saved, TakenAway
      <4> QED
        BY <3>1, <4>1, <4>2 DEF Saved
    <3> QED
      BY <3>3, <3>4
  <2> QED
    BY <1>1, <2>1 DEF FinalizedStays, Saved, TakenAway
<1>8. FinalizedOld'
  BY <1>1 DEF StopInv, FinalizedOld
<1>9. StopKnows'
  <2>1. op # "edit" => \E s \in field'[current.task] : s.of = current.id
    BY <1>1, <1>2, <1>4 DEF StopInv, StopKnows
  <2> QED
    BY <1>1, <2>1 DEF StopKnows
<1> QED
  BY <1>5, <1>7, <1>8, <1>9 DEF StopInv

\* A reindex remembers what its stop has written.
LEMMA ReindexKnows ==
    ASSUME Base, SessionInv, StopInv, Reindex, op # "edit" PROVE StopInv'
<1> USE DEF Base
<1>1. /\ pc = "reindex" /\ pc' = "clear" /\ finalized' = finalized \cup {current.id}
      /\ UNCHANGED <<field, removed, active, current, previous, op, nextId>>
      /\ seen' \in {seen, Scanned(Subject)}
  BY DEF Reindex, Goto, history
<1>2. previous = NoRecord /\ current.id # 0 /\ active \in {current, NoRecord} /\ current.task # NoTask
  BY <1>1 DEF PositionInv, RunningOr
<1>3. Saved(current)
  BY <1>1 DEF StopInv, StopKnows, Saved
<1>4. SeenStays'
  <2>1. \A u \in Tasks : Seen(u)' \in {Seen(u), field[u], {}}
    BY <1>1 DEF Scanned, Seen, TypeOK
  <2> QED
    BY <1>1, <2>1, SeenStaysFrame DEF StopInv
<1>5. Saved(current)'
  BY <1>1, <1>3 DEF Saved, TakenAway
<1>6. FinalizedStays'
  BY <1>1, <1>2, <1>5, NoRecordTyped DEF FinalizedStays
<1>7. FinalizedOld'
  <2>1. current.id < nextId
    BY DEF SessionInv, Fresh, Live
  <2> QED
    BY <1>1, <1>2, <2>1, NoRecordTyped DEF StopInv, FinalizedOld
<1>8. StopKnows'
  BY <1>1, <1>5 DEF StopKnows
<1> QED
  BY <1>4, <1>6, <1>7, <1>8 DEF StopInv

LEMMA StopStep == ASSUME Base, Base', SessionInv, StopInv, [Next]_vars PROVE StopInv'
<1> USE DEF Base
<1>0. /\ nextId \in Nat /\ nextId' \in Nat /\ nextId \leq nextId /\ finalized \subseteq Nat
      /\ NoRecord.id = 0
  BY NoRecordTyped DEF TypeOK
<1>1. previous.id = 0 \/ previous.id \notin finalized
  BY DEF StopInv, FinalizedOld
<1>2. ASSUME Idle, active.id # 0, BeginStopping, op' \in {"stop", "external", "start"},
             UNCHANGED <<field, seen, active, nextId, finalized, previous, removed>>
      PROVE  StopInv'
  BY <1>2, StoppingKnows
<1>3. ASSUME UNCHANGED <<field, active, nextId, finalized, removed>>,
             \A t \in Tasks : Seen(t)' \in {Seen(t), field[t], {}},
             current' \in {current, NoRecord},
             previous'.id = 0 \/ previous'.id \notin finalized,
             pc' \notin {"save", "reindex", "clear"} \/ (op' = "edit" /\ pc' # "clear")
      PROVE  StopInv'
  BY <1>0, <1>3, StopFrame
<1>4. ASSUME UNCHANGED seen PROVE \A t \in Tasks : Seen(t)' \in {Seen(t), field[t], {}}
  BY <1>4 DEF Seen
<1>5. ASSUME NEW t, seen' \in {seen, Scanned(t)} PROVE \A u \in Tasks : Seen(u)' \in {Seen(u), field[u], {}}
  BY <1>5 DEF Scanned, Seen, TypeOK
<1>6. ASSUME Stop PROVE StopInv'
  BY <1>2, <1>6 DEF Stop, Running, history
<1>7. ASSUME NEW t \in Tasks, StopExternally(t) PROVE StopInv'
  <2>1. active.id # 0
    BY <1>7, NoRecordTyped, TimeTrackerAssumption DEF StopExternally, RecordInv
  <2> QED
    BY <1>2, <1>7, <2>1 DEF StopExternally, history
<1>8. ASSUME NEW t \in Tasks, EditSession(t) PROVE StopInv'
  BY <1>1, <1>3, <1>4, <1>8 DEF EditSession, Goto, store, history
<1>9. ASSUME SaveSessions PROVE StopInv'
  BY <1>9, SavingKnows
<1>10. ASSUME SaveFails \/ ReindexFails PROVE StopInv'
  BY <1>0, <1>3, <1>4, <1>10 DEF SaveFails, ReindexFails, Return, store, history
<1>11. ASSUME Reindex PROVE StopInv'
  <2>1. CASE op # "edit"
    BY <1>11, <2>1, ReindexKnows
  <2>2. CASE op = "edit"
    <3>1. /\ UNCHANGED <<field, active, nextId, finalized, removed>>
          /\ seen' \in {seen, Scanned(Subject)} /\ Return(TRUE)
      BY <1>11, <2>2 DEF Reindex, history
    <3>2. \A u \in Tasks : Seen(u)' \in {Seen(u), field[u], {}}
      BY <1>5, <3>1
    <3> QED
      BY <1>0, <1>3, <3>1, <3>2 DEF Return
  <2> QED
    BY <2>1, <2>2
<1>12. ASSUME NEW t \in Tasks, Start(t) PROVE StopInv'
  <2>1. CASE active.task # NoTask
    <3>1. active.id # 0
      BY <2>1, NoRecordTyped DEF RecordInv
    <3> QED
      BY <1>2, <1>12, <2>1, <3>1 DEF Start, history
  <2>2. CASE active.task = NoTask
    <3>1. active.id = 0 \/ active.id \notin finalized
      BY <2>2 DEF StopInv, FinalizedStays
    <3>2. UNCHANGED <<field, seen, active, nextId, finalized, removed, current>>
          /\ pc' = "set" /\ previous' = active
      BY <1>12, <2>2 DEF Start, SetRecord, Goto, history
    <3> QED
      BY <1>3, <1>4, <3>1, <3>2
  <2> QED
    BY <2>1, <2>2
<1>13. ASSUME StartUnassigned PROVE StopInv'
  BY <1>0, <1>3, <1>4, <1>13 DEF StartUnassigned, SetRecord, Goto, history
<1>14. ASSUME Apply PROVE StopInv'
  <2>1. /\ UNCHANGED <<field, active, nextId, finalized, removed>> /\ pc' = "idle"
        /\ seen' \in {seen, Scanned(task)} /\ current' = NoRecord /\ previous' = NoRecord
    BY <1>14 DEF Apply, Return, store, history
  <2>2. \A u \in Tasks : Seen(u)' \in {Seen(u), field[u], {}}
    BY <1>5, <2>1
  <2> QED
    BY <1>0, <1>3, <2>1, <2>2
<1>15. ASSUME ApplyFails PROVE StopInv'
  BY <1>1, <1>3, <1>4, <1>15 DEF ApplyFails, Goto, history
\* The store makes no record of a period that is remembered as saved.
<1>16. ASSUME Commit \/ Reject PROVE StopInv'
  <2>1. mutations # <<>> /\ GiveId /\ UNCHANGED <<field, seen, removed>>
    BY <1>16 DEF Commit, Reject, history
  <2>2. nextId \leq nextId'
    BY <2>1, CommittedUnsaved
  <2>3. active' \in {active, Committed} /\ current' \in {current, NoRecord} /\ previous' \in {previous, NoRecord}
        /\ finalized' \subseteq finalized
    BY <1>16 DEF Commit, Reject, Continue, Return, SetRecord, Goto, tx
  <2>4. Committed.id = 0 \/ Committed.id \notin finalized
    <3>1. nextId \notin finalized
      <4>1. ~(nextId < nextId)
        BY <1>0
      <4> QED
        BY <4>1 DEF StopInv, FinalizedOld
    <3>2. CASE pc = "set" /\ Running /\ Committed.id = active.id
      <4>1. active = previous
        BY <3>2, <1>0 DEF PositionInv, RunningOr, Running
      <4> QED
        BY <1>1, <3>2, <4>1
    <3>3. \/ Committed = NoRecord
          \/ Committed.id = nextId
          \/ pc = "set" /\ Running /\ Committed.id = active.id
          \/ pc = "restore" /\ Committed = previous
      BY <2>1, CommittedIs DEF Awaited
    <3> QED
      BY <1>0, <1>1, <3>1, <3>2, <3>3
  <2>5. UNCHANGED <<pc, op, current, write>> \/ pc' \notin {"save", "reindex", "clear"}
    BY <1>16 DEF Commit, Reject, Continue, Return, SetRecord, Goto, tx
  <2>6. \A t \in Tasks : Seen(t)' \in {Seen(t), field[t], {}}
    BY <1>4, <2>1
  <2> QED
    BY <1>0, <1>1, <2>1, <2>2, <2>3, <2>4, <2>5, <2>6, StopFrame
<1>17. ASSUME UNCHANGED <<field, active, nextId, finalized, tx, history>>,
              \A t \in Tasks : Seen(t)' \in {Seen(t), field[t], {}}
       PROVE  StopInv'
  BY <1>0, <1>1, <1>17, StopFrame DEF tx, history
<1>18. ASSUME NEW t \in Tasks, Leave(t) \/ Refresh(t) PROVE StopInv'
  <2>1. \A u \in Tasks : Seen(u)' \in {Seen(u), field[u], {}}
    <3>1. seen' \in {[seen EXCEPT ![t] = Gone], [seen EXCEPT ![t] = field[t]]}
      BY <1>18 DEF Leave, Refresh
    <3> QED
      BY <3>1 DEF Seen, TypeOK
  <2> QED
    BY <1>17, <1>18, <2>1 DEF Leave, Refresh, store
<1>19. ASSUME Tick \/ ResumeFromIndex \/ UNCHANGED vars PROVE StopInv'
  BY <1>4, <1>17, <1>19 DEF Tick, ResumeFromIndex, vars, store
<1>20. ASSUME Crash PROVE StopInv'
  <2>1. /\ UNCHANGED <<field, nextId, removed>> /\ finalized' = {} /\ pc' = "idle"
        /\ previous' = NoRecord
    BY <1>20 DEF Crash, Return, history
  <2>2. SeenStays'
    <3>1. \A u \in Tasks : Seen(u)' \in {Seen(u), field[u], {}}
      BY <1>20 DEF Crash, Seen
    <3> QED
      BY <2>1, <3>1, SeenStaysFrame DEF StopInv
  <2>3. FinalizedStays' /\ FinalizedOld' /\ StopKnows'
    BY <2>1 DEF FinalizedStays, FinalizedOld, StopKnows
  <2> QED
    BY <2>2, <2>3 DEF StopInv
<1> QED
  BY <1>6, <1>7, <1>8, <1>9, <1>10, <1>11, <1>12, <1>13, <1>14, <1>15, <1>16, <1>18, <1>19,
     <1>20 DEF Next, Step, Write

----------------------------------------------------------------------------
(* The theorems *)

\* The state of the tracker is always of its type: the sessions of the files and of
\* the index, the records, the transition and the queue of the store.
THEOREM TrackerTypes == Spec => []TypeOK
<1>1. Init => Base
  BY BaseInit
<1>2. Base /\ [Next]_vars => Base'
  BY BaseStep
<1>3. Base => TypeOK
  BY DEF Base
<1> QED
  BY <1>1, <1>2, <1>3, PTL DEF Spec

\* At every position of a transition the queue of the store holds the mutation that
\* it awaits and no other but a clear by the index; and the records, the files and
\* the index agree on the sessions of every period that can be stopped again.
THEOREM TrackerInvariant == Spec => [](Base /\ SessionInv /\ StopInv)
<1> DEFINE Inv == Base /\ SessionInv /\ StopInv
<1>1. Init => Inv
  BY BaseInit, SessionInit, StopInit
<1>2. Inv /\ [Next]_vars => Inv'
  <2> SUFFICES ASSUME Inv, [Next]_vars PROVE Inv'
    OBVIOUS
  <2>1. Base'
    BY BaseStep
  <2>2. SessionInv'
    BY <2>1, SessionStep DEF StopInv
  <2>3. StopInv'
    BY <2>1, StopStep
  <2> QED
    BY <2>1, <2>2, <2>3
<1> QED
  BY <1>1, <1>2, PTL DEF Spec

\* A period of tracked time is counted once, for any number of tasks, failures and
\* restarts: a stop that is tried again does not add its session a second time.
THEOREM PeriodsCountedOnce == Spec => []CountedOnce
<1>1. SessionInv => CountedOnce
  <2> SUFFICES ASSUME SessionInv, NEW t \in Tasks, NEW u \in Tasks,
                      NEW s \in field[t], NEW r \in field[u],
                      s.of = r.of, s.of # 0, ~EditedByUser(s.of), s.of \notin misfiled
               PROVE  t = u /\ s = r
    BY DEF CountedOnce
  <2>1. Counted(s.of)
    BY DEF Counted
  <2>2. s \in All(t) /\ r \in All(u)
    BY DEF All, Held
  <2>3. t = u
    BY <2>1, <2>2 DEF SessionInv, OneTask
  <2>4. s = r
    BY <2>1, <2>3 DEF SessionInv, OnceEach, Once
  <2> QED
    BY <2>3, <2>4
<1> QED
  BY <1>1, TrackerInvariant, PTL

\* A stop never loses a period: when it removes the record of the running timer from
\* the file of the store, the session of the record is in the file of its task, or
\* was taken away again.
THEOREM StopsAreSaved == Spec => StopSaves
<1>1. StopInv /\ [Next]_vars =>
         [pc = "clear" /\ current.task # NoTask /\ disk'.id # current.id /\ disk' # disk =>
             Saved(current)]_vars
  BY DEF StopInv, StopKnows
<1> QED
  BY <1>1, TrackerInvariant, PTL DEF Spec, StopSaves
=============================================================================
