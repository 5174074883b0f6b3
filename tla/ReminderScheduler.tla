--------------------------- MODULE ReminderScheduler ---------------------------
(***************************************************************************)
(* core/reminder-scheduler.ts with its ledger                              *)
(* (storage/reminder-delivery-store.ts) and the delivery port              *)
(* (systems/reminder-delivery.ts).  Reconciliations run one at a time:     *)
(* each rebuilds the occurrences of some tasks from the index, enters what *)
(* is due in the ledger, writes the ledger, runs the due-task automation,  *)
(* hands the pending occurrences to the port, marks what was shown and     *)
(* arms the timer.  The index, the clock and the window move on between    *)
(* its awaits; a write or a notification may fail; the process may die     *)
(* anywhere.                                                               *)
(*                                                                         *)
(* A reminder source is a fixed time or a rule of one task and keeps its   *)
(* local time; all sources of a task that fall on the same instant are one *)
(* occurrence.                                                             *)
(***************************************************************************)
EXTENDS Naturals, Sequences, FiniteSetsExt

CONSTANTS
    Tasks, Sources,
    Owner, Local,        \* the task of a source and its local time
    Window, Retention,   \* the catch-up window and the age at which a record is dropped
    Delays, MaxDelay,    \* the delays of retries and the longest timer
    MaxTime, MaxQueue,   \* bounds: the clock, waiting reconciliations
    Bounds,              \* how many sessions, edits, wakes, zones, faults, and events in
                         \* all, sessions excepted
    NoFile

Times == 1 .. MaxTime + 1   \* a change of the time zone moves an occurrence by one
Keys  == Tasks \X Times

ASSUME WindowAssumption == Window \in Nat /\ Retention \in Nat /\ Window < Retention
ASSUME SourceAssumption == Owner \in [Sources -> Tasks] /\ Local \in [Sources -> 1 .. MaxTime]
ASSUME DelayAssumption ==
    Delays \in Seq(Nat \ {0}) /\ Delays # <<>> /\ MaxDelay \in Nat \ {0}
ASSUME BoundAssumption == MaxTime \in Nat \ {0} /\ MaxQueue \in Nat \ {0}

VARIABLES
    \* --- the index, the window, the clock
    task,        \* "open", "terminal" or "gone"
    duplicate,   \* tasks whose id occurs twice
    present,     \* sources that their tasks have now
    zone,        \* by how much the time zone moves local times
    focused, now,
    \* --- the ledger file
    file,
    \* --- memory
    life,        \* "off", "running", "portClosed", "closing", "destroyed"
    occurrences, \* what the reconciliations have found in the index
    ledger,      \* records by key and lifecycles by task
    written,     \* the ledger as it was last written: serialized
    handled,     \* dueTaskAutomationHandledKeys
    queue,       \* waiting reconciliations: the tasks of each
    op,          \* the one that runs
    awaited,     \* reconciliations that destroy still awaits
    timer,       \* when it fires, or 0
    retry,       \* when the ledger write and the delivery are to be retried
    \* --- history and bounds
    seen, saved, \* what was told and observed, and as much of it as the file holds
    left

world    == <<task, duplicate, present, zone, focused, now>>
memory   == <<occurrences, ledger, written, handled>>
schedule == <<timer, retry>>
history  == <<seen, saved>>
vars     == <<world, file, life, memory, queue, op, awaited, schedule, history, left>>

Spend(what) == /\ left[what] > 0 /\ left["events"] > 0
               /\ left' = [left EXCEPT ![what] = @ - 1, !["events"] = @ - 1]

----------------------------------------------------------------------------
(* Occurrences *)

SourcesOf(t) == {s \in present : Owner[s] = t}
Epoch(s)     == Local[s] + zone

\* buildReminderOccurrences: one occurrence for all sources of an instant.
Found(t) ==
    IF task[t] # "open" THEN {}
    ELSE {[task |-> t, at |-> e, sources |-> {s \in SourcesOf(t) : Epoch(s) = e}] :
            e \in {Epoch(s) : s \in SourcesOf(t)}}

Key(o)    == <<o.task, o.at>>
Due(o, n) == o.at <= n /\ n <= o.at + Window

\* getAuthoritativeTask
Authoritative(o) == o.task \notin duplicate /\ o \in Found(o.task)

----------------------------------------------------------------------------
(* The ledger *)

States     == {"none", "pending", "delivered", "expired", "suppressed"}
Records    == [state : States, sources : SUBSET Sources, since : Nat]
Lifecycles == [state : {"none", "terminal", "open"}, cutoff : Nat]
Ledgers    == [records : [Keys -> Records], lifecycles : [Tasks -> Lifecycles]]
ASSUME NoFileAssumption == NoFile \notin Ledgers

NoRecord    == [state |-> "none", sources |-> {}, since |-> 0]
NoLifecycle == [state |-> "none", cutoff |-> 0]
EmptyLedger == [records |-> [k \in Keys |-> NoRecord], lifecycles |-> [t \in Tasks |-> NoLifecycle]]

Pending(R) == {k \in Keys : R[k].state = "pending"}

\* Variant: what was delivered is known by its instant only.
Finalized_Suppressed(R, S) ==
    \E k \in Keys : R[k].state = "suppressed" /\ R[k].sources \cap S # {}

\* hasFinalizedSource
Finalized(R, S) ==
    \E k \in Keys : R[k].state \in {"delivered", "suppressed"} /\ R[k].sources \cap S # {}

\* putPending: a record under an older key of one of the sources gives way.
PutPending(R, P) ==
    LET puts == {o \in P : ~Finalized(R, o.sources)} IN
    [k \in Keys |->
        IF \E o \in puts : Key(o) = k
        THEN [state |-> "pending", since |-> 0,
              sources |-> (CHOOSE o \in puts : Key(o) = k).sources]
        ELSE IF k \in Pending(R) /\ \E o \in puts : o.sources \cap R[k].sources # {}
        THEN NoRecord ELSE R[k]]

Suppress(R, P, n) ==
    [k \in Keys |->
        IF \E o \in P : Key(o) = k /\ ~Finalized(R, o.sources)
        THEN [state |-> "suppressed", since |-> n,
              sources |-> (CHOOSE o \in P : Key(o) = k).sources]
        ELSE R[k]]

Close(R, keys, state, n) ==
    [k \in Keys |-> IF k \in keys \cap Pending(R)
                    THEN [R[k] EXCEPT !.state = state, !.since = n] ELSE R[k]]

Prune(R, n) ==
    [k \in Keys |-> IF k \notin Pending(R) /\ R[k].since + Retention < n
                    THEN NoRecord ELSE R[k]]

----------------------------------------------------------------------------
(* Sessions *)

NoOp      == [at |-> "none", now |-> 0, candidates |-> {}, items |-> {}, shown |-> {}]
NoRetry   == [at |-> 0, index |-> 1]
NoRetries == [persist |-> NoRetry, delivery |-> NoRetry]
NothingSeen == [told |-> {}, terminal |-> {}, reopened |-> [t \in Tasks |-> 0]]

Init ==
    /\ task = [t \in Tasks |-> "open"] /\ duplicate = {} /\ present = Sources
    /\ zone = 0 /\ focused \in BOOLEAN /\ now = 1
    /\ file = NoFile /\ life = "off"
    /\ occurrences = {} /\ ledger = EmptyLedger /\ written = NoFile /\ handled = {}
    /\ queue = <<>> /\ op = NoOp /\ awaited = 0 /\ timer = 0 /\ retry = NoRetries
    /\ seen = NothingSeen /\ saved = NothingSeen /\ left = Bounds

Subscribed == life \in {"running", "portClosed"}
Active     == Subscribed \/ life = "closing"

Enqueue(T) == queue' = Append(queue, T)

\* start: the ledger is loaded and everything is reconciled.  (With a ledger that
\* cannot be loaded a session has no reminders; it is left out.)
Start ==
    /\ life = "off" /\ left["sessions"] > 0
    /\ left' = [left EXCEPT !["sessions"] = @ - 1]
    /\ life' = "running" /\ written' = file
    /\ ledger' = IF file = NoFile THEN EmptyLedger ELSE file
    /\ Enqueue(Tasks)
    /\ UNCHANGED <<world, file, occurrences, handled, op, awaited, schedule, history>>

\* All that is in memory is gone, and with it what the file does not hold.
SessionEnds ==
    /\ life' = "off" /\ occurrences' = {} /\ ledger' = EmptyLedger /\ written' = NoFile
    /\ handled' = {} /\ queue' = <<>> /\ op' = NoOp /\ awaited' = 0
    /\ timer' = 0 /\ retry' = NoRetries /\ seen' = saved

Crash == Active /\ Spend("faults") /\ SessionEnds /\ UNCHANGED <<world, file, saved>>
Quit  == life = "destroyed" /\ SessionEnds /\ UNCHANGED <<world, file, saved, left>>

\* unloadPlugin: first the delivery controller, then the scheduler.
PortCloses ==
    /\ life = "running" /\ life' = "portClosed"
    /\ UNCHANGED <<world, file, memory, queue, op, awaited, schedule, history, left>>

\* destroy, up to its await of the reconciliations called so far.
DestroyBegins ==
    /\ life = "portClosed" /\ life' = "closing" /\ timer' = 0
    /\ awaited' = Len(queue) + (IF op = NoOp THEN 0 ELSE 1)
    /\ UNCHANGED <<world, file, memory, queue, op, retry, history, left>>

\* Variant: the timer that a reconciliation armed during the await is left.
TimerAfterDestroy_Kept == timer

TimerAfterDestroy == 0

\* ... and the rest; reconciliations called since find the scheduler destroyed.
DestroyEnds ==
    /\ life = "closing" /\ awaited = 0
    /\ life' = "destroyed" /\ timer' = TimerAfterDestroy /\ queue' = <<>>
    /\ UNCHANGED <<world, file, memory, op, awaited, retry, history, left>>

----------------------------------------------------------------------------
(* A reconciliation *)

NextDelay(r) == [at |-> op.now + Delays[r.index],
                 index |-> IF r.index < Len(Delays) THEN r.index + 1 ELSE r.index]

Least(a, b) == IF a < b THEN a ELSE b

\* Variant: retries have no timer of their own.
Awaits_Occurrences(n, retries) == {o.at : o \in {x \in occurrences : x.at > n}}

Awaits(n, retries) == {o.at : o \in {x \in occurrences : x.at > n}}
                      \cup ({retries.persist.at, retries.delivery.at} \ {0})

\* armNextTimer, for a reconciliation that began at n.
NextTimer(n, retries) ==
    LET times == Awaits(n, retries)
        next  == Min(times)
    IN  IF times = {} THEN 0
        ELSE now + Least(IF next > n THEN next - n ELSE 0, MaxDelay)

\* The reconciliation ends.
Finish(persist, delivery) ==
    LET retries == [persist |-> persist, delivery |-> delivery] IN
    /\ op' = NoOp /\ retry' = retries /\ timer' = NextTimer(op.now, retries)
    /\ awaited' = IF life = "closing" THEN awaited - 1 ELSE awaited

\* It goes on after the ledger was written.
GoesOn(next) == op' = next /\ retry' = [retry EXCEPT !.persist = NoRetry]
                /\ UNCHANGED <<awaited, timer>>

\* persistIfChanged
Saves ==
    /\ IF ledger = written THEN UNCHANGED <<file, written>> ELSE file' = ledger /\ written' = ledger
    /\ saved' = seen /\ UNCHANGED left

\* The write rejects, before or after it took effect.
SaveFails ==
    /\ Spend("faults") /\ UNCHANGED written
    /\ \/ file' = ledger /\ saved' = seen
       \/ UNCHANGED <<file, saved>>

\* reconcileTask: what becomes of the lifecycle of a task.
Lifecycle(t, n) ==
    LET old == ledger.lifecycles[t] IN
    CASE task[t] = "gone"                                -> NoLifecycle
      [] task[t] # "gone" /\ t \in duplicate             -> old
      [] task[t] # "gone" /\ t \notin duplicate /\ SourcesOf(t) = {} -> NoLifecycle
      [] OTHER -> IF task[t] = "terminal" /\ old.state # "terminal"
                  THEN [state |-> "terminal", cutoff |-> 0]
                  ELSE IF task[t] = "open" /\ old.state = "terminal"
                  THEN [state |-> "open", cutoff |-> n]
                  ELSE old

\* Variant: only occurrences of the past are suppressed, not those of now.
Missed_Before(o, T, n) ==
    o.task \in T /\ o.at < Lifecycle(o.task, n).cutoff

\* Occurrences up to the time at which their task was found reopened.
Missed(o, T, n) == o.task \in T /\ o.at <= Lifecycle(o.task, n).cutoff

\* What a reconciliation of the tasks T observes, for the properties.
Observed(T, n) ==
    LET judged == {t \in T : task[t] # "gone" /\ t \notin duplicate /\ SourcesOf(t) # {}}
        lost   == {t \in T : \/ task[t] = "gone"
                             \/ t \notin duplicate /\ SourcesOf(t) = {}}
        opened == {t \in judged : task[t] = "open" /\ t \in seen.terminal}
    IN  [seen EXCEPT
           !.terminal = (@ \ (lost \cup opened)) \cup {t \in judged : task[t] = "terminal"},
           !.reopened = [t \in Tasks |-> IF t \in lost THEN 0 ELSE IF t \in opened THEN n ELSE @[t]]]

\* reconcileAll, handleIndexReconciliation: up to the write of the ledger.
Reconcile ==
    /\ Active /\ op = NoOp /\ queue # <<>> /\ (life = "closing" => awaited > 0)
    /\ queue' = Tail(queue)
    /\ LET T == Head(queue)
           n == now
           all == {o \in occurrences : o.task \notin T} \cup UNION {Found(t) : t \in T \ duplicate}
           missed == {o \in all : Missed(o, T, n)}
           R == ledger.records
           held == {o \in all \ missed : Key(o) \in Pending(R) /\ Authoritative(o)}
           unheld == {k \in Pending(R) : ~\E o \in all : Key(o) = k /\ Authoritative(o)}
           stale == {Key(o) : o \in {x \in held : x.at <= n /\ ~Due(x, n)}}
           fresh == {o \in all \ missed :
                       /\ Due(o, n) /\ R[Key(o)].state \notin {"pending", "delivered", "suppressed"}
                       /\ ~Finalized(R, o.sources) /\ Authoritative(o)}
       IN  /\ occurrences' = all
           /\ ledger' =
                [records |-> Prune(Close(Suppress(PutPending(R, held \cup fresh), missed, n),
                                         unheld \cup stale, "expired", n), n),
                 lifecycles |-> [t \in Tasks |-> IF t \in T THEN Lifecycle(t, n)
                                                 ELSE ledger.lifecycles[t]]]
           /\ op' = [NoOp EXCEPT !.at = "persist", !.now = n,
                                 !.candidates = fresh \cup {o \in held : Due(o, n)}]
           /\ seen' = Observed(T, n)
    /\ UNCHANGED <<world, file, life, written, handled, awaited, schedule, saved, left>>

PersistReconciled ==
    /\ op.at = "persist"
    /\ \/ Saves /\ GoesOn([op EXCEPT !.at = "automate"])
       \/ SaveFails /\ Finish(NextDelay(retry.persist), retry.delivery)
    /\ UNCHANGED <<world, life, occurrences, ledger, handled, queue, seen>>

\* onDueTasks, for the tasks of occurrences not handled in this session.
Automate ==
    /\ op.at = "automate" /\ op' = [op EXCEPT !.at = "deliver"]
    /\ LET due == {Key(o) : o \in {c \in op.candidates : Key(c) \notin handled /\ Authoritative(c)}}
       IN  \/ handled' = handled \cup due /\ UNCHANGED left
           \/ due # {} /\ Spend("faults") /\ UNCHANGED handled
    /\ UNCHANGED <<world, file, life, occurrences, ledger, written, queue, awaited, schedule, history>>

\* deliverBatch begins: a notice if a window is in front, else a system
\* notification where they are enabled; otherwise delivery is deferred.
Submit(items) ==
    \E channel \in {"notice", "system", "deferred", "closed"} :
        /\ (life # "running") = (channel = "closed")
        /\ life = "running" => focused = (channel = "notice")
        /\ op' = [op EXCEPT !.at = channel, !.items = items,
                            !.shown = IF channel \in {"notice", "system"} THEN items ELSE {}]
        /\ UNCHANGED <<awaited, timer>>

\* deliverPending
SelectDue ==
    /\ op.at = "deliver"
    /\ LET R       == ledger.records
           live    == {o \in occurrences : Key(o) \in Pending(R) /\ Authoritative(o)}
           items   == {o \in live : Due(o, op.now)}
           expired == (Pending(R) \ {Key(o) : o \in live})
                      \cup {Key(o) : o \in {x \in live \ items : x.at <= op.now}}
       IN  IF expired # {}
           THEN /\ ledger' = [ledger EXCEPT !.records = Close(@, expired, "expired", op.now)]
                /\ op' = [op EXCEPT !.at = "persistExpired", !.items = items]
                /\ UNCHANGED <<awaited, schedule>>
           ELSE /\ IF items = {} THEN Finish(retry.persist, NoRetry)
                   ELSE Submit(items) /\ UNCHANGED retry
                /\ UNCHANGED ledger
    /\ UNCHANGED <<world, file, life, occurrences, written, handled, queue, history, left>>

\* What was found due before the write is delivered after it.
PersistExpired ==
    /\ op.at = "persistExpired"
    /\ \/ /\ Saves
          /\ IF op.items = {} THEN Finish(NoRetry, NoRetry)
             ELSE Submit(op.items) /\ retry' = [retry EXCEPT !.persist = NoRetry]
       \/ SaveFails /\ Finish(NextDelay(retry.persist), retry.delivery)
    /\ UNCHANGED <<world, life, occurrences, ledger, handled, queue, seen>>

\* Variant: a delivery that failed waits for a wake.
AfterDelivery_NoRetry(failed) == NoRetry

AfterDelivery(failed) == IF failed THEN NextDelay(retry.delivery) ELSE NoRetry

\* A port that closes takes back what no event has acknowledged.
Unacknowledged == op.at = "system" /\ life # "running"

\* The port answers: some were shown, the others failed or were deferred; what is
\* neither delivered nor deferred is to be retried.
PortAnswers ==
    /\ op.at \in {"notice", "system", "deferred", "closed"}
    /\ \E told \in SUBSET op.shown :
         /\ IF told = op.shown \/ Unacknowledged THEN UNCHANGED left ELSE Spend("faults")
         /\ LET failed == told # op.items /\ op.at # "deferred" IN
            IF told = {} THEN Finish(retry.persist, AfterDelivery(failed)) /\ UNCHANGED <<ledger, seen>>
            ELSE /\ ledger' = [ledger EXCEPT !.records =
                                 Close(@, {Key(o) : o \in told}, "delivered", op.now)]
                 /\ seen' = [seen EXCEPT !.told = @ \cup UNION {o.sources : o \in told}]
                 /\ op' = [op EXCEPT !.at = IF failed THEN "persistSome" ELSE "persistAll"]
                 /\ UNCHANGED <<awaited, schedule>>
    /\ UNCHANGED <<world, file, life, occurrences, written, handled, queue, saved>>

PersistDelivered ==
    /\ op.at \in {"persistSome", "persistAll"}
    /\ \/ Saves /\ Finish(NoRetry, AfterDelivery(op.at = "persistSome"))
       \/ SaveFails /\ Finish(NextDelay(retry.persist), AfterDelivery(op.at = "persistSome"))
    /\ UNCHANGED <<world, life, occurrences, ledger, handled, queue, seen>>

----------------------------------------------------------------------------
(* The timer, the window, the index *)

Room == Len(queue) < MaxQueue

TimerFires ==
    /\ Active /\ timer # 0 /\ timer <= now /\ Room
    /\ timer' = 0 /\ Enqueue(Tasks)
    /\ UNCHANGED <<world, file, life, memory, op, awaited, retry, history, left>>

Tick ==
    /\ now < MaxTime /\ now' = now + 1
    /\ UNCHANGED <<task, duplicate, present, zone, focused, file, life, memory, queue, op, awaited,
                   schedule, history, left>>

\* Variant: a window that comes to the front wakes nobody.
WakeEnqueues_Not == UNCHANGED queue

WakeEnqueues == IF Subscribed THEN Enqueue(Tasks) ELSE UNCHANGED queue

\* handleWake
FocusChanges ==
    /\ Spend("wakes") /\ Room /\ focused' = ~focused
    /\ IF focused' THEN WakeEnqueues ELSE UNCHANGED queue
    /\ UNCHANGED <<task, duplicate, present, zone, now, file, life, memory, op, awaited, schedule,
                   history>>

ZoneChanges ==
    /\ Spend("zones") /\ zone' = 1 - zone
    /\ UNCHANGED <<task, duplicate, present, focused, now, file, life, memory, queue, op, awaited,
                   schedule, history>>

\* The indexer tells its subscribers of every change of a task.
TaskChanges(t) ==
    /\ Spend("edits") /\ Room
    /\ \/ /\ \E to \in {"open", "terminal", "gone"} \ {task[t]} : task' = [task EXCEPT ![t] = to]
          /\ UNCHANGED <<duplicate, present>>
       \/ /\ duplicate' = IF t \in duplicate THEN duplicate \ {t} ELSE duplicate \cup {t}
          /\ UNCHANGED <<task, present>>
       \/ /\ \E s \in Sources : Owner[s] = t
                /\ present' = IF s \in present THEN present \ {s} ELSE present \cup {s}
          /\ UNCHANGED <<task, duplicate>>
    /\ IF Subscribed THEN Enqueue({t}) ELSE UNCHANGED queue
    /\ UNCHANGED <<zone, focused, now, file, life, memory, op, awaited, schedule, history>>

OpStep == \/ Reconcile \/ PersistReconciled \/ Automate \/ SelectDue \/ PersistExpired
          \/ PortAnswers \/ PersistDelivered

Next ==
    \/ OpStep \/ Start \/ Crash \/ Quit \/ PortCloses \/ DestroyBegins \/ DestroyEnds
    \/ TimerFires \/ Tick \/ FocusChanges \/ ZoneChanges \/ \E t \in Tasks : TaskChanges(t)

Spec == Init /\ [][Next]_vars

\* Promises settle and timers fire; the clock may stop.
Fairness == WF_vars(OpStep) /\ WF_vars(TimerFires) /\ WF_vars(DestroyEnds)
FairSpec == Spec /\ Fairness

----------------------------------------------------------------------------
(* Properties *)

Shows == {o \in op'.shown : op.shown = {}}

TypeOK ==
    /\ task \in [Tasks -> {"open", "terminal", "gone"}]
    /\ duplicate \subseteq Tasks /\ present \subseteq Sources /\ now \in 1 .. MaxTime
    /\ \A o \in occurrences : Key(o) \in Keys /\ o.sources \subseteq Sources
    /\ ledger \in Ledgers /\ file \in Ledgers \cup {NoFile}
    /\ queue \in Seq(SUBSET Tasks) /\ Len(queue) <= MaxQueue + 1
    /\ awaited \in 0 .. MaxQueue + 1 /\ timer \in Nat
    /\ \A what \in {"persist", "delivery"} :
         retry[what].at \in Nat /\ retry[what].index \in DOMAIN Delays

\* No other reminder of its task can fall on an instant of this one, whatever the zone.
Apart(s) == \A y \in Sources : y # s /\ Owner[y] = Owner[s]
                => Local[y] + 1 < Local[s] \/ Local[s] + 1 < Local[y]

\* A reminder that was shown is not shown again, in this session, after a
\* restart that finds the ledger written since, or under another instant of the
\* same local time: "delivered-marker write failure does not duplicate the
\* visible reminder in-session" (scripts/reminder-scheduler.test.ts).  It may
\* be if another reminder of its task can meet it: a record is found by its instant.
ToldOnce == [][\A o \in Shows : \A s \in o.sources : Apart(s) => s \notin seen.told]_vars

\* "Reopening a task does not replay what you missed." (DOCS-116 Reminders.md:107)
\* Once a reconciliation has seen the task completed and a later one has seen it
\* open, nothing that was due by then is shown, also after a restart.  It may be
\* if another reminder of the task can meet it: suppressing that one at an instant
\* at which this one was delivered takes the place of its record.
ReopenedSilent ==
    [][\A o \in Shows : \A s \in o.sources : Apart(s) => o.at > seen.reopened[o.task]]_vars

Quiet == life = "running" /\ op = NoOp /\ queue = <<>>

\* At rest, the timer is armed for whatever has still to come: the next
\* occurrence, a ledger that is not written, a notification that failed.
NothingStranded ==
    Quiet /\ (\/ \E o \in occurrences : o.at > now
              \/ ledger # written
              \/ retry.delivery.at # 0) => timer # 0

\* A destroyed scheduler has no timer and no reconciliation, and writes nothing.
DestroyedIsQuiet == life = "destroyed" => timer = 0 /\ op = NoOp

\* "The reminder is held rather than lost, and is delivered once Operon is back in
\* front of you" (DOCS-116 Reminders.md:117): what is due while a window is in
\* front is shown, as long as it stays due, or a timer that is yet to fire looks at
\* it again: that of a retry, or one armed by a reconciliation that was slow.
HeldNotLost ==
    \A s \in Sources :
        (life = "running" /\ focused /\ \E o \in occurrences : s \in o.sources /\ Due(o, now)
                                                      /\ Authoritative(o))
        ~> \/ s \in seen.told \/ timer > now \/ life # "running" \/ ~focused
           \/ ~\E o \in occurrences : s \in o.sources /\ Due(o, now) /\ Authoritative(o)
           \/ Finalized(ledger.records, {s})
=============================================================================
