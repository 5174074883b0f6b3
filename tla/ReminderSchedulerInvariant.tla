----------------------- MODULE ReminderSchedulerInvariant -----------------------
(***************************************************************************)
(* The inductive invariant of ReminderScheduler: what the life of the      *)
(* scheduler, the running reconciliation, the ledger, the retries and the  *)
(* timer know of each other.                                               *)
(***************************************************************************)
EXTENDS ReminderScheduler

Occurrences == [task : Tasks, at : Times, sources : SUBSET Sources]
Retries     == [at : Nat, index : DOMAIN Delays]

\* The places of a reconciliation whose ledger is written, and those at which it
\* awaits a write.
Settled  == {"automate", "deliver", "notice", "system", "deferred", "closed"}
Unsaved  == {"persist", "persistExpired", "persistSome", "persistAll"}
Batches  == SUBSET Occurrences
Ops      == [at : {"none"} \cup Settled \cup Unsaved, now : Nat,
             candidates : Batches, items : Batches, shown : Batches]

Typed ==
    /\ task \in [Tasks -> {"open", "terminal", "gone"}]
    /\ duplicate \subseteq Tasks /\ present \subseteq Sources /\ zone \in {0, 1}
    /\ now \in 1 .. MaxTime /\ occurrences \subseteq Occurrences
    /\ life \in {"off", "running", "portClosed", "closing", "destroyed"}
    /\ ledger \in Ledgers /\ file \in Ledgers \cup {NoFile}
    /\ queue \in Seq(SUBSET Tasks) /\ Len(queue) <= MaxQueue
    /\ op \in Ops /\ awaited \in 0 .. MaxQueue + 1 /\ timer \in Nat
    /\ retry \in [persist : Retries, delivery : Retries]

\* A session that is over holds nothing, and destroy awaits the reconciliation that runs.
LifeInv ==
    /\ op = NoOp <=> op.at = "none"
    /\ op.now <= now
    /\ life \in {"off", "destroyed"} => queue = <<>> /\ timer = 0 /\ op = NoOp
    /\ life = "closing" /\ op # NoOp => awaited > 0

\* Behind its writes a reconciliation has nothing to write; between two of them
\* a ledger that is not written has a retry.
LedgerInv ==
    /\ op.at \in Settled => ledger = written
    /\ Quiet => ledger = written \/ retry.persist.at # 0

\* At rest the timer looks after what is to come and what is to be retried.
TimerInv == Quiet /\ Awaits(now, retry) # {} => timer # 0

ReminderInv == Typed /\ LifeInv /\ LedgerInv /\ TimerInv

----------------------------------------------------------------------------
(* What the ledger knows of a reminder that no other one can meet. *)

KeysOf(s) == {<<Owner[s], Local[s]>>, <<Owner[s], Local[s] + 1>>}

\* Its occurrences are its own, and one at a time.
OwnOccurrences(O, s) ==
    /\ \A o \in O : IF s \in o.sources THEN Key(o) \in KeysOf(s) ELSE Key(o) \notin KeysOf(s)
    /\ \A o \in O : s \in o.sources => o.sources = {s}
OneOccurrence(O, s) == \A o, p \in O : s \in o.sources /\ s \in p.sources => o = p

\* So are its records.  While one is pending, it has no other that is pending or delivered.
OwnRecords(R, s) ==
    /\ \A k \in Keys : s \in R[k].sources => k \in KeysOf(s)
    /\ \A k \in KeysOf(s) : R[k].state # "none" => R[k].sources = {s}
    /\ \A k \in Keys : s \in R[k].sources /\ R[k].state = "delivered" => Local[s] <= R[k].since
    /\ \A k, l \in Keys :
         (/\ s \in R[k].sources /\ R[k].state = "pending"
          /\ s \in R[l].sources /\ R[l].state \in {"pending", "delivered"}) => k = l

Marked(R, s) == \E k \in Keys : s \in R[k].sources /\ R[k].state = "delivered"

\* The time that a reconciliation goes by; behind its last instant a reminder is not due.
Clock   == IF op = NoOp THEN now ELSE op.now
Over(s) == Local[s] + 1 + Window < Clock

\* The file, and what was last written of it, as far as they are known.
OnFile(s)  == file # NoFile /\ Marked(file.records, s)
Written(s) == written # NoFile /\ Marked(written.records, s)

\* What was selected is pending until the port has answered.
Early    == {"persist", "automate", "deliver"}
Selected == {"persistExpired", "notice", "system", "deferred", "closed"}
ItemsInv ==
    /\ op.shown \subseteq op.items
    /\ op.at \in Early => op.items = {}
    /\ op.at \in Selected => \A o \in op.items : Key(o) \in Pending(ledger.records) /\ Due(o, op.now)

\* So nothing of it was told.
SelectionIsNew ==
    op.at \in Selected => \A o \in op.items : \A s \in o.sources : Apart(s) => s \notin seen.told

Histories == [told : SUBSET Sources, terminal : SUBSET Tasks, reopened : [Tasks -> Nat]]

\* What was told is marked in the ledger, and in the file as far as that was
\* written; a mark is taken away only when the reminder is over.
MarksInv(s) ==
    /\ life = "off" => seen = saved /\ written = NoFile
    /\ life # "off" /\ s \in seen.told => Marked(ledger.records, s) \/ Over(s)
    /\ s \in saved.told => OnFile(s) \/ Over(s)
    /\ Written(s) => OnFile(s) \/ Over(s)
    /\ Written(s) => Marked(ledger.records, s) \/ Over(s)

OwnInv(s) ==
    /\ OwnOccurrences(occurrences, s) /\ OneOccurrence(occurrences, s)
    /\ OwnOccurrences(op.items, s)
    /\ OwnRecords(ledger.records, s) /\ (file # NoFile => OwnRecords(file.records, s))

ToldInv ==
    /\ seen \in Histories /\ saved \in Histories /\ ItemsInv
    /\ \A s \in Sources : Apart(s) => OwnInv(s) /\ MarksInv(s)

----------------------------------------------------------------------------
(* What the ledger knows of a task that was completed and opened again. *)

FileLedger == IF file = NoFile THEN EmptyLedger ELSE file

\* The lifecycles tell what the reconciliations observed.
Follows(X, L) ==
    \A t \in Tasks :
        /\ t \in X.terminal <=> L[t].state = "terminal"
        /\ L[t].state # "terminal" => X.reopened[t] <= L[t].cutoff
        /\ L[t].cutoff <= now

LifecycleInv ==
    /\ Follows(saved, FileLedger.lifecycles)
    /\ IF life = "off" THEN seen = saved /\ occurrences = {}
       ELSE Follows(seen, ledger.lifecycles)
    /\ \A o \in occurrences : ledger.lifecycles[o.task].state # "terminal"

\* Of an open task nothing waits that was due by its last reopening, of a
\* completed one nothing waits; a suppressed record is not dropped before the
\* reminder can no longer be caught up with.
LateOnly(D, s) ==
    \A k \in KeysOf(s) \cap Pending(D.records) :
        /\ D.lifecycles[Owner[s]].state # "terminal"
        /\ D.lifecycles[Owner[s]].cutoff < k[2]
SuppressedSince(R, s) ==
    \A k \in Keys : s \in R[k].sources /\ R[k].state = "suppressed" => Local[s] <= R[k].since

\* What was due by then is closed for good, or out of the window.
Silenced(s) ==
    \A o \in occurrences :
        s \in o.sources /\ o.at <= ledger.lifecycles[o.task].cutoff
            => Finalized(ledger.records, {s}) \/ o.at + Window < now

ReopenInv ==
    /\ LifecycleInv
    /\ \A s \in Sources : Apart(s) =>
         /\ LateOnly(ledger, s) /\ LateOnly(FileLedger, s)
         /\ SuppressedSince(ledger.records, s) /\ SuppressedSince(FileLedger.records, s)
         /\ Silenced(s)

\* A ledger that equals what was written last, and so is not written again, has
\* its lifecycles on file.  Only a write that rejected after it took effect,
\* followed by a ledger that returns to the one written before, says otherwise; in
\* the code a lifecycle carries the time of its observation and does not return.
WrittenIsOnFile ==
    op.at \in Unsaved /\ ledger = written => file # NoFile /\ file.lifecycles = ledger.lifecycles

\* A write that rejects has left the file as it was.
RejectedIsUndone == [][file' # file => written' = file']_vars
=============================================================================
