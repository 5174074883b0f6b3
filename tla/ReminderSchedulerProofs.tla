------------------------ MODULE ReminderSchedulerProofs ------------------------
(***************************************************************************)
(* The safety of ReminderScheduler, for any tasks, reminders, delays and   *)
(* bounds.                                                                 *)
(***************************************************************************)
EXTENDS ReminderSchedulerInvariant, SequenceTheorems, WellFoundedInduction, TLAPS

----------------------------------------------------------------------------
(* Times *)

LEMMA LeastIsNatural == \A a, b \in Nat : Least(a, b) \in Nat
  BY DEF Least

LEMMA MinIsThere == ASSUME NEW S \in SUBSET Nat, S # {} PROVE Min(S) \in S
<1> DEFINE Before == {p \in Nat \X Nat : p[1] < p[2]}
<1>1. IsWellFoundedOn(Before, Nat)
  BY NatLessThanWellFounded, Zenon DEF OpToRel
<1>2. \E x \in S : \A y \in S : <<y, x>> \notin Before
  <2> HIDE DEF Before
  <2> QED
    BY <1>1, WFMin
<1>3. PICK x \in S : \A y \in S : <<y, x>> \notin Before
  BY <1>2
<1>4. \A y \in S : x =< y
  <2>1. SUFFICES ASSUME NEW y \in S PROVE ~ (y < x)
    BY DEF Before
  <2>2. <<y, x>> \notin Before
    BY <1>3
  <2> QED
    BY <2>2
<1> QED
  BY <1>4 DEF Min

LEMMA AwaitsTimes ==
    ASSUME Typed, NEW n \in Nat, NEW retries \in [persist : Retries, delivery : Retries]
    PROVE  Awaits(n, retries) \in SUBSET Nat
  BY BoundAssumption DEF Typed, Awaits, Occurrences, Times, Retries

\* What is awaited has a timer.
LEMMA TimerIsArmed ==
    ASSUME Typed, NEW n \in Nat, NEW retries \in [persist : Retries, delivery : Retries]
    PROVE  /\ NextTimer(n, retries) \in Nat
           /\ Awaits(n, retries) # {} => NextTimer(n, retries) # 0
<1> DEFINE times == Awaits(n, retries)
           wait  == IF Min(times) > n THEN Min(times) - n ELSE 0
<1>1. now \in Nat /\ now > 0 /\ MaxDelay \in Nat
  BY DelayAssumption, BoundAssumption DEF Typed
<1>2. CASE times = {}
  BY <1>2 DEF NextTimer
<1>3. CASE times # {}
  <2>1. Min(times) \in Nat
    BY <1>3, AwaitsTimes, MinIsThere
  <2>2. wait \in Nat
    BY <2>1
  <2>3. Least(wait, MaxDelay) \in Nat
    BY <1>1, <2>2, LeastIsNatural
  <2>4. NextTimer(n, retries) = now + Least(wait, MaxDelay)
    BY <1>3 DEF NextTimer
  <2> HIDE DEF wait, times
  <2> QED
    BY <1>1, <2>3, <2>4
<1> QED
  BY <1>2, <1>3

\* What is awaited now was awaited when the reconciliation began.
LEMMA AwaitedSince ==
    ASSUME Typed, NEW n \in Nat, n <= now, NEW retries, Awaits(now, retries) # {}
    PROVE  Awaits(n, retries) # {}
<1>1. \A o \in occurrences : o.at \in Nat
  BY BoundAssumption DEF Typed, Occurrences, Times
<1>2. now \in Nat
  BY BoundAssumption DEF Typed
<1> QED
  BY <1>1, <1>2 DEF Awaits

LEMMA DelaysAreRetries ==
    ASSUME Typed, NEW r \in Retries
    PROVE  NextDelay(r) \in Retries /\ NextDelay(r).at # 0
<1>1. op.now \in Nat /\ r.index \in 1 .. Len(Delays) /\ Len(Delays) \in Nat
  BY DelayAssumption DEF Typed, Ops, Retries
<1>2. Delays[r.index] \in Nat \ {0}
  BY <1>1, DelayAssumption
<1>3. DOMAIN Delays = 1 .. Len(Delays)
  BY DelayAssumption
<1>4. /\ NextDelay(r).at \in Nat /\ NextDelay(r).at # 0
      /\ NextDelay(r).index \in 1 .. Len(Delays)
  BY <1>1, <1>2 DEF NextDelay
<1>5. NextDelay(r) = [at |-> NextDelay(r).at, index |-> NextDelay(r).index]
  BY DEF NextDelay
<1> QED
  BY <1>3, <1>4, <1>5 DEF Retries

LEMMA NoRetryTyped == NoRetry \in Retries /\ NoRetries \in [persist : Retries, delivery : Retries]
<1>1. 1 \in DOMAIN Delays
  BY DelayAssumption, EmptySeq
<1>2. NoRetry \in Retries
  BY <1>1 DEF NoRetry, Retries
<1> QED
  BY <1>2 DEF NoRetries

----------------------------------------------------------------------------
(* The occurrences and the ledger *)

LEMMA FoundTyped == ASSUME Typed, NEW t \in Tasks PROVE Found(t) \subseteq Occurrences
<1>1. \A s \in Sources : Epoch(s) \in Times
  BY SourceAssumption, BoundAssumption DEF Typed, Epoch, Times
<1>2. SourcesOf(t) \subseteq Sources
  BY DEF Typed, SourcesOf
<1> QED
  BY <1>1, <1>2 DEF Found, Occurrences

LEMMA KeysTyped == \A o \in Occurrences : Key(o) \in Keys
  BY DEF Occurrences, Key, Keys

LEMMA EmptyLedgerTyped == EmptyLedger \in Ledgers
<1>1. NoRecord \in Records
  BY DEF NoRecord, Records, States
<1>2. NoLifecycle \in Lifecycles
  BY DEF NoLifecycle, Lifecycles
<1> QED
  BY <1>1, <1>2 DEF EmptyLedger, Ledgers

LEMMA PutPendingTyped ==
    ASSUME NEW R \in [Keys -> Records], NEW P \in SUBSET Occurrences
    PROVE  PutPending(R, P) \in [Keys -> Records]
<1> DEFINE puts == {o \in P : ~Finalized(R, o.sources)}
           Of(k) == CHOOSE o \in puts : Key(o) = k
           Put(k) == [state |-> "pending", since |-> 0, sources |-> Of(k).sources]
<1>1. ASSUME NEW k \in Keys, \E o \in puts : Key(o) = k PROVE Put(k) \in Records
  <2>1. Of(k) \in puts
    BY <1>1
  <2>2. Of(k).sources \in SUBSET Sources
    BY <2>1 DEF Occurrences
  <2> HIDE DEF Of
  <2> QED
    BY <2>2 DEF Records, States
<1>2. NoRecord \in Records
  BY DEF NoRecord, Records, States
<1>3. PutPending(R, P) =
        [k \in Keys |->
          IF \E o \in puts : Key(o) = k THEN Put(k)
          ELSE IF k \in Pending(R) /\ \E o \in puts : o.sources \cap R[k].sources # {}
          THEN NoRecord ELSE R[k]]
  BY DEF PutPending
<1> HIDE DEF Put, puts
<1> QED
  BY <1>1, <1>2, <1>3

LEMMA SuppressTyped ==
    ASSUME NEW R \in [Keys -> Records], NEW P \in SUBSET Occurrences, NEW n \in Nat
    PROVE  Suppress(R, P, n) \in [Keys -> Records]
<1> DEFINE Put(k) == [state |-> "suppressed", since |-> n,
                      sources |-> (CHOOSE o \in P : Key(o) = k).sources]
<1>1. ASSUME NEW k \in Keys, \E o \in P : Key(o) = k /\ ~Finalized(R, o.sources)
      PROVE  Put(k) \in Records
  <2>1. (CHOOSE o \in P : Key(o) = k) \in P
    BY <1>1
  <2>2. (CHOOSE o \in P : Key(o) = k).sources \in SUBSET Sources
    BY <2>1 DEF Occurrences
  <2> QED
    BY <2>2 DEF Records, States
<1>2. Suppress(R, P, n) =
        [k \in Keys |-> IF \E o \in P : Key(o) = k /\ ~Finalized(R, o.sources)
                        THEN Put(k) ELSE R[k]]
  BY DEF Suppress
<1> HIDE DEF Put
<1> QED
  BY <1>1, <1>2

LEMMA CloseTyped ==
    ASSUME NEW R \in [Keys -> Records], NEW keys, NEW state \in States, NEW n \in Nat
    PROVE  Close(R, keys, state, n) \in [Keys -> Records]
<1>1. \A k \in Keys : [R[k] EXCEPT !.state = state, !.since = n] \in Records
  BY DEF Records
<1> QED
  BY <1>1 DEF Close

LEMMA PruneTyped ==
    ASSUME NEW R \in [Keys -> Records], NEW n \in Nat
    PROVE  Prune(R, n) \in [Keys -> Records]
<1>1. NoRecord \in Records
  BY DEF NoRecord, Records, States
<1> QED
  BY <1>1 DEF Prune

LEMMA LifecycleTyped ==
    ASSUME Typed, NEW t \in Tasks, NEW n \in Nat
    PROVE  Lifecycle(t, n) \in Lifecycles
<1>1. ledger.lifecycles[t] \in Lifecycles
  BY DEF Typed, Ledgers
<1>2. /\ NoLifecycle \in Lifecycles
      /\ [state |-> "terminal", cutoff |-> 0] \in Lifecycles
      /\ [state |-> "open", cutoff |-> n] \in Lifecycles
  BY DEF NoLifecycle, Lifecycles
<1> QED
  BY <1>1, <1>2 DEF Lifecycle

----------------------------------------------------------------------------
(* How a reconciliation goes on, and how it ends *)

LEMMA NoOpTyped == NoOp \in Ops /\ NoOp.at = "none" /\ NoOp.now = 0
  BY DEF NoOp, Ops, Batches

LEMMA OpRuns == ASSUME LifeInv, op.at # "none" PROVE op # NoOp
  BY DEF LifeInv

LEMMA FinishKeeps ==
    ASSUME ReminderInv, op # NoOp, NEW persist \in Retries, NEW delivery \in Retries,
           Finish(persist, delivery), ledger' \in Ledgers, file' \in Ledgers \cup {NoFile},
           UNCHANGED <<world, life, occurrences, queue>>,
           ledger' = written' \/ persist.at # 0
    PROVE  ReminderInv'
<1> DEFINE retries == [persist |-> persist, delivery |-> delivery]
<1>1. retries \in [persist : Retries, delivery : Retries]
  OBVIOUS
<1>2. op.now \in Nat /\ op.now <= now /\ now \in Nat
  BY BoundAssumption DEF ReminderInv, LifeInv, Typed, Ops
<1>3. /\ op' = NoOp /\ retry' = retries /\ timer' = NextTimer(op.now, retries)
      /\ awaited' = IF life = "closing" THEN awaited - 1 ELSE awaited
  BY DEF Finish
<1> HIDE DEF retries
<1>4. timer' \in Nat /\ (Awaits(op.now, retries) # {} => timer' # 0)
  BY <1>1, <1>2, <1>3, TimerIsArmed DEF ReminderInv
<1>5. life = "closing" => awaited > 0
  BY DEF ReminderInv, LifeInv
<1>6. awaited' \in 0 .. MaxQueue + 1
  BY <1>3, <1>5, BoundAssumption DEF ReminderInv, Typed
<1>7. Typed'
  BY <1>1, <1>3, <1>4, <1>6, NoOpTyped DEF ReminderInv, Typed, world
<1>8. life \notin {"off", "destroyed"}
  BY DEF ReminderInv, LifeInv
<1>9. LifeInv'
  BY <1>2, <1>3, <1>8, NoOpTyped DEF LifeInv, world
<1>10. LedgerInv'
  <2>1. retry'.persist.at = persist.at
    BY <1>3 DEF retries
  <2> QED
    BY <1>3, <2>1, NoOpTyped DEF LedgerInv, Settled
<1>11. TimerInv'
  <2>1. Awaits(now, retry)' = Awaits(now, retries)
    BY <1>3 DEF Awaits, world
  <2>2. Awaits(now, retries) # {} => timer' # 0
    BY <1>2, <1>4, AwaitedSince DEF ReminderInv
  <2> QED
    BY <2>1, <2>2 DEF TimerInv
<1> QED
  BY <1>7, <1>9, <1>10, <1>11 DEF ReminderInv

LEMMA GoOnKeeps ==
    ASSUME ReminderInv, op # NoOp, op' \in Ops, op'.at # "none", op'.now = op.now,
           op'.at \in Settled => ledger' = written', UNCHANGED <<world, life, occurrences, queue>>,
           ledger' \in Ledgers, file' \in Ledgers \cup {NoFile},
           retry' \in [persist : Retries, delivery : Retries], UNCHANGED <<awaited, timer>>
    PROVE  ReminderInv'
<1>1. op' # NoOp
  BY NoOpTyped
<1>2. Typed'
  BY DEF ReminderInv, Typed, world
<1>3. LifeInv'
  BY <1>1 DEF ReminderInv, LifeInv, world
<1>4. LedgerInv' /\ TimerInv'
  BY <1>1 DEF LedgerInv, TimerInv, Quiet
<1> QED
  BY <1>2, <1>3, <1>4 DEF ReminderInv

----------------------------------------------------------------------------
(* The reconciliation *)

LEMMA ReconcileKeeps == ReminderInv /\ Reconcile => ReminderInv'
<1> SUFFICES ASSUME ReminderInv, Reconcile PROVE ReminderInv'
  OBVIOUS
<1> DEFINE T == Head(queue)
           n == now
           all == {o \in occurrences : o.task \notin T} \cup UNION {Found(t) : t \in T \ duplicate}
           missed == {o \in all : Missed(o, T, n)}
           R == ledger.records
           held == {o \in all \ missed : Key(o) \in Pending(R) /\ Authoritative(o)}
           unheld == {k \in Pending(R) : ~\E o \in all : Key(o) = k /\ Authoritative(o)}
           stale == {Key(o) : o \in {x \in held : x.at <= n /\ ~Due(x, n)}}
           fresh == {o \in all \ missed :
                       /\ Due(o, n) /\ R[Key(o)].state \notin {"pending", "delivered", "suppressed"}
                       /\ ~Finalized(R, o.sources) /\ Authoritative(o)}
           cycles == [t \in Tasks |-> IF t \in T THEN Lifecycle(t, n) ELSE ledger.lifecycles[t]]
           put == PutPending(R, held \cup fresh)
           suppressed == Suppress(put, missed, n)
           closed == Close(suppressed, unheld \cup stale, "expired", n)
<1>1. Typed /\ LifeInv /\ Active /\ op = NoOp /\ queue # <<>> /\ n \in Nat
  BY BoundAssumption DEF ReminderInv, Reconcile, Typed
<1>2. /\ queue' = Tail(queue) /\ occurrences' = all
      /\ ledger' = [records |-> Prune(closed, n), lifecycles |-> cycles]
      /\ op' = [NoOp EXCEPT !.at = "persist", !.now = n,
                            !.candidates = fresh \cup {o \in held : Due(o, n)}]
      /\ UNCHANGED <<world, file, life, written, awaited, schedule>>
      /\ life = "closing" => awaited > 0
  BY DEF Reconcile
<1>3. T \subseteq Tasks /\ queue' \in Seq(SUBSET Tasks) /\ Len(queue') <= MaxQueue
  BY <1>1, <1>2, HeadTailProperties, BoundAssumption DEF Typed
<1>4. all \subseteq Occurrences
  BY <1>1, <1>3, FoundTyped DEF Typed
<1>5. held \subseteq Occurrences /\ fresh \subseteq Occurrences /\ missed \subseteq Occurrences
  BY <1>4
<1>6. R \in [Keys -> Records] /\ ledger.lifecycles \in [Tasks -> Lifecycles]
  BY <1>1 DEF Typed, Ledgers
<1>7. cycles \in [Tasks -> Lifecycles]
  BY <1>1, <1>6, LifecycleTyped
<1>8. "expired" \in States
  BY DEF States
<1> HIDE DEF T, n, all, missed, R, held, fresh, unheld, stale, cycles
<1>9. put \in [Keys -> Records]
  BY <1>5, <1>6, PutPendingTyped
<1>10. suppressed \in [Keys -> Records]
  <2> HIDE DEF put
  <2> QED
    BY <1>1, <1>5, <1>9, SuppressTyped
<1>11. closed \in [Keys -> Records]
  <2> HIDE DEF suppressed
  <2> QED
    BY <1>1, <1>8, <1>10, CloseTyped
<1>12. Prune(closed, n) \in [Keys -> Records]
  <2> HIDE DEF closed
  <2> QED
    BY <1>1, <1>11, PruneTyped
<1> HIDE DEF closed
<1>13. ledger' \in Ledgers
  BY <1>2, <1>7, <1>12 DEF Ledgers
<1>14. op' \in Ops /\ op'.at = "persist" /\ op'.now = n
  <2>1. fresh \cup {o \in held : Due(o, n)} \in Batches
    BY <1>5 DEF Batches
  <2> QED
    BY <1>1, <1>2, <2>1 DEF NoOp, Ops, Unsaved, Batches
<1>15. op' # NoOp
  BY <1>14, NoOpTyped
<1>16. Typed'
  BY <1>1, <1>2, <1>3, <1>4, <1>13, <1>14 DEF Typed, world, schedule
<1>17. LifeInv'
  BY <1>1, <1>2, <1>14, <1>15 DEF LifeInv, Active, Subscribed, n, world
<1>18. LedgerInv' /\ TimerInv'
  BY <1>14, <1>15 DEF LedgerInv, TimerInv, Quiet, Settled
<1> QED
  BY <1>16, <1>17, <1>18 DEF ReminderInv

\* A write of the ledger, whether it succeeds or not.
LEMMA WritesTyped ==
    ASSUME Typed, Saves \/ SaveFails, UNCHANGED ledger
    PROVE  ledger' \in Ledgers /\ file' \in Ledgers \cup {NoFile} /\ (Saves => ledger' = written')
<1>1. ledger \in Ledgers /\ file \in Ledgers \cup {NoFile}
  BY DEF Typed
<1> QED
  BY <1>1 DEF Saves, SaveFails

LEMMA RetriesTyped ==
    ASSUME Typed
    PROVE  /\ retry.persist \in Retries /\ retry.delivery \in Retries
           /\ [retry EXCEPT !.persist = NoRetry] \in [persist : Retries, delivery : Retries]
  BY NoRetryTyped DEF Typed

LEMMA PersistReconciledKeeps == ReminderInv /\ PersistReconciled => ReminderInv'
<1> SUFFICES ASSUME ReminderInv, PersistReconciled PROVE ReminderInv'
  OBVIOUS
<1>1. Typed /\ op # NoOp /\ op \in Ops /\ op.at = "persist"
  BY OpRuns DEF ReminderInv, PersistReconciled, Typed
<1>2. UNCHANGED <<world, life, occurrences, ledger, queue>>
  BY DEF PersistReconciled
<1>3. CASE Saves /\ GoesOn([op EXCEPT !.at = "automate"])
  <2>1. op' \in Ops /\ op'.at = "automate" /\ op'.now = op.now
    BY <1>1, <1>3 DEF GoesOn, Ops, Settled
  <2>2. retry' \in [persist : Retries, delivery : Retries] /\ UNCHANGED <<awaited, timer>>
    BY <1>1, <1>3, RetriesTyped DEF GoesOn
  <2> QED
    BY <1>1, <1>2, <1>3, <2>1, <2>2, WritesTyped, GoOnKeeps
<1>4. CASE SaveFails /\ Finish(NextDelay(retry.persist), retry.delivery)
  BY <1>1, <1>2, <1>4, WritesTyped, RetriesTyped, DelaysAreRetries, FinishKeeps
<1> QED
  BY <1>3, <1>4 DEF PersistReconciled

LEMMA AutomateKeeps == ReminderInv /\ Automate => ReminderInv'
<1> SUFFICES ASSUME ReminderInv, Automate PROVE ReminderInv'
  OBVIOUS
<1>1. Typed /\ op # NoOp /\ op \in Ops /\ op.at = "automate" /\ ledger = written
  BY OpRuns DEF ReminderInv, Automate, Typed, LedgerInv, Settled
<1>2. /\ op' = [op EXCEPT !.at = "deliver"]
      /\ UNCHANGED <<world, file, life, occurrences, ledger, written, queue, awaited, schedule>>
  BY DEF Automate
<1>3. op' \in Ops /\ op'.at = "deliver" /\ op'.now = op.now
  BY <1>1, <1>2 DEF Ops, Settled
<1>4. /\ ledger' \in Ledgers /\ file' \in Ledgers \cup {NoFile}
      /\ retry' \in [persist : Retries, delivery : Retries]
  BY <1>1, <1>2 DEF Typed, schedule
<1> QED
  BY <1>1, <1>2, <1>3, <1>4, GoOnKeeps DEF schedule

LEMMA SubmitTyped ==
    ASSUME Typed, NEW items \in Batches, Submit(items)
    PROVE  /\ op' \in Ops /\ op'.at \in Settled /\ op'.now = op.now
           /\ UNCHANGED <<awaited, timer>>
<1>1. PICK channel \in {"notice", "system", "deferred", "closed"} :
        op' = [op EXCEPT !.at = channel, !.items = items,
                         !.shown = IF channel \in {"notice", "system"} THEN items ELSE {}]
  BY DEF Submit
<1>2. op \in Ops
  BY DEF Typed
<1>3. (IF channel \in {"notice", "system"} THEN items ELSE {}) \in Batches
  BY DEF Batches
<1>4. op' \in Ops /\ op'.at \in Settled /\ op'.now = op.now
  BY <1>1, <1>2, <1>3 DEF Ops, Settled
<1>5. UNCHANGED <<awaited, timer>>
  BY DEF Submit
<1> QED
  BY <1>4, <1>5

LEMMA SelectDueKeeps == ReminderInv /\ SelectDue => ReminderInv'
<1> SUFFICES ASSUME ReminderInv, SelectDue PROVE ReminderInv'
  OBVIOUS
<1> DEFINE R       == ledger.records
           live    == {o \in occurrences : Key(o) \in Pending(R) /\ Authoritative(o)}
           items   == {o \in live : Due(o, op.now)}
           expired == (Pending(R) \ {Key(o) : o \in live})
                      \cup {Key(o) : o \in {x \in live \ items : x.at <= op.now}}
<1>1. /\ Typed /\ op # NoOp /\ op \in Ops /\ ledger = written /\ op.now \in Nat
      /\ ledger \in Ledgers /\ file \in Ledgers \cup {NoFile}
      /\ retry \in [persist : Retries, delivery : Retries]
  BY OpRuns DEF ReminderInv, SelectDue, Typed, LedgerInv, Settled, Ops
<1>2. UNCHANGED <<world, file, life, occurrences, written, queue>>
  BY DEF SelectDue
<1>3. items \in Batches
  BY <1>1 DEF Typed, Batches
<1>4. R \in [Keys -> Records]
  BY <1>1 DEF Ledgers
<1>5. IF expired # {}
      THEN /\ ledger' = [ledger EXCEPT !.records = Close(@, expired, "expired", op.now)]
           /\ op' = [op EXCEPT !.at = "persistExpired", !.items = items]
           /\ UNCHANGED <<awaited, schedule>>
      ELSE /\ IF items = {} THEN Finish(retry.persist, NoRetry)
              ELSE Submit(items) /\ UNCHANGED retry
           /\ UNCHANGED ledger
  BY DEF SelectDue
<1> HIDE DEF items, expired
<1>6. CASE expired # {}
  <2>1. Close(R, expired, "expired", op.now) \in [Keys -> Records]
    BY <1>1, <1>4, CloseTyped DEF States
  <2>2. ledger' \in Ledgers
    BY <1>1, <1>5, <1>6, <2>1 DEF Ledgers
  <2>3. op' \in Ops /\ op'.at = "persistExpired" /\ op'.now = op.now
    BY <1>1, <1>3, <1>5, <1>6 DEF Ops, Unsaved
  <2> QED
    BY <1>1, <1>2, <1>5, <1>6, <2>2, <2>3, GoOnKeeps DEF schedule, Settled
<1>7. CASE expired = {} /\ items = {}
  BY <1>1, <1>2, <1>5, <1>7, RetriesTyped, NoRetryTyped, FinishKeeps
<1>8. CASE expired = {} /\ items # {}
  <2>1. /\ op' \in Ops /\ op'.at \in Settled /\ op'.now = op.now
        /\ UNCHANGED <<awaited, timer>>
    BY <1>1, <1>3, <1>5, <1>8, SubmitTyped
  <2>2. op'.at # "none"
    BY <2>1 DEF Settled
  <2> QED
    BY <1>1, <1>2, <1>5, <1>8, <2>1, <2>2, GoOnKeeps
<1> QED
  BY <1>6, <1>7, <1>8

LEMMA PersistExpiredKeeps == ReminderInv /\ PersistExpired => ReminderInv'
<1> SUFFICES ASSUME ReminderInv, PersistExpired PROVE ReminderInv'
  OBVIOUS
<1>1. Typed /\ op # NoOp /\ op.items \in Batches
  BY OpRuns DEF ReminderInv, PersistExpired, Typed, Ops
<1>2. UNCHANGED <<world, life, occurrences, ledger, queue>>
  BY DEF PersistExpired
<1>3. CASE Saves /\ op.items = {} /\ Finish(NoRetry, NoRetry)
  BY <1>1, <1>2, <1>3, WritesTyped, NoRetryTyped, FinishKeeps
<1>4. CASE Saves /\ Submit(op.items) /\ retry' = [retry EXCEPT !.persist = NoRetry]
  <2>1. /\ op' \in Ops /\ op'.at \in Settled /\ op'.now = op.now
        /\ UNCHANGED <<awaited, timer>>
    BY <1>1, <1>4, SubmitTyped
  <2>2. op'.at # "none"
    BY <2>1 DEF Settled
  <2>3. retry' \in [persist : Retries, delivery : Retries]
    BY <1>1, <1>4, RetriesTyped
  <2>4. ledger' \in Ledgers /\ file' \in Ledgers \cup {NoFile} /\ ledger' = written'
    BY <1>1, <1>2, <1>4, WritesTyped
  <2> QED
    BY <1>1, <1>2, <2>1, <2>2, <2>3, <2>4, GoOnKeeps
<1>5. CASE SaveFails /\ Finish(NextDelay(retry.persist), retry.delivery)
  BY <1>1, <1>2, <1>5, WritesTyped, RetriesTyped, DelaysAreRetries, FinishKeeps
<1> QED
  BY <1>3, <1>4, <1>5 DEF PersistExpired

LEMMA AfterDeliveryTyped ==
    ASSUME Typed, NEW failed \in BOOLEAN PROVE AfterDelivery(failed) \in Retries
  BY RetriesTyped, NoRetryTyped, DelaysAreRetries DEF AfterDelivery

LEMMA PortAnswersKeeps == ReminderInv /\ PortAnswers => ReminderInv'
<1> SUFFICES ASSUME ReminderInv, PortAnswers PROVE ReminderInv'
  OBVIOUS
<1>1. /\ Typed /\ op # NoOp /\ op \in Ops /\ ledger = written /\ op.now \in Nat
      /\ ledger \in Ledgers /\ file \in Ledgers \cup {NoFile}
      /\ retry \in [persist : Retries, delivery : Retries]
  BY OpRuns DEF ReminderInv, PortAnswers, Typed, LedgerInv, Settled, Ops
<1>2. UNCHANGED <<world, file, life, occurrences, written, queue>>
  BY DEF PortAnswers
<1>3. PICK told \in SUBSET op.shown :
        IF told = {}
        THEN Finish(retry.persist, AfterDelivery(told # op.items /\ op.at # "deferred"))
             /\ UNCHANGED ledger
        ELSE /\ ledger' = [ledger EXCEPT !.records =
                             Close(@, {Key(o) : o \in told}, "delivered", op.now)]
             /\ op' = [op EXCEPT !.at = IF told # op.items /\ op.at # "deferred"
                                        THEN "persistSome" ELSE "persistAll"]
             /\ UNCHANGED <<awaited, schedule>>
  BY DEF PortAnswers
<1>4. CASE told = {}
  <2>1. AfterDelivery(told # op.items /\ op.at # "deferred") \in Retries
    BY <1>1, AfterDeliveryTyped
  <2> QED
    BY <1>1, <1>2, <1>3, <1>4, <2>1, RetriesTyped, FinishKeeps
<1>5. CASE told # {}
  <2>1. ledger.records \in [Keys -> Records]
    BY <1>1 DEF Ledgers
  <2>2. Close(ledger.records, {Key(o) : o \in told}, "delivered", op.now) \in [Keys -> Records]
    BY <1>1, <2>1, CloseTyped DEF States
  <2>3. ledger' \in Ledgers
    BY <1>1, <1>3, <1>5, <2>2 DEF Ledgers
  <2>4. op' \in Ops /\ op'.at \in {"persistSome", "persistAll"} /\ op'.now = op.now
    BY <1>1, <1>3, <1>5 DEF Ops, Unsaved
  <2> QED
    BY <1>1, <1>2, <1>3, <1>5, <2>3, <2>4, GoOnKeeps DEF schedule, Settled
<1> QED
  BY <1>4, <1>5

LEMMA PersistDeliveredKeeps == ReminderInv /\ PersistDelivered => ReminderInv'
<1> SUFFICES ASSUME ReminderInv, PersistDelivered PROVE ReminderInv'
  OBVIOUS
<1>1. Typed /\ op # NoOp
  BY OpRuns DEF ReminderInv, PersistDelivered
<1>2. UNCHANGED <<world, life, occurrences, ledger, queue>>
  BY DEF PersistDelivered
<1>3. AfterDelivery(op.at = "persistSome") \in Retries
  BY <1>1, AfterDeliveryTyped
<1>4. CASE Saves /\ Finish(NoRetry, AfterDelivery(op.at = "persistSome"))
  BY <1>1, <1>2, <1>3, <1>4, WritesTyped, NoRetryTyped, FinishKeeps
<1>5. CASE SaveFails /\ Finish(NextDelay(retry.persist), AfterDelivery(op.at = "persistSome"))
  BY <1>1, <1>2, <1>3, <1>5, WritesTyped, RetriesTyped, DelaysAreRetries, FinishKeeps
<1> QED
  BY <1>4, <1>5 DEF PersistDelivered

----------------------------------------------------------------------------
(* Sessions, the timer and the world *)

LEMMA InitKeeps == Init => ReminderInv
<1> SUFFICES ASSUME Init PROVE ReminderInv
  OBVIOUS
<1>1. Typed
  BY EmptyLedgerTyped, NoOpTyped, NoRetryTyped, BoundAssumption DEF Init, Typed
<1>2. LifeInv /\ LedgerInv /\ TimerInv
  BY NoOpTyped DEF Init, LifeInv, LedgerInv, TimerInv, Quiet, Settled
<1> QED
  BY <1>1, <1>2 DEF ReminderInv

LEMMA EnqueueTyped ==
    ASSUME Typed, NEW T \in SUBSET Tasks, Enqueue(T), Len(queue) < MaxQueue
    PROVE  /\ queue' \in Seq(SUBSET Tasks) /\ Len(queue') <= MaxQueue /\ queue' # <<>>
<1>1. queue' = Append(queue, T) /\ queue \in Seq(SUBSET Tasks)
  BY DEF Enqueue, Typed
<1>2. queue' \in Seq(SUBSET Tasks) /\ Len(queue') = Len(queue) + 1 /\ Len(queue) \in Nat
  BY <1>1, AppendProperties, LenProperties
<1>3. queue' # <<>>
  BY <1>2, EmptySeq
<1> QED
  BY <1>2, <1>3, BoundAssumption

LEMMA StartKeeps == ReminderInv /\ Start => ReminderInv'
<1> SUFFICES ASSUME ReminderInv, Start PROVE ReminderInv'
  OBVIOUS
<1>1. /\ Typed /\ LifeInv /\ queue = <<>> /\ op = NoOp /\ timer = 0
      /\ life' = "running" /\ UNCHANGED <<world, file, occurrences, op, awaited, schedule>>
      /\ ledger' = (IF file = NoFile THEN EmptyLedger ELSE file) /\ Enqueue(Tasks)
  BY DEF ReminderInv, LifeInv, Start
<1>2. Len(queue) < MaxQueue
  BY <1>1, BoundAssumption, EmptySeq
<1>3. queue' \in Seq(SUBSET Tasks) /\ Len(queue') <= MaxQueue /\ queue' # <<>>
  BY <1>1, <1>2, EnqueueTyped
<1>4. ledger' \in Ledgers
  BY <1>1, EmptyLedgerTyped DEF Typed
<1>5. Typed'
  BY <1>1, <1>3, <1>4 DEF Typed, world, schedule
<1>6. LifeInv'
  BY <1>1 DEF LifeInv, world
<1>7. LedgerInv' /\ TimerInv'
  BY <1>1, <1>3, NoOpTyped DEF LedgerInv, TimerInv, Quiet, Settled
<1> QED
  BY <1>5, <1>6, <1>7 DEF ReminderInv

LEMMA SessionEndKeeps == ReminderInv /\ (Crash \/ Quit) => ReminderInv'
<1> SUFFICES ASSUME ReminderInv, Crash \/ Quit PROVE ReminderInv'
  OBVIOUS
<1>1. Typed /\ SessionEnds /\ UNCHANGED <<world, file>>
  BY DEF ReminderInv, Crash, Quit
<1>2. Typed'
  BY <1>1, EmptyLedgerTyped, NoOpTyped, NoRetryTyped, BoundAssumption
     DEF SessionEnds, Typed, world
<1>3. op' = NoOp /\ life' = "off" /\ queue' = <<>> /\ timer' = 0 /\ now' \in Nat
  BY <1>1, <1>2, BoundAssumption DEF SessionEnds, Typed
<1>4. LifeInv' /\ LedgerInv' /\ TimerInv'
  BY <1>3, NoOpTyped DEF LifeInv, LedgerInv, TimerInv, Quiet, Settled
<1> QED
  BY <1>2, <1>4 DEF ReminderInv

LEMMA UnloadKeeps == ReminderInv /\ (PortCloses \/ DestroyBegins \/ DestroyEnds) => ReminderInv'
<1> SUFFICES ASSUME ReminderInv, PortCloses \/ DestroyBegins \/ DestroyEnds PROVE ReminderInv'
  OBVIOUS
<1>1. CASE PortCloses
  <2>1. /\ life' = "portClosed"
        /\ UNCHANGED <<world, file, memory, queue, op, awaited, schedule>>
    BY <1>1 DEF PortCloses
  <2>2. Typed' /\ LifeInv'
    BY <1>1, <2>1 DEF ReminderInv, Typed, LifeInv, PortCloses, world, memory, schedule
  <2>3. LedgerInv' /\ TimerInv'
    BY <2>1 DEF ReminderInv, LedgerInv, TimerInv, Quiet, memory
  <2> QED
    BY <2>2, <2>3 DEF ReminderInv
<1>2. CASE DestroyBegins
  <2>1. /\ life' = "closing" /\ timer' = 0
        /\ awaited' = Len(queue) + (IF op = NoOp THEN 0 ELSE 1)
        /\ UNCHANGED <<world, file, memory, queue, op, retry>>
    BY <1>2 DEF DestroyBegins
  <2>2. Len(queue) \in Nat /\ Len(queue) <= MaxQueue
    BY LenProperties DEF ReminderInv, Typed
  <2>3. awaited' \in 0 .. MaxQueue + 1 /\ (op # NoOp => awaited' > 0)
    BY <2>1, <2>2, BoundAssumption
  <2>4. Typed' /\ LifeInv'
    BY <2>1, <2>3 DEF ReminderInv, Typed, LifeInv, world, memory
  <2>5. LedgerInv' /\ TimerInv'
    BY <2>1 DEF ReminderInv, LedgerInv, TimerInv, Quiet, memory
  <2> QED
    BY <2>4, <2>5 DEF ReminderInv
<1>3. CASE DestroyEnds
  <2>1. /\ life = "closing" /\ awaited = 0 /\ life' = "destroyed" /\ timer' = 0 /\ queue' = <<>>
        /\ UNCHANGED <<world, file, memory, op, awaited, retry>>
    BY <1>3 DEF DestroyEnds, TimerAfterDestroy
  <2>2. op = NoOp
    BY <2>1 DEF ReminderInv, LifeInv
  <2>3. Typed'
    BY <2>1, BoundAssumption, EmptySeq DEF ReminderInv, Typed, world, memory
  <2>4. LifeInv'
    BY <2>1, <2>2 DEF ReminderInv, LifeInv, world
  <2>5. LedgerInv' /\ TimerInv'
    BY <2>1 DEF ReminderInv, LedgerInv, TimerInv, Quiet, memory
  <2> QED
    BY <2>3, <2>4, <2>5 DEF ReminderInv
<1> QED
  BY <1>1, <1>2, <1>3

LEMMA TimerFiresKeeps == ReminderInv /\ TimerFires => ReminderInv'
<1> SUFFICES ASSUME ReminderInv, TimerFires PROVE ReminderInv'
  OBVIOUS
<1>1. /\ Typed /\ Active /\ timer' = 0 /\ Enqueue(Tasks) /\ Len(queue) < MaxQueue
      /\ UNCHANGED <<world, file, life, memory, op, awaited, retry>>
  BY DEF ReminderInv, TimerFires, Room
<1>2. queue' \in Seq(SUBSET Tasks) /\ Len(queue') <= MaxQueue /\ queue' # <<>>
  BY <1>1, EnqueueTyped
<1>3. Typed'
  BY <1>1, <1>2 DEF Typed, world, memory
<1>4. LifeInv'
  BY <1>1 DEF ReminderInv, LifeInv, Active, Subscribed, world
<1>5. LedgerInv' /\ TimerInv'
  BY <1>1, <1>2 DEF ReminderInv, LedgerInv, TimerInv, Quiet, memory
<1> QED
  BY <1>3, <1>4, <1>5 DEF ReminderInv

LEMMA TickKeeps == ReminderInv /\ Tick => ReminderInv'
<1> SUFFICES ASSUME ReminderInv, Tick PROVE ReminderInv'
  OBVIOUS
<1>1. /\ Typed /\ now < MaxTime /\ now' = now + 1
      /\ UNCHANGED <<task, duplicate, present, zone, file, life, memory, queue, op, awaited, schedule>>
  BY DEF ReminderInv, Tick
<1>2. now \in Nat /\ now' \in 1 .. MaxTime /\ op.now \in Nat
  BY <1>1, BoundAssumption DEF Typed, Ops
<1>3. Typed'
  BY <1>1, <1>2 DEF Typed, memory, schedule
<1>4. LifeInv'
  <2>1. op' = op /\ op.now <= now
    BY <1>1 DEF ReminderInv, LifeInv
  <2>2. op'.now <= now'
    BY <1>1, <1>2, <2>1
  <2> QED
    BY <1>1, <2>1, <2>2 DEF ReminderInv, LifeInv, schedule
<1>5. LedgerInv'
  BY <1>1 DEF ReminderInv, LedgerInv, Quiet, memory, schedule
<1>6. TimerInv'
  <2>1. Awaits(now, retry)' = Awaits(now', retry)
    BY <1>1 DEF Awaits, memory, schedule
  <2>2. Awaits(now', retry) # {} => Awaits(now, retry) # {}
    <3>1. \A o \in occurrences : o.at \in Nat
      BY <1>1, BoundAssumption DEF Typed, Occurrences, Times
    <3> QED
      BY <1>1, <1>2, <3>1 DEF Awaits
  <2> QED
    BY <1>1, <2>1, <2>2 DEF ReminderInv, TimerInv, Quiet, schedule
<1> QED
  BY <1>3, <1>4, <1>5, <1>6 DEF ReminderInv

\* The window, the zone or a task changes: somebody may be told, and nothing else.
LEMMA WorldKeeps ==
    ASSUME ReminderInv, NEW T \in SUBSET Tasks, Len(queue) < MaxQueue,
           task' \in [Tasks -> {"open", "terminal", "gone"}], duplicate' \subseteq Tasks,
           present' \subseteq Sources, zone' \in {0, 1},
           UNCHANGED <<now, file, life, memory, op, awaited, schedule>>,
           UNCHANGED queue \/ (Subscribed /\ Enqueue(T))
    PROVE  ReminderInv'
<1>1. CASE UNCHANGED queue
  <2>1. Typed' /\ LifeInv' /\ LedgerInv'
    BY <1>1 DEF ReminderInv, Typed, LifeInv, LedgerInv, Quiet, memory, schedule
  <2>2. Awaits(now, retry)' = Awaits(now, retry)
    BY DEF Awaits, memory, schedule
  <2>3. TimerInv'
    BY <1>1, <2>2 DEF ReminderInv, TimerInv, Quiet, schedule
  <2> QED
    BY <2>1, <2>3 DEF ReminderInv
<1>2. CASE Subscribed /\ Enqueue(T)
  <2>1. queue' \in Seq(SUBSET Tasks) /\ Len(queue') <= MaxQueue /\ queue' # <<>>
    BY <1>2, EnqueueTyped DEF ReminderInv
  <2>2. Typed'
    BY <2>1 DEF ReminderInv, Typed, memory, schedule
  <2>3. LifeInv'
    BY <1>2 DEF ReminderInv, LifeInv, Subscribed
  <2>4. LedgerInv' /\ TimerInv'
    BY <2>1 DEF ReminderInv, LedgerInv, TimerInv, Quiet, memory
  <2> QED
    BY <2>2, <2>3, <2>4 DEF ReminderInv
<1> QED
  BY <1>1, <1>2

LEMMA WorldStepsKeep ==
    ReminderInv /\ (FocusChanges \/ ZoneChanges \/ \E t \in Tasks : TaskChanges(t)) => ReminderInv'
<1> SUFFICES ASSUME ReminderInv, FocusChanges \/ ZoneChanges \/ \E t \in Tasks : TaskChanges(t)
             PROVE  ReminderInv'
  OBVIOUS
<1>1. /\ task \in [Tasks -> {"open", "terminal", "gone"}] /\ duplicate \subseteq Tasks
      /\ present \subseteq Sources /\ zone \in {0, 1}
  BY DEF ReminderInv, Typed
<1>2. CASE FocusChanges
  <2>1. UNCHANGED queue \/ (Subscribed /\ Enqueue(Tasks))
    BY <1>2 DEF FocusChanges, WakeEnqueues
  <2> QED
    BY <1>1, <1>2, <2>1, WorldKeeps DEF FocusChanges, Room
<1>3. CASE ZoneChanges
  <2>1. zone' \in {0, 1}
    BY <1>1, <1>3 DEF ZoneChanges
  <2>2. /\ UNCHANGED <<task, duplicate, present, now, file, life, memory, queue, op, awaited, schedule>>
    BY <1>3 DEF ZoneChanges
  <2>3. Typed' /\ LifeInv' /\ LedgerInv'
    BY <2>1, <2>2 DEF ReminderInv, Typed, LifeInv, LedgerInv, Quiet, memory, schedule
  <2>4. Awaits(now, retry)' = Awaits(now, retry)
    BY <2>2 DEF Awaits, memory, schedule
  <2>5. TimerInv'
    BY <2>2, <2>4 DEF ReminderInv, TimerInv, Quiet, schedule
  <2> QED
    BY <2>3, <2>5 DEF ReminderInv
<1>4. ASSUME NEW t \in Tasks, TaskChanges(t) PROVE ReminderInv'
  <2>1. /\ task' \in [Tasks -> {"open", "terminal", "gone"}] /\ duplicate' \subseteq Tasks
        /\ present' \subseteq Sources
    BY <1>1, <1>4 DEF TaskChanges
  <2>2. UNCHANGED queue \/ (Subscribed /\ Enqueue({t}))
    BY <1>4 DEF TaskChanges
  <2>3. /\ Len(queue) < MaxQueue /\ zone' \in {0, 1} /\ {t} \in SUBSET Tasks
        /\ UNCHANGED <<now, file, life, memory, op, awaited, schedule>>
    BY <1>1, <1>4 DEF TaskChanges, Room
  <2> QED
    BY <2>1, <2>2, <2>3, WorldKeeps
<1> QED
  BY <1>2, <1>3, <1>4

LEMMA StepKeeps == ReminderInv /\ [Next]_vars => ReminderInv'
<1> SUFFICES ASSUME ReminderInv, [Next]_vars PROVE ReminderInv'
  OBVIOUS
<1>1. CASE OpStep
  BY <1>1, ReconcileKeeps, PersistReconciledKeeps, AutomateKeeps, SelectDueKeeps,
     PersistExpiredKeeps, PortAnswersKeeps, PersistDeliveredKeeps DEF OpStep
<1>2. CASE Start \/ Crash \/ Quit
  BY <1>2, StartKeeps, SessionEndKeeps
<1>3. CASE PortCloses \/ DestroyBegins \/ DestroyEnds
  BY <1>3, UnloadKeeps
<1>4. CASE TimerFires \/ Tick
  BY <1>4, TimerFiresKeeps, TickKeeps
<1>5. CASE FocusChanges \/ ZoneChanges \/ \E t \in Tasks : TaskChanges(t)
  BY <1>5, WorldStepsKeep
<1>6. CASE UNCHANGED vars
  <2>1. UNCHANGED <<world, file, life, memory, queue, op, awaited, schedule>>
    BY <1>6 DEF vars
  <2>2. Typed' /\ LifeInv' /\ LedgerInv'
    BY <2>1 DEF ReminderInv, Typed, LifeInv, LedgerInv, Quiet, world, memory, schedule
  <2>3. Awaits(now, retry)' = Awaits(now, retry)
    BY <2>1 DEF Awaits, world, memory, schedule
  <2>4. TimerInv'
    BY <2>1, <2>3 DEF ReminderInv, TimerInv, Quiet, schedule
  <2> QED
    BY <2>2, <2>4 DEF ReminderInv
<1> QED
  BY <1>1, <1>2, <1>3, <1>4, <1>5, <1>6 DEF Next

----------------------------------------------------------------------------
(* The theorems *)

\* Every behaviour keeps the inductive invariant: what destroy awaits is still
\* running, a ledger that a reconciliation left unwritten has a retry, and what a
\* scheduler at rest waits for has a timer.
THEOREM ReminderInvariant == Spec => []ReminderInv
  BY InitKeeps, StepKeeps, PTL DEF Spec

\* The types of TypeOK, for any constants.
THEOREM ReminderTypes == Spec => []TypeOK
<1>1. ReminderInv => TypeOK
  <2> SUFFICES ASSUME ReminderInv PROVE TypeOK
    OBVIOUS
  <2>1. /\ task \in [Tasks -> {"open", "terminal", "gone"}]
        /\ duplicate \subseteq Tasks /\ present \subseteq Sources /\ now \in 1 .. MaxTime
        /\ awaited \in 0 .. MaxQueue + 1 /\ timer \in Nat /\ queue \in Seq(SUBSET Tasks)
    BY DEF ReminderInv, Typed
  <2>2. \A o \in occurrences : Key(o) \in Keys /\ o.sources \subseteq Sources
    BY KeysTyped DEF ReminderInv, Typed, Occurrences
  <2>3. ledger \in Ledgers /\ file \in Ledgers \cup {NoFile}
    BY DEF ReminderInv, Typed
  <2>5. \A what \in {"persist", "delivery"} :
          retry[what].at \in Nat /\ retry[what].index \in DOMAIN Delays
    BY DEF ReminderInv, Typed, Retries
  <2>6. Len(queue) <= MaxQueue + 1
    BY LenProperties, BoundAssumption DEF ReminderInv, Typed
  <2> QED
    BY <2>1, <2>2, <2>3, <2>5, <2>6 DEF TypeOK
<1> QED
  BY <1>1, ReminderInvariant, PTL

\* A destroyed scheduler has neither a timer nor a reconciliation: destroy waits for
\* those called before it, and the timer that the last of them armed is cleared
\* (destroy in reminder-scheduler.ts).
THEOREM DestroyLeavesNothing == Spec => []DestroyedIsQuiet
<1>1. ReminderInv => DestroyedIsQuiet
  BY DEF ReminderInv, LifeInv, DestroyedIsQuiet
<1> QED
  BY <1>1, ReminderInvariant, PTL

\* A scheduler at rest has a timer if an occurrence is to come, a write failed or a
\* notification is to be shown again (armNextTimer).
THEOREM RestHasTimer == Spec => []NothingStranded
<1>1. ReminderInv => NothingStranded
  <2> SUFFICES ASSUME ReminderInv, Quiet,
                      \/ \E o \in occurrences : o.at > now
                      \/ ledger # written
                      \/ retry.delivery.at # 0
               PROVE  timer # 0
    BY DEF NothingStranded
  <2>1. ledger # written => retry.persist.at # 0
    BY DEF ReminderInv, LedgerInv
  <2>2. Awaits(now, retry) # {}
    BY <2>1 DEF Awaits
  <2> QED
    BY <2>2 DEF ReminderInv, TimerInv
<1> QED
  BY <1>1, ReminderInvariant, PTL

----------------------------------------------------------------------------
(* A reminder that no other one can meet *)

LEMMA KeysOfAreKeys == \A s \in Sources : KeysOf(s) \subseteq Keys
  BY SourceAssumption, BoundAssumption DEF KeysOf, Keys, Times

LEMMA FoundIsOwn ==
    ASSUME Typed, NEW s \in Sources, Apart(s), NEW t \in Tasks
    PROVE  OwnOccurrences(Found(t), s) /\ OneOccurrence(Found(t), s)
<1>1. /\ zone \in {0, 1} /\ SourcesOf(t) \subseteq Sources
      /\ \A y \in Sources : Local[y] \in Nat /\ Epoch(y) = Local[y] + zone
      /\ \A y \in SourcesOf(t) : Owner[y] = t
  BY SourceAssumption, BoundAssumption DEF Typed, SourcesOf, Epoch
<1>2. \A o \in Found(t) : /\ o.task = t /\ o.sources = {y \in SourcesOf(t) : Epoch(y) = o.at}
                          /\ \E y \in SourcesOf(t) : o.at = Epoch(y)
                          /\ o = [task |-> o.task, at |-> o.at, sources |-> o.sources]
  BY DEF Found
<1>3. \A y \in SourcesOf(t) : Owner[s] = t /\ y # s =>
          Local[y] # Local[s] /\ Local[y] + 1 # Local[s] /\ Local[y] # Local[s] + 1
  BY <1>1 DEF Apart
<1>4. ASSUME NEW o \in Found(t), s \in o.sources
      PROVE  Key(o) \in KeysOf(s) /\ o.sources = {s} /\ o.at = Epoch(s)
  <2>1. s \in SourcesOf(t) /\ o.at = Local[s] + zone /\ Owner[s] = t /\ o.task = t
    BY <1>1, <1>2, <1>4
  <2>2. o.at \in {Local[s], Local[s] + 1}
    BY <1>1, <2>1
  <2>3. Key(o) \in KeysOf(s)
    BY <2>1, <2>2 DEF Key, KeysOf
  <2>4. \A y \in o.sources : y = s
    <3>1. SUFFICES ASSUME NEW y \in o.sources, y # s PROVE FALSE
      OBVIOUS
    <3>2. y \in SourcesOf(t) /\ Epoch(y) = o.at
      BY <1>2
    <3>3. Local[y] = Local[s]
      BY <1>1, <2>1, <3>2
    <3> QED
      BY <1>3, <2>1, <3>1, <3>2, <3>3
  <2> QED
    BY <1>1, <1>4, <2>1, <2>3, <2>4
<1>5. ASSUME NEW o \in Found(t), s \notin o.sources PROVE Key(o) \notin KeysOf(s)
  <2>1. SUFFICES ASSUME Key(o) \in KeysOf(s) PROVE FALSE
    OBVIOUS
  <2>2. o.task = Owner[s] /\ o.at \in {Local[s], Local[s] + 1}
    BY <2>1 DEF Key, KeysOf
  <2>3. PICK y \in SourcesOf(t) : o.at = Epoch(y)
    BY <1>2
  <2>4. y # s /\ y \in Sources /\ Owner[s] = t
    BY <1>1, <1>2, <1>5, <2>2, <2>3
  <2>5. Local[y] + zone \in {Local[s], Local[s] + 1} /\ Local[y] \in Nat /\ Local[s] \in Nat
    BY <1>1, <2>2, <2>3, <2>4
  <2> QED
    BY <1>1, <1>3, <2>4, <2>5
<1>6. OwnOccurrences(Found(t), s)
  BY <1>4, <1>5 DEF OwnOccurrences
<1>7. OneOccurrence(Found(t), s)
  BY <1>2, <1>4 DEF OneOccurrence
<1> QED
  BY <1>6, <1>7

LEMMA PutPendingKeepsOwn ==
    ASSUME NEW s \in Sources, NEW R \in [Keys -> Records], NEW P \in SUBSET Occurrences,
           OwnOccurrences(P, s), OneOccurrence(P, s), OwnRecords(R, s)
    PROVE  OwnRecords(PutPending(R, P), s) /\ (Marked(R, s) => Marked(PutPending(R, P), s))
<1> DEFINE puts == {o \in P : ~Finalized(R, o.sources)}
           N == PutPending(R, P)
           Put(k, o) == /\ o \in puts /\ Key(o) = k
                        /\ N[k].state = "pending" /\ N[k].sources = o.sources
           Gone(k) == N[k] = NoRecord /\ R[k].state = "pending"
           Stays(k) == /\ N[k] = R[k] /\ ~\E o \in puts : Key(o) = k
                       /\ R[k].state = "pending" => \A o \in puts : o.sources \cap R[k].sources = {}
<1>1. ASSUME NEW k \in Keys PROVE (\E o \in puts : Put(k, o)) \/ Gone(k) \/ Stays(k)
  <2>1. N[k] = IF \E o \in puts : Key(o) = k
               THEN [state |-> "pending", since |-> 0,
                     sources |-> (CHOOSE o \in puts : Key(o) = k).sources]
               ELSE IF k \in Pending(R) /\ \E o \in puts : o.sources \cap R[k].sources # {}
               THEN NoRecord ELSE R[k]
    BY DEF PutPending
  <2>2. CASE \E o \in puts : Key(o) = k
    <3>1. PICK c \in puts : c = CHOOSE o \in puts : Key(o) = k
      BY <2>2
    <3>2. Key(c) = k
      BY <2>2, <3>1
    <3>3. N[k] = [state |-> "pending", since |-> 0, sources |-> c.sources]
      BY <2>1, <2>2, <3>1
    <3> QED
      BY <3>2, <3>3
  <2>3. CASE /\ ~\E o \in puts : Key(o) = k
             /\ k \in Pending(R) /\ \E o \in puts : o.sources \cap R[k].sources # {}
    BY <2>1, <2>3 DEF Pending
  <2>4. CASE /\ ~\E o \in puts : Key(o) = k
             /\ ~(k \in Pending(R) /\ \E o \in puts : o.sources \cap R[k].sources # {})
    BY <2>1, <2>4 DEF Pending
  <2> QED
    BY <2>2, <2>3, <2>4
<1>2. ASSUME NEW o \in puts, s \in o.sources
      PROVE  /\ o.sources = {s} /\ Key(o) \in KeysOf(s)
             /\ \A k \in Keys : s \in R[k].sources => R[k].state # "delivered"
  <2>1. o \in P /\ ~Finalized(R, o.sources)
    OBVIOUS
  <2>2. o.sources = {s} /\ Key(o) \in KeysOf(s)
    BY <1>2, <2>1 DEF OwnOccurrences
  <2> QED
    BY <2>1, <2>2 DEF Finalized
<1>3. \A o \in puts : Key(o) \in KeysOf(s) => s \in o.sources
  BY DEF OwnOccurrences
<1>4. NoRecord.sources = {} /\ NoRecord.state = "none"
  BY DEF NoRecord
<1>5. \A o, p \in puts : s \in o.sources /\ s \in p.sources => o = p
  BY DEF OneOccurrence
<1> HIDE DEF puts, N
<1>6. \A k \in Keys : s \in N[k].sources => k \in KeysOf(s)
  BY <1>1, <1>2, <1>4 DEF OwnRecords
<1>7. \A k \in KeysOf(s) : N[k].state # "none" => N[k].sources = {s}
  BY <1>1, <1>2, <1>3, <1>4, KeysOfAreKeys DEF OwnRecords
<1>8. \A k \in Keys : s \in N[k].sources /\ N[k].state = "delivered" => Local[s] <= N[k].since
  BY <1>1, <1>4 DEF OwnRecords
<1>9. ASSUME NEW k \in Keys, NEW l \in Keys, s \in N[k].sources, N[k].state = "pending",
             s \in N[l].sources, N[l].state \in {"pending", "delivered"}
      PROVE  k = l
  <2>1. ASSUME NEW o \in puts, Put(k, o) PROVE k = l
    BY <1>1, <1>2, <1>4, <1>5, <1>9, <2>1
  <2>2. CASE Stays(k)
    <3>1. ASSUME NEW o \in puts, Put(l, o) PROVE FALSE
      BY <1>9, <2>2, <3>1
    <3>2. Stays(l)
      BY <1>1, <1>4, <1>9, <3>1
    <3> QED
      BY <1>9, <2>2, <3>2 DEF OwnRecords
  <2> QED
    BY <1>1, <1>4, <1>9, <2>1, <2>2
<1>10. ASSUME NEW k \in Keys, s \in R[k].sources, R[k].state = "delivered"
       PROVE  s \in N[k].sources /\ N[k].state = "delivered"
  <2>1. k \in KeysOf(s)
    BY <1>10 DEF OwnRecords
  <2>2. ~\E o \in puts : Put(k, o)
    BY <1>2, <1>3, <1>10, <2>1
  <2>3. Stays(k)
    BY <1>1, <1>10, <2>2
  <2> QED
    BY <1>10, <2>3
<1>11. OwnRecords(N, s)
  BY <1>6, <1>7, <1>8, <1>9 DEF OwnRecords
<1>12. Marked(R, s) => Marked(N, s)
  BY <1>10 DEF Marked
<1> QED
  BY <1>11, <1>12 DEF N

LEMMA SuppressKeepsOwn ==
    ASSUME NEW s \in Sources, NEW R \in [Keys -> Records], NEW P \in SUBSET Occurrences, NEW n,
           OwnOccurrences(P, s), OwnRecords(R, s)
    PROVE  OwnRecords(Suppress(R, P, n), s) /\ (Marked(R, s) => Marked(Suppress(R, P, n), s))
<1> DEFINE N == Suppress(R, P, n)
           Changes(k) == \E o \in P : Key(o) = k /\ ~Finalized(R, o.sources)
<1>1. ASSUME NEW k \in Keys
      PROVE  /\ ~Changes(k) => N[k] = R[k]
             /\ Changes(k) => /\ N[k].state = "suppressed"
                              /\ \E o \in P : Key(o) = k /\ N[k].sources = o.sources
  <2>1. N[k] = IF Changes(k)
               THEN [state |-> "suppressed", since |-> n,
                     sources |-> (CHOOSE o \in P : Key(o) = k).sources]
               ELSE R[k]
    BY DEF Suppress
  <2>2. CASE Changes(k)
    <3>1. PICK c \in P : c = CHOOSE o \in P : Key(o) = k
      BY <2>2
    <3>2. Key(c) = k
      BY <2>2, <3>1
    <3>3. N[k] = [state |-> "suppressed", since |-> n, sources |-> c.sources]
      BY <2>1, <2>2, <3>1
    <3> QED
      BY <2>2, <3>2, <3>3
  <2> QED
    BY <2>1, <2>2
<1>2. ASSUME NEW k \in Keys, Changes(k), k \in KeysOf(s)
      PROVE  R[k].state # "delivered"
  <2>1. PICK o \in P : Key(o) = k /\ ~Finalized(R, o.sources)
    BY <1>2
  <2>2. o.sources = {s}
    BY <1>2, <2>1 DEF OwnOccurrences
  <2>3. R[k].state # "none" => s \in R[k].sources
    BY <1>2 DEF OwnRecords
  <2> QED
    BY <2>1, <2>2, <2>3 DEF Finalized
<1> HIDE DEF N, Changes
<1>3. \A k \in Keys : s \in N[k].sources => k \in KeysOf(s)
  BY <1>1 DEF OwnRecords, OwnOccurrences
<1>4. \A k \in KeysOf(s) : N[k].state # "none" => N[k].sources = {s}
  BY <1>1, KeysOfAreKeys DEF OwnRecords, OwnOccurrences
<1>5. \A k \in Keys : s \in N[k].sources /\ N[k].state = "delivered" => Local[s] <= N[k].since
  BY <1>1 DEF OwnRecords
<1>6. \A k, l \in Keys :
        (/\ s \in N[k].sources /\ N[k].state = "pending"
         /\ s \in N[l].sources /\ N[l].state \in {"pending", "delivered"}) => k = l
  BY <1>1 DEF OwnRecords
<1>7. Marked(R, s) => Marked(N, s)
  BY <1>1, <1>2 DEF Marked, OwnRecords
<1> QED
  BY <1>3, <1>4, <1>5, <1>6, <1>7 DEF OwnRecords, N

LEMMA CloseKeepsOwn ==
    ASSUME NEW s \in Sources, NEW R \in [Keys -> Records], NEW keys, NEW n \in Nat,
           NEW state \in {"expired", "delivered"}, OwnRecords(R, s),
           state = "delivered" => \A k \in keys : s \in R[k].sources => Local[s] <= n
    PROVE  /\ OwnRecords(Close(R, keys, state, n), s)
           /\ Marked(R, s) => Marked(Close(R, keys, state, n), s)
<1> DEFINE N == Close(R, keys, state, n)
<1>1. \A k \in Keys :
        /\ N[k].sources = R[k].sources
        /\ k \notin keys \cap Pending(R) => N[k] = R[k]
        /\ k \in keys \cap Pending(R) => N[k].state = state /\ N[k].since = n
  BY DEF Close, Records
<1>2. \A k \in Keys : k \in Pending(R) <=> R[k].state = "pending"
  BY DEF Pending
<1> HIDE DEF N
<1>3. \A k \in Keys : s \in N[k].sources => k \in KeysOf(s)
  BY <1>1 DEF OwnRecords
<1>4. \A k \in KeysOf(s) : N[k].state # "none" => N[k].sources = {s}
  BY <1>1, <1>2, KeysOfAreKeys DEF OwnRecords
<1>5. \A k \in Keys : s \in N[k].sources /\ N[k].state = "delivered" => Local[s] <= N[k].since
  BY <1>1, <1>2 DEF OwnRecords
<1>6. \A k, l \in Keys :
        (/\ s \in N[k].sources /\ N[k].state = "pending"
         /\ s \in N[l].sources /\ N[l].state \in {"pending", "delivered"}) => k = l
  BY <1>1, <1>2 DEF OwnRecords
<1>7. Marked(R, s) => Marked(N, s)
  BY <1>1, <1>2 DEF Marked
<1> QED
  BY <1>3, <1>4, <1>5, <1>6, <1>7 DEF OwnRecords, N

\* A mark is pruned only when the reminder is over.
LEMMA PruneKeepsOwn ==
    ASSUME NEW s \in Sources, NEW R \in [Keys -> Records], NEW n \in Nat, OwnRecords(R, s)
    PROVE  /\ OwnRecords(Prune(R, n), s)
           /\ Marked(R, s) => Marked(Prune(R, n), s) \/ Local[s] + 1 + Window < n
<1> DEFINE N == Prune(R, n)
<1>1. \A k \in Keys : \/ N[k] = R[k]
                      \/ N[k].sources = {} /\ N[k].state = "none" /\ R[k].since + Retention < n
  BY DEF Prune, NoRecord
<1> HIDE DEF N
<1>2. OwnRecords(N, s)
  <2>1. \A k \in KeysOf(s) : N[k].state # "none" => N[k].sources = {s}
    BY <1>1, KeysOfAreKeys DEF OwnRecords
  <2> QED
    BY <1>1, <2>1 DEF OwnRecords
<1>3. ASSUME NEW k \in Keys, s \in R[k].sources, R[k].state = "delivered", R[k].since + Retention < n
      PROVE  Local[s] + 1 + Window < n
  <2>1. /\ Local[s] <= R[k].since /\ R[k].since \in Nat /\ Local[s] \in Nat
        /\ Window \in Nat /\ Retention \in Nat /\ Window < Retention
    BY <1>3, SourceAssumption, WindowAssumption, BoundAssumption DEF OwnRecords, Records
  <2> QED
    BY <1>3, <2>1
<1>4. Marked(R, s) => Marked(N, s) \/ Local[s] + 1 + Window < n
  BY <1>1, <1>3 DEF Marked
<1> QED
  BY <1>2, <1>4 DEF N

LEMMA EmptyIsOwn == ASSUME NEW s \in Sources PROVE OwnRecords(EmptyLedger.records, s)
<1>1. \A k \in Keys : EmptyLedger.records[k].sources = {} /\ EmptyLedger.records[k].state = "none"
  BY DEF EmptyLedger, NoRecord
<1> QED
  BY <1>1, KeysOfAreKeys DEF OwnRecords

----------------------------------------------------------------------------
(* What was told stays marked *)

\* The time that a reconciliation goes by never runs back.
LEMMA OverStays ==
    ASSUME ReminderInv, ReminderInv', NEW s \in Sources, now <= now',
           \/ op' = op \/ op' = NoOp
           \/ op # NoOp /\ op'.now = op.now
           \/ op = NoOp /\ op'.now = now
    PROVE  Over(s) => Over(s)'
<1>1. /\ now \in Nat /\ now' \in Nat /\ op.now \in Nat /\ op'.now \in Nat
      /\ op.now <= now /\ op'.now <= now'
  BY BoundAssumption DEF ReminderInv, Typed, LifeInv, Ops
<1>2. Clock \in Nat /\ Clock' \in Nat /\ Clock <= Clock'
  BY <1>1 DEF Clock
<1>3. Local[s] + 1 + Window \in Nat
  BY SourceAssumption, WindowAssumption, BoundAssumption
<1>4. (Local[s] + 1 + Window < Clock)' = (Local[s] + 1 + Window < Clock')
  OBVIOUS
<1> HIDE DEF Clock
<1> QED
  BY <1>2, <1>3 DEF Over

LEMMA MarksFrame ==
    ASSUME NEW s \in Sources, MarksInv(s), Over(s) => Over(s)',
           UNCHANGED <<file, written, saved, seen, ledger>>,
           life' = life \/ (life # "off" /\ life' # "off")
    PROVE  MarksInv(s)'
  BY DEF MarksInv, OnFile, Written, Marked

LEMMA MarksStay ==
    ASSUME NEW s \in Sources, MarksInv(s), Over(s) => Over(s)', life # "off", UNCHANGED life,
           UNCHANGED <<file, written, saved>>,
           Marked(ledger.records, s) => Marked(ledger'.records, s) \/ Over(s)',
           s \in seen'.told => s \in seen.told \/ Marked(ledger'.records, s)
    PROVE  MarksInv(s)'
<1>1. OnFile(s)' = OnFile(s) /\ Written(s)' = Written(s)
  BY DEF OnFile, Written, Marked
<1>2. Marked(ledger.records, s)' = Marked(ledger'.records, s)
  BY DEF Marked
<1> QED
  BY <1>1, <1>2 DEF MarksInv

LEMMA MarksSaved ==
    ASSUME ReminderInv, NEW s \in Sources, MarksInv(s), OwnInv(s), Over(s) => Over(s)',
           life # "off", UNCHANGED <<life, ledger, seen>>, Saves \/ SaveFails
    PROVE  MarksInv(s)' /\ (file' # NoFile => OwnRecords(file'.records, s))
<1>1. ledger \in Ledgers /\ ledger # NoFile
  BY NoFileAssumption DEF ReminderInv, Typed
<1>2. Marked(ledger.records, s)' = Marked(ledger.records, s)
  BY DEF Marked
<1>3. /\ OnFile(s) <=> file # NoFile /\ Marked(file.records, s)
      /\ OnFile(s)' <=> file' # NoFile /\ Marked(file'.records, s)
      /\ Written(s) <=> written # NoFile /\ Marked(written.records, s)
      /\ Written(s)' <=> written' # NoFile /\ Marked(written'.records, s)
  BY DEF OnFile, Written, Marked
<1>4. /\ s \in seen.told => Marked(ledger.records, s) \/ Over(s)
      /\ s \in saved.told => OnFile(s) \/ Over(s)
      /\ Written(s) => OnFile(s) \/ Over(s)
      /\ Written(s) => Marked(ledger.records, s) \/ Over(s)
      /\ OwnRecords(ledger.records, s) /\ (file # NoFile => OwnRecords(file.records, s))
  BY DEF MarksInv, OwnInv
<1>5. CASE Saves /\ ledger = written
  <2>1. UNCHANGED <<file, written>> /\ saved' = seen
    BY <1>5 DEF Saves
  <2>2. /\ OnFile(s)' <=> OnFile(s)
        /\ Written(s)' <=> Written(s)
    BY <1>3, <2>1
  <2>3. Written(s) <=> Marked(ledger.records, s)
    BY <1>1, <1>3, <1>5
  <2>4. MarksInv(s)'
    BY <1>2, <1>4, <2>1, <2>2, <2>3 DEF MarksInv
  <2> QED
    BY <1>4, <2>1, <2>4
<1>6. CASE Saves /\ ledger # written
  <2>1. file' = ledger /\ written' = ledger /\ saved' = seen
    BY <1>6 DEF Saves
  <2>2. /\ OnFile(s)' <=> Marked(ledger.records, s)
        /\ Written(s)' <=> Marked(ledger.records, s)
    BY <1>1, <1>3, <2>1
  <2>3. MarksInv(s)'
    BY <1>2, <1>4, <2>1, <2>2 DEF MarksInv
  <2> QED
    BY <1>4, <2>1, <2>3
<1>7. CASE SaveFails /\ file' = ledger /\ saved' = seen
  <2>1. written' = written
    BY <1>7 DEF SaveFails
  <2>2. /\ OnFile(s)' <=> Marked(ledger.records, s)
        /\ Written(s)' <=> Written(s)
    BY <1>1, <1>3, <1>7, <2>1
  <2>3. MarksInv(s)'
    BY <1>2, <1>4, <1>7, <2>1, <2>2 DEF MarksInv
  <2> QED
    BY <1>4, <1>7, <2>3
<1>8. CASE SaveFails /\ UNCHANGED <<file, saved>>
  <2>1. written' = written
    BY <1>8 DEF SaveFails
  <2>2. MarksInv(s)'
    BY <1>8, <2>1, MarksFrame
  <2> QED
    BY <1>4, <1>8, <2>2
<1> QED
  BY <1>5, <1>6, <1>7, <1>8 DEF SaveFails

LEMMA NoOpItems == op' = NoOp => ItemsInv' /\ op'.items = {}
  BY DEF NoOp, ItemsInv, Selected, Early

LEMMA SubsetIsOwn ==
    ASSUME NEW s \in Sources, NEW O, NEW P \in SUBSET O, OwnOccurrences(O, s)
    PROVE  OwnOccurrences(P, s) /\ (OneOccurrence(O, s) => OneOccurrence(P, s))
  BY DEF OwnOccurrences, OneOccurrence

\* A step that is not one of a reconciliation.
LEMMA OutsideKeepsTold ==
    ASSUME ReminderInv, ReminderInv', ToldInv, now <= now',
           UNCHANGED <<file, written, seen, saved, ledger, occurrences, op>>,
           life' = life \/ (life # "off" /\ life' # "off")
    PROVE  ToldInv'
<1>1. ItemsInv'
  BY DEF ToldInv, ItemsInv, Pending, Due
<1>2. ASSUME NEW s \in Sources, Apart(s)' PROVE OwnInv(s)' /\ MarksInv(s)'
  <2>1. Apart(s) /\ OwnInv(s) /\ MarksInv(s)
    BY <1>2 DEF ToldInv, Apart
  <2>2. Over(s) => Over(s)'
    BY OverStays
  <2>3. MarksInv(s)'
    BY <2>1, <2>2, MarksFrame
  <2>4. OwnInv(s)'
    BY <2>1 DEF OwnInv, OwnOccurrences, OneOccurrence, OwnRecords, Key
  <2> QED
    BY <2>3, <2>4
<1> QED
  BY <1>1, <1>2 DEF ToldInv

\* A step of a reconciliation that writes the ledger.
LEMMA SavingKeepsTold ==
    ASSUME ReminderInv, ReminderInv', ToldInv, op # NoOp, Saves \/ SaveFails,
           UNCHANGED <<now, life, occurrences, ledger, seen>>,
           op' = NoOp \/ op'.now = op.now, op'.items \subseteq op.items, ItemsInv'
    PROVE  ToldInv'
<1>1. life # "off"
  BY DEF ReminderInv, LifeInv
<1>2. saved' \in Histories
  BY DEF ToldInv, Saves, SaveFails
<1>3. ASSUME NEW s \in Sources, Apart(s)' PROVE OwnInv(s)' /\ MarksInv(s)'
  <2>1. Apart(s) /\ OwnInv(s) /\ MarksInv(s)
    BY <1>3 DEF ToldInv, Apart
  <2>2. now <= now'
    BY BoundAssumption DEF ReminderInv, Typed
  <2>3. Over(s) => Over(s)'
    BY <2>2, OverStays
  <2>4. MarksInv(s)' /\ (file' # NoFile => OwnRecords(file'.records, s))
    BY <1>1, <2>1, <2>3, MarksSaved
  <2>5. OwnOccurrences(op'.items, s)
    BY <2>1, SubsetIsOwn DEF OwnInv
  <2>6. OwnInv(s)'
    BY <2>1, <2>4, <2>5 DEF OwnInv, OwnOccurrences, OneOccurrence, OwnRecords, Key
  <2> QED
    BY <2>4, <2>6
<1> QED
  BY <1>2, <1>3 DEF ToldInv

LEMMA SubmitSelects ==
    ASSUME Typed, NEW items \in Batches, Submit(items), UNCHANGED ledger,
           \A o \in items : Key(o) \in Pending(ledger.records) /\ Due(o, op.now)
    PROVE  ItemsInv' /\ op'.items = items /\ op'.now = op.now
<1>1. PICK channel \in {"notice", "system", "deferred", "closed"} :
        op' = [op EXCEPT !.at = channel, !.items = items,
                         !.shown = IF channel \in {"notice", "system"} THEN items ELSE {}]
  BY DEF Submit
<1>2. /\ op'.items = items /\ op'.now = op.now /\ op'.shown \subseteq items
      /\ op'.at \notin Early
  BY <1>1 DEF Typed, Ops, Early
<1> QED
  BY <1>2 DEF ItemsInv, Pending, Due, Key

LEMMA PersistReconciledTold ==
    ReminderInv /\ ReminderInv' /\ ToldInv /\ PersistReconciled => ToldInv'
<1> SUFFICES ASSUME ReminderInv, ReminderInv', ToldInv, PersistReconciled PROVE ToldInv'
  OBVIOUS
<1>1. /\ op # NoOp /\ op \in Ops /\ op.at = "persist" /\ op.shown \subseteq op.items
      /\ op.items = {}
      /\ UNCHANGED <<now, life, occurrences, ledger, seen>>
  BY OpRuns DEF ReminderInv, Typed, PersistReconciled, world, ToldInv, ItemsInv, Early
<1>2. CASE Saves /\ GoesOn([op EXCEPT !.at = "automate"])
  <2>1. op' = [op EXCEPT !.at = "automate"]
    BY <1>2 DEF GoesOn
  <2>2. op'.at = "automate" /\ op'.now = op.now /\ op'.items = op.items /\ op'.shown = op.shown
    BY <1>1, <2>1 DEF Ops
  <2>3. ItemsInv'
    BY <1>1, <2>2 DEF ItemsInv, Selected
  <2> QED
    BY <1>1, <1>2, <2>2, <2>3, SavingKeepsTold
<1>3. CASE SaveFails /\ Finish(NextDelay(retry.persist), retry.delivery)
  <2>1. op' = NoOp /\ ItemsInv' /\ op'.items \subseteq op.items
    BY <1>3, NoOpItems DEF Finish
  <2> QED
    BY <1>1, <1>3, <2>1, SavingKeepsTold
<1> QED
  BY <1>2, <1>3 DEF PersistReconciled

LEMMA PersistExpiredTold ==
    ReminderInv /\ ReminderInv' /\ ToldInv /\ PersistExpired => ToldInv'
<1> SUFFICES ASSUME ReminderInv, ReminderInv', ToldInv, PersistExpired PROVE ToldInv'
  OBVIOUS
<1>1. /\ op # NoOp /\ Typed /\ op.items \in Batches /\ op.at = "persistExpired"
      /\ UNCHANGED <<now, life, occurrences, ledger, seen>>
  BY OpRuns DEF ReminderInv, Typed, Ops, PersistExpired, world
<1>2. \A o \in op.items : Key(o) \in Pending(ledger.records) /\ Due(o, op.now)
  BY <1>1 DEF ToldInv, ItemsInv, Selected
<1>3. CASE Saves /\ op.items = {} /\ Finish(NoRetry, NoRetry)
  <2>1. op' = NoOp /\ ItemsInv' /\ op'.items \subseteq op.items
    BY <1>3, NoOpItems DEF Finish
  <2> QED
    BY <1>1, <1>3, <2>1, SavingKeepsTold
<1>4. CASE Saves /\ Submit(op.items)
  <2>1. ItemsInv' /\ op'.items = op.items /\ op'.now = op.now
    BY <1>1, <1>2, <1>4, SubmitSelects
  <2> QED
    BY <1>1, <1>4, <2>1, SavingKeepsTold
<1>5. CASE SaveFails /\ Finish(NextDelay(retry.persist), retry.delivery)
  <2>1. op' = NoOp /\ ItemsInv' /\ op'.items \subseteq op.items
    BY <1>5, NoOpItems DEF Finish
  <2> QED
    BY <1>1, <1>5, <2>1, SavingKeepsTold
<1> QED
  BY <1>3, <1>4, <1>5 DEF PersistExpired

LEMMA PersistDeliveredTold ==
    ReminderInv /\ ReminderInv' /\ ToldInv /\ PersistDelivered => ToldInv'
<1> SUFFICES ASSUME ReminderInv, ReminderInv', ToldInv, PersistDelivered PROVE ToldInv'
  OBVIOUS
<1>1. /\ op # NoOp /\ UNCHANGED <<now, life, occurrences, ledger, seen>>
      /\ Saves \/ SaveFails
  BY OpRuns DEF ReminderInv, PersistDelivered, world
<1>2. op' = NoOp /\ ItemsInv' /\ op'.items \subseteq op.items
  BY NoOpItems DEF PersistDelivered, Finish
<1> QED
  BY <1>1, <1>2, SavingKeepsTold

\* A step of a reconciliation that answers only to the ledger in memory.
LEMMA LedgerKeepsTold ==
    ASSUME ReminderInv, ReminderInv', ToldInv, op # NoOp,
           UNCHANGED <<now, life, file, written, saved, occurrences>>,
           op' = NoOp \/ op'.now = op.now, seen' \in Histories, ItemsInv',
           op'.items \subseteq op.items \/ op'.items \subseteq occurrences,
           \A s \in Sources : Apart(s) =>
               /\ OwnRecords(ledger'.records, s)
               /\ Marked(ledger.records, s) => Marked(ledger'.records, s)
               /\ s \in seen'.told => s \in seen.told \/ Marked(ledger'.records, s)
    PROVE  ToldInv'
<1>1. life # "off"
  BY DEF ReminderInv, LifeInv
<1>2. saved' \in Histories
  BY DEF ToldInv
<1>3. ASSUME NEW s \in Sources, Apart(s)' PROVE OwnInv(s)' /\ MarksInv(s)'
  <2>1. Apart(s) /\ OwnInv(s) /\ MarksInv(s)
    BY <1>3 DEF ToldInv, Apart
  <2>2. now <= now'
    BY BoundAssumption DEF ReminderInv, Typed
  <2>3. Over(s) => Over(s)'
    BY <2>2, OverStays
  <2>4. /\ OwnRecords(ledger'.records, s)
        /\ Marked(ledger.records, s) => Marked(ledger'.records, s) \/ Over(s)'
        /\ s \in seen'.told => s \in seen.told \/ Marked(ledger'.records, s)
    BY <2>1
  <2>5. MarksInv(s)'
    BY <1>1, <2>1, <2>3, <2>4, MarksStay
  <2>6. OwnOccurrences(op'.items, s)
    BY <2>1, SubsetIsOwn DEF OwnInv
  <2>7. OwnInv(s)'
    BY <2>1, <2>4, <2>6 DEF OwnInv, OwnOccurrences, OneOccurrence, OwnRecords, Key
  <2> QED
    BY <2>5, <2>7
<1> QED
  BY <1>2, <1>3 DEF ToldInv

LEMMA AutomateTold == ReminderInv /\ ReminderInv' /\ ToldInv /\ Automate => ToldInv'
<1> SUFFICES ASSUME ReminderInv, ReminderInv', ToldInv, Automate PROVE ToldInv'
  OBVIOUS
<1>1. /\ op # NoOp /\ op \in Ops /\ op.shown \subseteq op.items
      /\ op' = [op EXCEPT !.at = "deliver"] /\ op.items = {}
      /\ UNCHANGED <<now, life, file, written, occurrences, ledger, seen, saved>>
  BY OpRuns DEF ReminderInv, Typed, Automate, world, history, ToldInv, ItemsInv, Early
<1>2. op'.at = "deliver" /\ op'.now = op.now /\ op'.items = op.items /\ op'.shown = op.shown
  BY <1>1 DEF Ops
<1>3. ItemsInv'
  BY <1>1, <1>2 DEF ItemsInv, Selected
<1>4. seen' \in Histories /\ \A s \in Sources : Apart(s) => OwnRecords(ledger.records, s)
  BY <1>1 DEF ToldInv, OwnInv
<1> QED
  BY <1>1, <1>2, <1>3, <1>4, LedgerKeepsTold

LEMMA SelectDueTold == ReminderInv /\ ReminderInv' /\ ToldInv /\ SelectDue => ToldInv'
<1> SUFFICES ASSUME ReminderInv, ReminderInv', ToldInv, SelectDue PROVE ToldInv'
  OBVIOUS
<1> DEFINE R == ledger.records
           live == {o \in occurrences : Key(o) \in Pending(R) /\ Authoritative(o)}
           items == {o \in live : Due(o, op.now)}
           expired == (Pending(R) \ {Key(o) : o \in live})
                      \cup {Key(o) : o \in {x \in live \ items : x.at <= op.now}}
<1>1. /\ Typed /\ op # NoOp /\ op \in Ops /\ op.now \in Nat /\ R \in [Keys -> Records]
      /\ op.at = "deliver" /\ op.shown = {} /\ seen \in Histories
      /\ UNCHANGED <<now, life, file, written, occurrences, seen, saved>>
  BY OpRuns DEF ReminderInv, Typed, Ops, Ledgers, SelectDue, world, history, ToldInv, ItemsInv, Early
<1>2. items \in Batches /\ items \subseteq occurrences
  BY <1>1 DEF Typed, Batches
<1>3. \A o \in items : Key(o) \in Pending(R) \ expired /\ Due(o, op.now)
  <2>1. SUFFICES ASSUME NEW o \in items, Key(o) \in expired PROVE FALSE
    OBVIOUS
  <2>2. PICK x \in live \ items : x.at <= op.now /\ Key(x) = Key(o)
    BY <2>1
  <2> QED
    BY <2>2 DEF Due, Key
<1>4. IF expired # {}
      THEN /\ ledger' = [ledger EXCEPT !.records = Close(@, expired, "expired", op.now)]
           /\ op' = [op EXCEPT !.at = "persistExpired", !.items = items]
      ELSE /\ IF items = {} THEN Finish(retry.persist, NoRetry) ELSE Submit(items)
           /\ UNCHANGED ledger
  BY DEF SelectDue
<1>5. \A s \in Sources : Apart(s) => OwnRecords(R, s)
  BY DEF ToldInv, OwnInv
<1>6. seen' \in Histories
  BY <1>1
<1> HIDE DEF items, expired
<1>7. CASE expired # {}
  <2>1. ledger'.records = Close(R, expired, "expired", op.now)
    BY <1>1, <1>4, <1>7 DEF Typed, Ledgers
  <2>2. /\ op'.at = "persistExpired" /\ op'.now = op.now /\ op'.items = items
        /\ op'.shown = {}
    BY <1>1, <1>4, <1>7 DEF Ops
  <2>3. \A o \in items : Key(o) \in Pending(ledger'.records)
    BY <1>3, <2>1 DEF Close, Pending
  <2>4. ItemsInv'
    BY <1>3, <2>2, <2>3 DEF ItemsInv, Pending, Due, Key, Early
  <2>5. ASSUME NEW s \in Sources, Apart(s)
        PROVE  /\ OwnRecords(ledger'.records, s)
               /\ Marked(ledger.records, s) => Marked(ledger'.records, s)
    BY <1>1, <1>5, <2>1, <2>5, CloseKeepsOwn
  <2> HIDE DEF R
  <2> QED
    BY <1>1, <1>2, <1>6, <2>2, <2>4, <2>5, LedgerKeepsTold
<1>8. CASE expired = {} /\ items = {}
  <2>1. op' = NoOp /\ ItemsInv' /\ op'.items \subseteq op.items
    BY <1>4, <1>8, NoOpItems DEF Finish
  <2> QED
    BY <1>1, <1>4, <1>5, <1>6, <1>8, <2>1, LedgerKeepsTold
<1>9. CASE expired = {} /\ items # {}
  <2>1. ItemsInv' /\ op'.items = items /\ op'.now = op.now
    BY <1>1, <1>2, <1>3, <1>4, <1>9, SubmitSelects
  <2> QED
    BY <1>1, <1>2, <1>4, <1>5, <1>6, <1>9, <2>1, LedgerKeepsTold
<1> QED
  BY <1>7, <1>8, <1>9

\* What is told is marked before anything else happens.
LEMMA PortAnswersTold == ReminderInv /\ ReminderInv' /\ ToldInv /\ PortAnswers => ToldInv'
<1> SUFFICES ASSUME ReminderInv, ReminderInv', ToldInv, PortAnswers PROVE ToldInv'
  OBVIOUS
<1> DEFINE R == ledger.records
<1>1. /\ Typed /\ op # NoOp /\ op \in Ops /\ op.now \in Nat /\ R \in [Keys -> Records]
      /\ op.at \in Selected /\ op.shown \subseteq op.items /\ seen \in Histories
      /\ UNCHANGED <<now, life, file, written, occurrences, saved>>
  BY OpRuns DEF ReminderInv, Typed, Ops, Ledgers, PortAnswers, world, ToldInv, ItemsInv, Selected
<1>2. \A o \in op.items : Key(o) \in Pending(R) /\ Due(o, op.now)
  BY <1>1 DEF ToldInv, ItemsInv
<1>3. \A s \in Sources : Apart(s) => OwnRecords(R, s) /\ OwnOccurrences(op.items, s)
  BY DEF ToldInv, OwnInv
<1>4. PICK told \in SUBSET op.shown :
        IF told = {}
        THEN op' = NoOp /\ UNCHANGED <<ledger, seen>>
        ELSE /\ ledger' = [ledger EXCEPT !.records =
                             Close(@, {Key(o) : o \in told}, "delivered", op.now)]
             /\ seen' = [seen EXCEPT !.told = @ \cup UNION {o.sources : o \in told}]
             /\ op' = [op EXCEPT !.at = IF told # op.items /\ op.at # "deferred"
                                        THEN "persistSome" ELSE "persistAll"]
  BY DEF PortAnswers, Finish
<1>5. CASE told = {}
  <2>1. op' = NoOp /\ ItemsInv' /\ op'.items \subseteq op.items
    BY <1>4, <1>5, NoOpItems
  <2> QED
    BY <1>1, <1>3, <1>4, <1>5, <2>1, LedgerKeepsTold
<1>6. CASE told # {}
  <2> DEFINE keys == {Key(o) : o \in told}
  <2>1. ledger'.records = Close(R, keys, "delivered", op.now)
    BY <1>1, <1>4, <1>6 DEF Typed, Ledgers
  <2>2. /\ op'.at \in {"persistSome", "persistAll"} /\ op'.now = op.now
        /\ op'.items = op.items /\ op'.shown = op.shown
    BY <1>1, <1>4, <1>6 DEF Ops
  <2>3. ItemsInv'
    BY <1>1, <2>2 DEF ItemsInv, Selected, Early
  <2>4. /\ seen'.told = seen.told \cup UNION {o.sources : o \in told}
        /\ seen' \in Histories
    <3>1. \A o \in told : o.sources \subseteq Sources
      BY <1>1 DEF Ops, Batches, Occurrences
    <3>2. /\ seen' = [seen EXCEPT !.told = seen.told \cup UNION {o.sources : o \in told}]
          /\ seen.told \cup UNION {o.sources : o \in told} \in SUBSET Sources
      BY <1>1, <1>4, <1>6, <3>1 DEF Histories
    <3> QED
      BY <1>1, <3>2 DEF Histories
  <2>5. ASSUME NEW s \in Sources, Apart(s)
        PROVE  /\ OwnRecords(ledger'.records, s)
               /\ Marked(ledger.records, s) => Marked(ledger'.records, s)
               /\ s \in seen'.told => s \in seen.told \/ Marked(ledger'.records, s)
    <3>1. OwnRecords(R, s) /\ OwnOccurrences(op.items, s)
      BY <1>3, <2>5
    <3>2. ASSUME NEW k \in keys, s \in R[k].sources PROVE Local[s] <= op.now
      <4>1. PICK o \in told : Key(o) = k
        OBVIOUS
      <4>2. Key(o) \in Keys /\ Key(o) \in KeysOf(s) /\ o.at <= op.now
        BY <1>1, <1>2, <3>1, <3>2, <4>1 DEF OwnRecords, Pending, Due
      <4>3. o.at \in {Local[s], Local[s] + 1} /\ Local[s] \in Nat
        BY <4>2, SourceAssumption, BoundAssumption DEF Key, KeysOf
      <4> QED
        BY <1>1, <4>2, <4>3
    <3>3. /\ OwnRecords(ledger'.records, s)
          /\ Marked(ledger.records, s) => Marked(ledger'.records, s)
      BY <1>1, <2>1, <3>1, <3>2, CloseKeepsOwn
    <3>4. ASSUME s \in seen'.told, s \notin seen.told PROVE Marked(ledger'.records, s)
      <4>1. PICK o \in told : s \in o.sources
        BY <2>4, <3>4
      <4>2. Key(o) \in KeysOf(s) /\ Key(o) \in Pending(R) /\ Key(o) \in Keys
        BY <1>1, <1>2, <3>1, <4>1 DEF OwnOccurrences, Pending
      <4>3. R[Key(o)].sources = {s}
        BY <3>1, <4>2 DEF OwnRecords, Pending
      <4>4. /\ ledger'.records[Key(o)].state = "delivered"
            /\ ledger'.records[Key(o)].sources = {s}
        BY <1>1, <2>1, <4>1, <4>2, <4>3 DEF Close, Records
      <4> QED
        BY <4>2, <4>4 DEF Marked
    <3> QED
      BY <3>3, <3>4
  <2> HIDE DEF R, keys
  <2> QED
    BY <1>1, <2>2, <2>3, <2>4, <2>5, LedgerKeepsTold
<1> QED
  BY <1>5, <1>6

\* The reconciliation finds each reminder once, and takes away a mark only when it prunes.
LEMMA ReconcileTold == ReminderInv /\ ReminderInv' /\ ToldInv /\ Reconcile => ToldInv'
<1> SUFFICES ASSUME ReminderInv, ReminderInv', ToldInv, Reconcile PROVE ToldInv'
  OBVIOUS
<1> DEFINE T == Head(queue)
           n == now
           all == {o \in occurrences : o.task \notin T} \cup UNION {Found(t) : t \in T \ duplicate}
           missed == {o \in all : Missed(o, T, n)}
           R == ledger.records
           held == {o \in all \ missed : Key(o) \in Pending(R) /\ Authoritative(o)}
           unheld == {k \in Pending(R) : ~\E o \in all : Key(o) = k /\ Authoritative(o)}
           stale == {Key(o) : o \in {x \in held : x.at <= n /\ ~Due(x, n)}}
           fresh == {o \in all \ missed :
                       /\ Due(o, n) /\ R[Key(o)].state \notin {"pending", "delivered", "suppressed"}
                       /\ ~Finalized(R, o.sources) /\ Authoritative(o)}
           entered == held \cup fresh
           out == unheld \cup stale
           put == PutPending(R, entered)
           suppressed == Suppress(put, missed, n)
           closed == Close(suppressed, out, "expired", n)
<1>1. /\ Typed /\ life # "off" /\ op = NoOp /\ queue # <<>> /\ n \in Nat /\ R \in [Keys -> Records]
      /\ seen \in Histories /\ saved \in Histories
  BY BoundAssumption DEF ReminderInv, Reconcile, Typed, Ledgers, Active, Subscribed, ToldInv
<1>2. /\ occurrences' = all /\ ledger'.records = Prune(closed, n)
      /\ op' = [NoOp EXCEPT !.at = "persist", !.now = n,
                            !.candidates = fresh \cup {o \in held : Due(o, n)}]
      /\ seen' = Observed(T, n)
      /\ UNCHANGED <<now, life, file, written, saved>>
  BY DEF Reconcile, world
<1>3. T \subseteq Tasks
  BY <1>1, HeadTailProperties DEF Typed
<1>4. all \subseteq Occurrences /\ \A t \in T : \A o \in Found(t) : o.task = t
  BY <1>1, <1>3, FoundTyped DEF Typed, Found
<1>5. /\ entered \in SUBSET Occurrences /\ missed \in SUBSET Occurrences
      /\ entered \in SUBSET all /\ missed \in SUBSET all
  BY <1>4
<1>6. op'.at = "persist" /\ op'.now = now /\ op'.items = {} /\ op'.shown = {}
  BY <1>2 DEF NoOp
<1>7. ItemsInv'
  BY <1>6 DEF ItemsInv, Early, Selected
<1>8. seen' \in Histories /\ seen'.told = seen.told
  BY <1>1, <1>2, <1>3 DEF Observed, Histories
<1>9. ASSUME NEW s \in Sources, Apart(s) PROVE OwnOccurrences(all, s) /\ OneOccurrence(all, s)
  <2>1. OwnOccurrences(occurrences, s) /\ OneOccurrence(occurrences, s)
    BY <1>9 DEF ToldInv, OwnInv
  <2>2. \A t \in T : OwnOccurrences(Found(t), s) /\ OneOccurrence(Found(t), s)
    BY <1>1, <1>3, <1>9, FoundIsOwn
  <2>3. OwnOccurrences(all, s)
    BY <2>1, <2>2 DEF OwnOccurrences
  <2>4. \A o \in all : s \in o.sources => o.task = Owner[s]
    BY <2>3 DEF OwnOccurrences, Key, KeysOf
  <2>5. ASSUME NEW o \in all, NEW p \in all, s \in o.sources, s \in p.sources PROVE o = p
    <3>1. o.task = Owner[s] /\ p.task = Owner[s]
      BY <2>4, <2>5
    <3>2. CASE Owner[s] \in T
      <4>1. o \in Found(Owner[s]) /\ p \in Found(Owner[s])
        BY <1>4, <3>1, <3>2
      <4> QED
        BY <2>2, <2>5, <3>2, <4>1 DEF OneOccurrence
    <3>3. CASE Owner[s] \notin T
      <4>1. o \in occurrences /\ p \in occurrences
        BY <1>4, <3>1, <3>3
      <4> QED
        BY <2>1, <2>5, <4>1 DEF OneOccurrence
    <3> QED
      BY <3>2, <3>3
  <2> HIDE DEF all
  <2> QED
    BY <2>3, <2>5 DEF OneOccurrence
<1> HIDE DEF T, n, all, missed, R, held, unheld, stale, fresh, entered, out
<1>10. put \in [Keys -> Records]
  BY <1>1, <1>5, PutPendingTyped
<1>11. suppressed \in [Keys -> Records]
  <2> HIDE DEF put
  <2> QED
    BY <1>1, <1>5, <1>10, SuppressTyped
<1>12. closed \in [Keys -> Records]
  <2>1. "expired" \in States
    BY DEF States
  <2> HIDE DEF suppressed
  <2> QED
    BY <1>1, <1>11, <2>1, CloseTyped
<1>13. ASSUME NEW s \in Sources, Apart(s)'
       PROVE  OwnInv(s)' /\ MarksInv(s)'
  <2>1. Apart(s) /\ OwnInv(s) /\ MarksInv(s)
    BY <1>13 DEF ToldInv, Apart
  <2>2. OwnOccurrences(all, s) /\ OneOccurrence(all, s)
    BY <1>9, <2>1
  <2>3. OwnOccurrences(entered, s) /\ OneOccurrence(entered, s) /\ OwnOccurrences(missed, s)
    BY <1>5, <2>2, SubsetIsOwn
  <2>4. OwnRecords(R, s)
    BY <2>1 DEF OwnInv, R
  <2>5. OwnRecords(put, s) /\ (Marked(R, s) => Marked(put, s))
    BY <1>1, <1>5, <2>3, <2>4, PutPendingKeepsOwn
  <2>6. OwnRecords(suppressed, s) /\ (Marked(put, s) => Marked(suppressed, s))
    <3> HIDE DEF put
    <3> QED
      BY <1>5, <1>10, <2>3, <2>5, SuppressKeepsOwn
  <2>7. OwnRecords(closed, s) /\ (Marked(suppressed, s) => Marked(closed, s))
    <3> HIDE DEF suppressed
    <3> QED
      BY <1>1, <1>11, <2>6, CloseKeepsOwn
  <2> HIDE DEF closed
  <2>8. /\ OwnRecords(ledger'.records, s)
        /\ Marked(closed, s) => Marked(ledger'.records, s) \/ Local[s] + 1 + Window < n
    BY <1>1, <1>2, <1>12, <2>7, PruneKeepsOwn
  <2>9. Local[s] + 1 + Window < n => Over(s)'
    <3>1. op' # NoOp
      BY <1>6 DEF NoOp
    <3> QED
      BY <1>6, <3>1 DEF Over, Clock, n
  <2>10. Over(s) => Over(s)'
    <3>1. now <= now'
      BY <1>1, <1>2 DEF n
    <3>2. op'.now = now
      BY <1>6
    <3> QED
      BY <1>1, <3>1, <3>2, OverStays
  <2>11. Marked(ledger.records, s) => Marked(ledger'.records, s) \/ Over(s)'
    BY <2>5, <2>6, <2>7, <2>8, <2>9 DEF R
  <2>12. MarksInv(s)'
    BY <1>1, <1>2, <1>8, <2>1, <2>10, <2>11, MarksStay
  <2>13. OwnOccurrences(op'.items, s)
    BY <1>6 DEF OwnOccurrences
  <2>14. OwnInv(s)'
    BY <1>2, <2>1, <2>2, <2>8, <2>13
       DEF OwnInv, OwnOccurrences, OneOccurrence, OwnRecords, Key
  <2> QED
    BY <2>12, <2>14
<1> QED
  BY <1>1, <1>2, <1>7, <1>8, <1>13 DEF ToldInv

\* A session begins with the marks that the file holds.
LEMMA StartTold == ReminderInv /\ ReminderInv' /\ ToldInv /\ Start => ToldInv'
<1> SUFFICES ASSUME ReminderInv, ReminderInv', ToldInv, Start PROVE ToldInv'
  OBVIOUS
<1>1. /\ life = "off" /\ life' = "running" /\ written' = file
      /\ ledger' = IF file = NoFile THEN EmptyLedger ELSE file
      /\ UNCHANGED <<now, file, occurrences, op, seen, saved>>
  BY DEF Start, world, history
<1>2. op = NoOp /\ op' = NoOp
  BY <1>1 DEF ReminderInv, LifeInv
<1>3. ItemsInv'
  BY <1>2, NoOpItems
<1>4. ASSUME NEW s \in Sources, Apart(s)' PROVE OwnInv(s)' /\ MarksInv(s)'
  <2>1. Apart(s) /\ OwnInv(s) /\ MarksInv(s) /\ seen = saved
    BY <1>1, <1>4 DEF ToldInv, Apart, MarksInv
  <2>2. Over(s)' <=> Over(s)
    BY <1>1 DEF Over, Clock
  <2>3. /\ OnFile(s)' <=> OnFile(s)
        /\ Written(s)' <=> OnFile(s)
    BY <1>1 DEF OnFile, Written, Marked
  <2>4. OnFile(s) => Marked(ledger.records, s)'
    BY <1>1 DEF OnFile, Marked
  <2>5. s \in saved.told => OnFile(s) \/ Over(s)
    BY <2>1 DEF MarksInv
  <2>6. MarksInv(s)'
    BY <1>1, <2>1, <2>2, <2>3, <2>4, <2>5 DEF MarksInv
  <2>7. OwnRecords(ledger'.records, s)
    BY <1>1, <2>1, EmptyIsOwn DEF OwnInv
  <2>8. OwnInv(s)'
    BY <1>1, <2>1, <2>7 DEF OwnInv, OwnOccurrences, OneOccurrence, OwnRecords, Key
  <2> QED
    BY <2>6, <2>8
<1> QED
  BY <1>1, <1>3, <1>4 DEF ToldInv

\* A session that ends forgets what the file does not hold.
LEMMA SessionEndTold == ReminderInv /\ ReminderInv' /\ ToldInv /\ (Crash \/ Quit) => ToldInv'
<1> SUFFICES ASSUME ReminderInv, ReminderInv', ToldInv, Crash \/ Quit PROVE ToldInv'
  OBVIOUS
<1>1. /\ life' = "off" /\ occurrences' = {} /\ ledger' = EmptyLedger /\ written' = NoFile
      /\ op' = NoOp /\ seen' = saved /\ UNCHANGED <<now, file, saved>>
  BY DEF Crash, Quit, SessionEnds, world
<1>2. ItemsInv' /\ op'.items = {}
  BY <1>1, NoOpItems
<1>3. ASSUME NEW s \in Sources, Apart(s)' PROVE OwnInv(s)' /\ MarksInv(s)'
  <2>1. Apart(s) /\ OwnInv(s) /\ MarksInv(s)
    BY <1>3 DEF ToldInv, Apart
  <2>2. now <= now'
    BY <1>1, BoundAssumption DEF ReminderInv, Typed
  <2>3. Over(s) => Over(s)'
    BY <1>1, <2>2, OverStays
  <2>4. /\ OnFile(s)' <=> OnFile(s)
        /\ ~Written(s)'
    BY <1>1 DEF OnFile, Written, Marked
  <2>5. MarksInv(s)'
    BY <1>1, <2>1, <2>3, <2>4 DEF MarksInv
  <2>6. OwnRecords(ledger'.records, s)
    BY <1>1, EmptyIsOwn
  <2>7. OwnInv(s)'
    BY <1>1, <1>2, <2>1, <2>6 DEF OwnInv, OwnOccurrences, OneOccurrence, OwnRecords
  <2> QED
    BY <2>5, <2>7
<1> QED
  BY <1>1, <1>2, <1>3 DEF ToldInv

LEMMA InitTold == Init => ToldInv
<1> SUFFICES ASSUME Init PROVE ToldInv
  OBVIOUS
<1>1. /\ file = NoFile /\ life = "off" /\ occurrences = {} /\ ledger = EmptyLedger
      /\ written = NoFile /\ op = NoOp /\ seen = NothingSeen /\ saved = NothingSeen
  BY DEF Init
<1>2. NothingSeen \in Histories /\ NothingSeen.told = {}
  BY DEF NothingSeen, Histories
<1>3. ItemsInv
  BY <1>1 DEF ItemsInv, NoOp, Early, Selected
<1>4. ASSUME NEW s \in Sources PROVE OwnInv(s) /\ MarksInv(s)
  <2>1. OwnInv(s)
    BY <1>1, EmptyIsOwn DEF OwnInv, OwnOccurrences, OneOccurrence, NoOp
  <2>2. MarksInv(s)
    BY <1>1, <1>2 DEF MarksInv, Written
  <2> QED
    BY <2>1, <2>2
<1> QED
  BY <1>1, <1>2, <1>3, <1>4 DEF ToldInv

LEMMA StepTold == ReminderInv /\ ReminderInv' /\ ToldInv /\ [Next]_vars => ToldInv'
<1> SUFFICES ASSUME ReminderInv, ReminderInv', ToldInv, [Next]_vars PROVE ToldInv'
  OBVIOUS
<1>1. CASE OpStep
  BY <1>1, ReconcileTold, PersistReconciledTold, AutomateTold, SelectDueTold,
     PersistExpiredTold, PortAnswersTold, PersistDeliveredTold DEF OpStep
<1>2. CASE Start \/ Crash \/ Quit
  BY <1>2, StartTold, SessionEndTold
<1>3. now \in Nat
  BY BoundAssumption DEF ReminderInv, Typed
<1>4. CASE PortCloses \/ DestroyBegins \/ DestroyEnds
  <2>1. UNCHANGED <<now, file, written, seen, saved, ledger, occurrences, op>>
    BY <1>4 DEF PortCloses, DestroyBegins, DestroyEnds, world, memory, history
  <2>2. life # "off" /\ life' # "off"
    BY <1>4 DEF PortCloses, DestroyBegins, DestroyEnds
  <2> QED
    BY <1>3, <2>1, <2>2, OutsideKeepsTold
<1>5. CASE \/ TimerFires \/ Tick \/ FocusChanges \/ ZoneChanges \/ UNCHANGED vars
           \/ \E t \in Tasks : TaskChanges(t)
  <2>1. UNCHANGED <<file, written, seen, saved, ledger, occurrences, op, life>>
    BY <1>5 DEF TimerFires, Tick, FocusChanges, ZoneChanges, TaskChanges, memory, history, vars
  <2>2. now' = now \/ now' = now + 1
    BY <1>5 DEF TimerFires, Tick, FocusChanges, ZoneChanges, TaskChanges, world, vars
  <2> QED
    BY <1>3, <2>1, <2>2, OutsideKeepsTold
<1> QED
  BY <1>1, <1>2, <1>4, <1>5 DEF Next

\* What the ledger knows of a reminder that no other one can meet: every
\* reminder that was told stays marked as delivered, in memory, and in the file
\* once that was written, until it is over.
THEOREM ToldStaysMarked == Spec => []ToldInv
  BY InitTold, StepTold, ReminderInvariant, PTL DEF Spec

LEMMA SelectedIsNew == ReminderInv /\ ToldInv => SelectionIsNew
<1> SUFFICES ASSUME ReminderInv, ToldInv, op.at \in Selected,
                    NEW o \in op.items, NEW s \in o.sources, Apart(s), s \in seen.told
             PROVE  FALSE
  BY DEF SelectionIsNew
<1> DEFINE R == ledger.records
<1>1. s \in Sources /\ life # "off" /\ op # NoOp /\ op.now \in Nat
  BY OpRuns DEF ReminderInv, Typed, Ops, Batches, Occurrences, LifeInv, Selected
<1>2. OwnInv(s) /\ MarksInv(s) /\ Key(o) \in Pending(R) /\ Due(o, op.now)
  BY <1>1 DEF ToldInv, ItemsInv
<1>3. Key(o) \in KeysOf(s) /\ Key(o) \in Keys /\ R[Key(o)].state = "pending"
  BY <1>2 DEF OwnInv, OwnOccurrences, Pending
<1>4. R[Key(o)].sources = {s}
  BY <1>2, <1>3 DEF OwnInv, OwnRecords
<1>5. ~Over(s)
  <2>1. o.at \in {Local[s], Local[s] + 1} /\ Local[s] \in Nat /\ Window \in Nat
    BY <1>1, <1>3, SourceAssumption, WindowAssumption, BoundAssumption DEF Key, KeysOf
  <2>2. Clock = op.now /\ op.now <= o.at + Window
    BY <1>1, <1>2 DEF Clock, Due
  <2> QED
    BY <1>1, <2>1, <2>2 DEF Over
<1>6. PICK l \in Keys : s \in R[l].sources /\ R[l].state = "delivered"
  BY <1>1, <1>2, <1>5 DEF MarksInv, Marked
<1>7. Key(o) = l
  BY <1>2, <1>3, <1>4, <1>6 DEF OwnInv, OwnRecords
<1> QED
  BY <1>3, <1>6, <1>7

\* Only the delivery of a batch shows anything.
LEMMA ShowsSelected ==
    ReminderInv /\ ToldInv /\ [Next]_vars /\ op.shown = {} /\ op'.shown # {} =>
        op'.at \in Selected /\ seen' = seen /\ op'.shown \subseteq op'.items
<1> SUFFICES ASSUME ReminderInv, ToldInv, [Next]_vars, op.shown = {}, op'.shown # {}
             PROVE  op'.at \in Selected /\ seen' = seen /\ op'.shown \subseteq op'.items
  OBVIOUS
<1>1. op \in Ops /\ op'.shown # op.shown /\ op' # op /\ op' # NoOp
  BY DEF ReminderInv, Typed, NoOp
<1>2. ASSUME NEW items, Submit(items) PROVE op'.at \in Selected /\ op'.shown \subseteq op'.items
  <2>1. PICK channel \in {"notice", "system", "deferred", "closed"} :
          op' = [op EXCEPT !.at = channel, !.items = items,
                           !.shown = IF channel \in {"notice", "system"} THEN items ELSE {}]
    BY <1>2 DEF Submit
  <2> QED
    BY <1>1, <2>1 DEF Ops, Selected
<1>3. CASE SelectDue
  <2>1. ASSUME NEW items, op' = [op EXCEPT !.at = "persistExpired", !.items = items] PROVE FALSE
    BY <1>1, <2>1 DEF Ops
  <2>2. seen' = seen
    BY <1>3 DEF SelectDue, history
  <2>3. \E items : Submit(items)
    BY <1>1, <1>3, <2>1 DEF SelectDue, Finish
  <2> QED
    BY <1>2, <2>2, <2>3
<1>4. CASE PersistExpired
  <2>1. Submit(op.items) /\ seen' = seen
    BY <1>1, <1>4 DEF PersistExpired, Finish
  <2> QED
    BY <1>2, <2>1
<1>5. CASE Reconcile
  <2>1. op'.shown = {}
    BY <1>5 DEF Reconcile, NoOp
  <2> QED
    BY <2>1
<1>6. CASE PersistReconciled
  <2>1. op' = [op EXCEPT !.at = "automate"]
    BY <1>1, <1>6 DEF PersistReconciled, GoesOn, Finish
  <2> QED
    BY <1>1, <2>1 DEF Ops
<1>7. CASE Automate
  <2>1. op' = [op EXCEPT !.at = "deliver"]
    BY <1>7 DEF Automate
  <2> QED
    BY <1>1, <2>1 DEF Ops
<1>8. CASE PortAnswers \/ PersistDelivered
  <2>1. op' = NoOp \/ \E at : op' = [op EXCEPT !.at = at]
    BY <1>8 DEF PortAnswers, PersistDelivered, Finish
  <2> QED
    BY <1>1, <2>1 DEF Ops
<1>9. CASE Start \/ Crash \/ Quit \/ PortCloses \/ DestroyBegins \/ DestroyEnds
  BY <1>1, <1>9 DEF Start, Crash, Quit, SessionEnds, PortCloses, DestroyBegins, DestroyEnds
<1>10. CASE \/ TimerFires \/ Tick \/ FocusChanges \/ ZoneChanges \/ UNCHANGED vars
            \/ \E t \in Tasks : TaskChanges(t)
  BY <1>1, <1>10 DEF TimerFires, Tick, FocusChanges, ZoneChanges, TaskChanges, vars
<1> QED
  BY <1>3, <1>4, <1>5, <1>6, <1>7, <1>8, <1>9, <1>10 DEF Next, OpStep

\* A reminder that no other one of its task can meet is shown once: not again in
\* the session, nor after a restart that finds the ledger written since, nor under
\* another instant of the same local time (deliverPending and hasFinalizedSource).
THEOREM ShownOnce == Spec => ToldOnce
<1>1. /\ ReminderInv /\ ToldInv /\ SelectionIsNew' /\ [Next]_vars
      => [\A o \in Shows : \A s \in o.sources : Apart(s) => s \notin seen.told]_vars
  <2> SUFFICES ASSUME ReminderInv, ToldInv, SelectionIsNew', [Next]_vars,
                      NEW o \in Shows, NEW s \in o.sources, Apart(s)
               PROVE  s \notin seen.told
    OBVIOUS
  <2>1. op.shown = {} /\ o \in op'.shown
    BY DEF Shows
  <2>2. op'.at \in Selected /\ seen' = seen /\ o \in op'.items
    BY <2>1, ShowsSelected
  <2>3. Apart(s)'
    BY DEF Apart
  <2> QED
    BY <2>2, <2>3 DEF SelectionIsNew
<1> QED
  BY <1>1, SelectedIsNew, ReminderInvariant, ToldStaysMarked, PTL DEF Spec, ToldOnce

----------------------------------------------------------------------------
(* A task that was completed and opened again *)

\* What an occurrence of a reminder and its keys have to do with its local time.
LEMMA OwnTimes ==
    ASSUME NEW s \in Sources, NEW O \in SUBSET Occurrences, OwnOccurrences(O, s),
           NEW o \in O, s \in o.sources
    PROVE  /\ Local[s] \in Nat /\ o.at \in Nat /\ o.task = Owner[s] /\ o.sources = {s}
           /\ Local[s] <= o.at /\ o.at <= Local[s] + 1 /\ Key(o) \in KeysOf(s) /\ Key(o) \in Keys
<1>1. Key(o) \in KeysOf(s) /\ o.sources = {s} /\ Local[s] \in Nat /\ o.at \in Nat
  BY SourceAssumption, BoundAssumption DEF OwnOccurrences, Occurrences, Times
<1>2. o.task = Owner[s] /\ o.at \in {Local[s], Local[s] + 1}
  BY <1>1 DEF Key, KeysOf
<1> QED
  BY <1>1, <1>2, KeysTyped

LEMMA CloseKeepsFinal ==
    ASSUME NEW R \in [Keys -> Records], NEW keys, NEW n \in Nat,
           NEW state \in {"expired", "delivered"}
    PROVE  /\ Pending(Close(R, keys, state, n)) = Pending(R) \ keys
           /\ \A S : Finalized(R, S) => Finalized(Close(R, keys, state, n), S)
           /\ \A s : SuppressedSince(R, s) => SuppressedSince(Close(R, keys, state, n), s)
<1> DEFINE N == Close(R, keys, state, n)
<1>1. \A k \in Keys :
        /\ N[k].sources = R[k].sources
        /\ k \notin keys \cap Pending(R) => N[k] = R[k]
        /\ k \in keys \cap Pending(R) => N[k].state = state /\ N[k].since = n
  BY DEF Close, Records
<1>2. \A k \in Keys : k \in Pending(R) <=> R[k].state = "pending"
  BY DEF Pending
<1> HIDE DEF N
<1>3. Pending(N) = Pending(R) \ keys
  BY <1>1 DEF Pending
<1>4. \A S : Finalized(R, S) => Finalized(N, S)
  BY <1>1, <1>2 DEF Finalized
<1>5. \A s : SuppressedSince(R, s) => SuppressedSince(N, s)
  BY <1>1, <1>2 DEF SuppressedSince
<1> QED
  BY <1>3, <1>4, <1>5 DEF N

LEMMA PruneKeepsFinal ==
    ASSUME NEW s \in Sources, NEW R \in [Keys -> Records], NEW n \in Nat,
           OwnRecords(R, s), SuppressedSince(R, s)
    PROVE  /\ Pending(Prune(R, n)) = Pending(R)
           /\ SuppressedSince(Prune(R, n), s)
           /\ Finalized(R, {s}) => Finalized(Prune(R, n), {s}) \/ Local[s] + 1 + Window < n
<1> DEFINE N == Prune(R, n)
<1>1. \A k \in Keys : \/ N[k] = R[k]
                      \/ /\ N[k].sources = {} /\ N[k].state = "none" /\ R[k].since + Retention < n
                         /\ R[k].state # "pending"
  BY DEF Prune, NoRecord, Pending
<1> HIDE DEF N
<1>2. Pending(N) = Pending(R)
  BY <1>1 DEF Pending
<1>3. SuppressedSince(N, s)
  BY <1>1 DEF SuppressedSince
<1>4. ASSUME NEW k \in Keys, s \in R[k].sources, R[k].state \in {"delivered", "suppressed"},
             R[k].since + Retention < n
      PROVE  Local[s] + 1 + Window < n
  <2>1. Local[s] <= R[k].since
    BY <1>4 DEF OwnRecords, SuppressedSince
  <2>2. /\ R[k].since \in Nat /\ Local[s] \in Nat
        /\ Window \in Nat /\ Retention \in Nat /\ Window < Retention
    BY SourceAssumption, WindowAssumption, BoundAssumption DEF Records
  <2> QED
    BY <1>4, <2>1, <2>2
<1>5. Finalized(R, {s}) => Finalized(N, {s}) \/ Local[s] + 1 + Window < n
  <2>1. SUFFICES ASSUME Finalized(R, {s}), ~(Local[s] + 1 + Window < n) PROVE Finalized(N, {s})
    OBVIOUS
  <2>2. PICK k \in Keys : R[k].state \in {"delivered", "suppressed"} /\ s \in R[k].sources
    BY <2>1 DEF Finalized
  <2>3. N[k] = R[k]
    BY <1>1, <1>4, <2>1, <2>2
  <2> QED
    BY <2>2, <2>3 DEF Finalized
<1> QED
  BY <1>2, <1>3, <1>5 DEF N

LEMMA PutPendingKeepsFinal ==
    ASSUME NEW s \in Sources, NEW R \in [Keys -> Records], NEW P \in SUBSET Occurrences,
           OwnOccurrences(P, s), OwnRecords(R, s), SuppressedSince(R, s)
    PROVE  /\ \A k \in Pending(PutPending(R, P)) : k \in Pending(R) \/ \E o \in P : Key(o) = k
           /\ SuppressedSince(PutPending(R, P), s)
           /\ Finalized(R, {s}) => Finalized(PutPending(R, P), {s})
<1> DEFINE puts == {o \in P : ~Finalized(R, o.sources)}
           N == PutPending(R, P)
           Puts(k) == \E o \in puts : Key(o) = k
<1>1. ASSUME NEW k \in Keys
      PROVE  /\ Puts(k) => N[k].state = "pending"
             /\ ~Puts(k) => N[k] = R[k] \/ (N[k].state = "none" /\ R[k].state = "pending")
  BY DEF PutPending, NoRecord, Pending
<1>2. \A k \in Keys : Puts(k) => \E o \in P : Key(o) = k
  OBVIOUS
<1>3. ASSUME NEW k \in Keys, s \in R[k].sources, R[k].state \in {"delivered", "suppressed"}
      PROVE  ~Puts(k)
  <2>1. SUFFICES ASSUME NEW o \in P, ~Finalized(R, o.sources), Key(o) = k PROVE FALSE
    OBVIOUS
  <2>2. k \in KeysOf(s)
    BY <1>3 DEF OwnRecords
  <2>3. s \in o.sources
    BY <2>1, <2>2 DEF OwnOccurrences
  <2> QED
    BY <1>3, <2>1, <2>3 DEF Finalized
<1> HIDE DEF N, Puts
<1>4. \A k \in Pending(N) : k \in Pending(R) \/ \E o \in P : Key(o) = k
  BY <1>1, <1>2 DEF Pending
<1>5. SuppressedSince(N, s)
  BY <1>1 DEF SuppressedSince
<1>6. Finalized(R, {s}) => Finalized(N, {s})
  <2>1. SUFFICES ASSUME Finalized(R, {s}) PROVE Finalized(N, {s})
    OBVIOUS
  <2>2. PICK k \in Keys : R[k].state \in {"delivered", "suppressed"} /\ s \in R[k].sources
    BY <2>1 DEF Finalized
  <2>3. N[k] = R[k]
    BY <1>1, <1>3, <2>2
  <2> QED
    BY <2>2, <2>3 DEF Finalized
<1> QED
  BY <1>4, <1>5, <1>6 DEF N

\* What is suppressed is closed for good.
LEMMA SuppressCloses ==
    ASSUME NEW s \in Sources, NEW R \in [Keys -> Records], NEW P \in SUBSET Occurrences,
           NEW n \in Nat, OwnOccurrences(P, s), OwnRecords(R, s), SuppressedSince(R, s),
           \A o \in P : o.at <= n
    PROVE  /\ Pending(Suppress(R, P, n)) \subseteq Pending(R)
           /\ SuppressedSince(Suppress(R, P, n), s)
           /\ Finalized(R, {s}) => Finalized(Suppress(R, P, n), {s})
           /\ \A o \in P : s \in o.sources => Finalized(Suppress(R, P, n), {s})
<1> DEFINE N == Suppress(R, P, n)
           Changes(k) == \E o \in P : Key(o) = k /\ ~Finalized(R, o.sources)
<1>1. ASSUME NEW k \in Keys
      PROVE  /\ ~Changes(k) => N[k] = R[k]
             /\ Changes(k) => /\ N[k].state = "suppressed" /\ N[k].since = n
                              /\ \E o \in P : Key(o) = k /\ N[k].sources = o.sources
  <2>1. N[k] = IF Changes(k)
               THEN [state |-> "suppressed", since |-> n,
                     sources |-> (CHOOSE o \in P : Key(o) = k).sources]
               ELSE R[k]
    BY DEF Suppress
  <2>2. CASE Changes(k)
    <3>1. PICK c \in P : c = CHOOSE o \in P : Key(o) = k
      BY <2>2
    <3>2. Key(c) = k
      BY <2>2, <3>1
    <3>3. N[k] = [state |-> "suppressed", since |-> n, sources |-> c.sources]
      BY <2>1, <2>2, <3>1
    <3> QED
      BY <2>2, <3>2, <3>3
  <2> QED
    BY <2>1, <2>2
<1>2. ASSUME NEW k \in Keys, s \in R[k].sources, R[k].state \in {"delivered", "suppressed"}
      PROVE  ~Changes(k)
  <2>1. SUFFICES ASSUME NEW o \in P, ~Finalized(R, o.sources), Key(o) = k PROVE FALSE
    OBVIOUS
  <2>2. k \in KeysOf(s)
    BY <1>2 DEF OwnRecords
  <2>3. s \in o.sources
    BY <2>1, <2>2 DEF OwnOccurrences
  <2> QED
    BY <1>2, <2>1, <2>3 DEF Finalized
<1>3. ASSUME NEW o \in P, s \in o.sources, ~Finalized(R, {s}) PROVE Changes(Key(o)) /\ Key(o) \in Keys
  BY <1>3, OwnTimes
<1> HIDE DEF N, Changes
<1>4. Pending(N) \subseteq Pending(R)
  BY <1>1 DEF Pending
<1>5. SuppressedSince(N, s)
  <2>1. SUFFICES ASSUME NEW k \in Keys, s \in N[k].sources, N[k].state = "suppressed"
                 PROVE  Local[s] <= N[k].since
    BY DEF SuppressedSince
  <2>2. CASE Changes(k)
    <3>1. PICK o \in P : Key(o) = k /\ N[k].sources = o.sources
      BY <1>1, <2>2
    <3>2. Local[s] <= o.at /\ o.at <= n /\ N[k].since = n /\ Local[s] \in Nat /\ o.at \in Nat
      BY <1>1, <2>1, <2>2, <3>1, OwnTimes
    <3> QED
      BY <3>2
  <2>3. CASE ~Changes(k)
    BY <1>1, <2>1, <2>3 DEF SuppressedSince
  <2> QED
    BY <2>2, <2>3
<1>6. Finalized(R, {s}) => Finalized(N, {s})
  <2>1. SUFFICES ASSUME Finalized(R, {s}) PROVE Finalized(N, {s})
    OBVIOUS
  <2>2. PICK k \in Keys : R[k].state \in {"delivered", "suppressed"} /\ s \in R[k].sources
    BY <2>1 DEF Finalized
  <2>3. N[k] = R[k]
    BY <1>1, <1>2, <2>2
  <2> QED
    BY <2>2, <2>3 DEF Finalized
<1>7. ASSUME NEW o \in P, s \in o.sources, ~Finalized(R, {s}) PROVE Finalized(N, {s})
  <2>1. Changes(Key(o)) /\ Key(o) \in Keys
    BY <1>3, <1>7
  <2>2. PICK p \in P : Key(p) = Key(o) /\ N[Key(o)].sources = p.sources
    BY <1>1, <2>1
  <2>3. s \in p.sources
    BY <1>7, <2>2, OwnTimes DEF OwnOccurrences
  <2> QED
    BY <1>1, <2>1, <2>2, <2>3 DEF Finalized
<1> QED
  BY <1>4, <1>5, <1>6, <1>7 DEF N

LEMMA FileLedgerTyped == Typed => FileLedger \in Ledgers /\ ledger \in Ledgers
  BY EmptyLedgerTyped DEF Typed, FileLedger

\* A step that is not one of a reconciliation.
LEMMA OutsideKeepsReopened ==
    ASSUME Typed, Typed', ReopenInv, now <= now',
           UNCHANGED <<file, saved, seen, ledger, occurrences>>,
           life' = life \/ (life # "off" /\ life' # "off")
    PROVE  ReopenInv'
<1>1. /\ FileLedger' = FileLedger /\ FileLedger.lifecycles \in [Tasks -> Lifecycles]
      /\ ledger.lifecycles \in [Tasks -> Lifecycles] /\ now \in Nat /\ now' \in Nat
  BY FileLedgerTyped, BoundAssumption DEF FileLedger, Ledgers, Typed
<1>2. \A n \in Nat : n <= now => n <= now'
  BY <1>1
<1>3. \A t \in Tasks : FileLedger.lifecycles[t].cutoff \in Nat /\ ledger.lifecycles[t].cutoff \in Nat
  BY <1>1 DEF Lifecycles
<1>4. Follows(saved, FileLedger.lifecycles)'
  BY <1>1, <1>2, <1>3 DEF ReopenInv, LifecycleInv, Follows
<1>5. life' # "off" => Follows(seen, ledger.lifecycles)'
  BY <1>1, <1>2, <1>3 DEF ReopenInv, LifecycleInv, Follows
<1>6. LifecycleInv'
  BY <1>4, <1>5 DEF ReopenInv, LifecycleInv
<1>7. ASSUME NEW s \in Sources, Apart(s)' PROVE Silenced(s)'
  <2>1. Silenced(s)
    BY <1>7 DEF ReopenInv, Apart
  <2>2. ASSUME NEW o \in occurrences, o.at + Window < now PROVE o.at + Window < now'
    <3>1. o.at \in Nat /\ Window \in Nat
      BY WindowAssumption, BoundAssumption DEF Typed, Occurrences, Times
    <3> QED
      BY <1>1, <2>2, <3>1
  <2> QED
    BY <2>1, <2>2 DEF Silenced, Finalized
<1>8. ASSUME NEW s \in Sources, Apart(s)'
      PROVE  /\ LateOnly(ledger, s)' /\ LateOnly(FileLedger, s)'
             /\ SuppressedSince(ledger.records, s)' /\ SuppressedSince(FileLedger.records, s)'
  BY <1>1, <1>8 DEF ReopenInv, Apart, LateOnly, SuppressedSince, Pending
<1> QED
  BY <1>6, <1>7, <1>8 DEF ReopenInv

\* A step of a reconciliation that writes the ledger.
LEMMA SavingKeepsReopened ==
    ASSUME Typed, Typed', ReopenInv, WrittenIsOnFile, op.at \in Unsaved, life # "off",
           Saves \/ SaveFails, UNCHANGED <<now, life, occurrences, ledger, seen>>
    PROVE  ReopenInv'
<1>1. ledger \in Ledgers /\ ledger # NoFile /\ FileLedger \in Ledgers
  BY FileLedgerTyped, NoFileAssumption
<1>2. /\ Follows(seen, ledger.lifecycles)' /\ life' # "off"
      /\ \A o \in occurrences' : ledger'.lifecycles[o.task].state # "terminal"
  BY DEF ReopenInv, LifecycleInv, Follows
<1>3. ASSUME NEW s \in Sources, Apart(s)'
      PROVE  LateOnly(ledger, s)' /\ SuppressedSince(ledger.records, s)' /\ Silenced(s)'
  BY <1>3 DEF ReopenInv, Apart, LateOnly, SuppressedSince, Silenced, Pending, Finalized
<1>4. CASE file' = ledger /\ saved' = seen
  <2>1. FileLedger' = ledger
    BY <1>1, <1>4 DEF FileLedger
  <2>2. Follows(saved, FileLedger.lifecycles)'
    BY <1>2, <1>4, <2>1 DEF Follows
  <2>3. ASSUME NEW s \in Sources, Apart(s)'
        PROVE  LateOnly(FileLedger, s)' /\ SuppressedSince(FileLedger.records, s)'
    BY <1>3, <2>1, <2>3 DEF LateOnly, SuppressedSince, Pending
  <2> QED
    BY <1>2, <1>3, <2>2, <2>3 DEF ReopenInv, LifecycleInv
<1>5. CASE file' = file
  <2>1. FileLedger' = FileLedger
    BY <1>5 DEF FileLedger
  <2>2. saved' = saved \/ (saved' = seen /\ (ledger = written \/ file' = ledger))
    BY DEF Saves, SaveFails
  <2>3. ASSUME saved' = seen, ledger = written PROVE FileLedger.lifecycles = ledger.lifecycles
    BY <2>3 DEF WrittenIsOnFile, FileLedger
  <2>4. ASSUME saved' = seen, file' = ledger PROVE FileLedger.lifecycles = ledger.lifecycles
    BY <1>1, <1>5, <2>4 DEF FileLedger
  <2>5. Follows(saved, FileLedger.lifecycles)'
    <3>1. CASE saved' = saved
      BY <2>1, <3>1 DEF ReopenInv, LifecycleInv, Follows
    <3>2. CASE saved' = seen /\ FileLedger.lifecycles = ledger.lifecycles
      BY <1>2, <2>1, <3>2 DEF Follows
    <3> QED
      BY <2>2, <2>3, <2>4, <3>1, <3>2
  <2>6. ASSUME NEW s \in Sources, Apart(s)'
        PROVE  LateOnly(FileLedger, s)' /\ SuppressedSince(FileLedger.records, s)'
    BY <2>1, <2>6 DEF ReopenInv, Apart, LateOnly, SuppressedSince, Pending
  <2> QED
    BY <1>2, <1>3, <2>5, <2>6 DEF ReopenInv, LifecycleInv
<1>6. (file' = ledger /\ saved' = seen) \/ file' = file
  BY DEF Saves, SaveFails
<1> QED
  BY <1>4, <1>5, <1>6

\* A step of a reconciliation that answers only to the ledger in memory.
LEMMA LedgerKeepsReopened ==
    ASSUME Typed, Typed', ReopenInv, life # "off",
           UNCHANGED <<now, life, occurrences, file, saved>>,
           ledger'.lifecycles = ledger.lifecycles,
           seen'.terminal = seen.terminal, seen'.reopened = seen.reopened,
           \/ ledger'.records = ledger.records
           \/ \E keys : \E n \in Nat, state \in {"expired", "delivered"} :
                ledger'.records = Close(ledger.records, keys, state, n)
    PROVE  ReopenInv'
<1>1. FileLedger' = FileLedger /\ ledger.records \in [Keys -> Records]
  BY FileLedgerTyped DEF FileLedger, Ledgers
<1>2. Follows(saved, FileLedger.lifecycles)' /\ Follows(seen, ledger.lifecycles)'
  BY <1>1 DEF ReopenInv, LifecycleInv, Follows
<1>3. LifecycleInv'
  BY <1>2 DEF ReopenInv, LifecycleInv
<1>4. ASSUME NEW s \in Sources, SuppressedSince(ledger.records, s)
      PROVE  /\ Pending(ledger'.records) \subseteq Pending(ledger.records)
             /\ SuppressedSince(ledger'.records, s)
             /\ Finalized(ledger.records, {s}) => Finalized(ledger'.records, {s})
  <2>1. CASE ledger'.records = ledger.records
    BY <1>4, <2>1
  <2>2. CASE \E keys : \E n \in Nat, state \in {"expired", "delivered"} :
                 ledger'.records = Close(ledger.records, keys, state, n)
    <3>1. PICK keys : \E n \in Nat, state \in {"expired", "delivered"} :
                 ledger'.records = Close(ledger.records, keys, state, n)
      BY <2>2
    <3> QED
      BY <1>1, <1>4, <3>1, CloseKeepsFinal
  <2> QED
    BY <2>1, <2>2
<1>5. ASSUME NEW s \in Sources, Apart(s)'
      PROVE  /\ LateOnly(ledger, s)' /\ LateOnly(FileLedger, s)'
             /\ SuppressedSince(ledger.records, s)' /\ SuppressedSince(FileLedger.records, s)'
             /\ Silenced(s)'
  <2>1. /\ LateOnly(ledger, s) /\ LateOnly(FileLedger, s) /\ Silenced(s)
        /\ SuppressedSince(ledger.records, s) /\ SuppressedSince(FileLedger.records, s)
    BY <1>5 DEF ReopenInv, Apart
  <2>2. LateOnly(FileLedger, s)' /\ SuppressedSince(FileLedger.records, s)'
    BY <1>1, <2>1 DEF LateOnly, SuppressedSince, Pending
  <2>3. LateOnly(ledger, s)'
    BY <1>4, <2>1 DEF LateOnly, Pending
  <2>4. SuppressedSince(ledger.records, s)'
    BY <1>4, <2>1 DEF SuppressedSince
  <2>5. Silenced(s)'
    BY <1>4, <2>1 DEF Silenced, Finalized
  <2> QED
    BY <2>2, <2>3, <2>4, <2>5
<1> QED
  BY <1>3, <1>5 DEF ReopenInv

LEMMA AutomateReopened == ReminderInv /\ ReminderInv' /\ ReopenInv /\ Automate => ReopenInv'
<1> SUFFICES ASSUME ReminderInv, ReminderInv', ReopenInv, Automate PROVE ReopenInv'
  OBVIOUS
<1>1. Typed /\ Typed' /\ life # "off"
  BY OpRuns DEF ReminderInv, LifeInv, Automate
<1>2. UNCHANGED <<now, life, occurrences, file, saved, ledger, seen>>
  BY DEF Automate, world, history
<1> QED
  BY <1>1, <1>2, LedgerKeepsReopened

LEMMA SelectDueReopened == ReminderInv /\ ReminderInv' /\ ReopenInv /\ SelectDue => ReopenInv'
<1> SUFFICES ASSUME ReminderInv, ReminderInv', ReopenInv, SelectDue PROVE ReopenInv'
  OBVIOUS
<1>1. Typed /\ Typed' /\ life # "off" /\ op.now \in Nat /\ ledger \in Ledgers
  BY OpRuns DEF ReminderInv, Typed, Ops, LifeInv, SelectDue
<1>2. UNCHANGED <<now, life, occurrences, file, saved, seen>>
  BY DEF SelectDue, world, history
<1>3. \/ ledger' = ledger
      \/ \E keys : ledger' = [ledger EXCEPT !.records = Close(@, keys, "expired", op.now)]
  BY DEF SelectDue
<1>4. CASE ledger' = ledger
  BY <1>1, <1>2, <1>4, LedgerKeepsReopened
<1>5. CASE \E keys : ledger' = [ledger EXCEPT !.records = Close(@, keys, "expired", op.now)]
  <2>1. PICK keys : ledger' = [ledger EXCEPT !.records = Close(@, keys, "expired", op.now)]
    BY <1>5
  <2>2. /\ ledger'.lifecycles = ledger.lifecycles
        /\ \E n \in Nat, state \in {"expired", "delivered"} :
             ledger'.records = Close(ledger.records, keys, state, n)
    BY <1>1, <2>1 DEF Ledgers
  <2> QED
    BY <1>1, <1>2, <2>2, LedgerKeepsReopened
<1> QED
  BY <1>3, <1>4, <1>5

LEMMA PortAnswersReopened ==
    ReminderInv /\ ReminderInv' /\ ToldInv /\ ReopenInv /\ PortAnswers => ReopenInv'
<1> SUFFICES ASSUME ReminderInv, ReminderInv', ToldInv, ReopenInv, PortAnswers PROVE ReopenInv'
  OBVIOUS
<1>1. /\ Typed /\ Typed' /\ life # "off" /\ op.now \in Nat /\ ledger \in Ledgers
      /\ seen \in Histories
  BY OpRuns DEF ReminderInv, Typed, Ops, LifeInv, PortAnswers, ToldInv
<1>2. UNCHANGED <<now, life, occurrences, file, saved>>
  BY DEF PortAnswers, world
<1>3. PICK told \in SUBSET op.shown :
        IF told = {} THEN UNCHANGED <<ledger, seen>>
        ELSE /\ ledger' = [ledger EXCEPT !.records =
                             Close(@, {Key(o) : o \in told}, "delivered", op.now)]
             /\ seen' = [seen EXCEPT !.told = @ \cup UNION {o.sources : o \in told}]
  BY DEF PortAnswers
<1>4. CASE told = {}
  BY <1>1, <1>2, <1>3, <1>4, LedgerKeepsReopened
<1>5. CASE told # {}
  <2> DEFINE keys == {Key(o) : o \in told}
  <2>1. /\ ledger'.lifecycles = ledger.lifecycles
        /\ \E n \in Nat, state \in {"expired", "delivered"} :
             ledger'.records = Close(ledger.records, keys, state, n)
    BY <1>1, <1>3, <1>5 DEF Ledgers
  <2>2. seen'.terminal = seen.terminal /\ seen'.reopened = seen.reopened
    BY <1>1, <1>3, <1>5 DEF Histories
  <2> HIDE DEF keys
  <2> QED
    BY <1>1, <1>2, <2>1, <2>2, LedgerKeepsReopened
<1> QED
  BY <1>4, <1>5

LEMMA PersistsReopened ==
    ReminderInv /\ ReminderInv' /\ ReopenInv /\ WrittenIsOnFile
    /\ (PersistReconciled \/ PersistExpired \/ PersistDelivered) => ReopenInv'
<1> SUFFICES ASSUME ReminderInv, ReminderInv', ReopenInv, WrittenIsOnFile,
                    PersistReconciled \/ PersistExpired \/ PersistDelivered
             PROVE  ReopenInv'
  OBVIOUS
<1>1. op.at \in Unsaved
  BY DEF PersistReconciled, PersistExpired, PersistDelivered, Unsaved
<1>2. Typed /\ Typed' /\ life # "off"
  BY <1>1, OpRuns DEF ReminderInv, LifeInv, Unsaved
<1>3. (Saves \/ SaveFails) /\ UNCHANGED <<now, life, occurrences, ledger, seen>>
  BY DEF PersistReconciled, PersistExpired, PersistDelivered, world
<1> QED
  BY <1>1, <1>2, <1>3, SavingKeepsReopened

\* What becomes of a lifecycle: an open task has none that is completed, and only
\* a reopening moves the cutoff, to the time of the reconciliation.
LEMMA LifecycleMoves ==
    ASSUME Typed, NEW t \in Tasks, NEW n \in Nat
    PROVE  /\ Lifecycle(t, n).cutoff \in {0, n, ledger.lifecycles[t].cutoff}
           /\ ledger.lifecycles[t].state # "terminal"
                => Lifecycle(t, n).cutoff \in {0, ledger.lifecycles[t].cutoff}
           /\ task[t] = "open" /\ t \notin duplicate => Lifecycle(t, n).state # "terminal"
<1> DEFINE old == ledger.lifecycles[t]
<1>1. task[t] \in {"open", "terminal", "gone"}
  BY DEF Typed
<1>2. \/ Lifecycle(t, n) = NoLifecycle
      \/ /\ Lifecycle(t, n) = old
         /\ task[t] = "open" /\ t \notin duplicate => old.state # "terminal"
      \/ Lifecycle(t, n) = [state |-> "terminal", cutoff |-> 0] /\ task[t] = "terminal"
      \/ Lifecycle(t, n) = [state |-> "open", cutoff |-> n] /\ old.state = "terminal"
  BY <1>1 DEF Lifecycle
<1> QED
  BY <1>2 DEF NoLifecycle

LEMMA ObservedFollows ==
    ASSUME Typed, seen \in Histories, NEW T \in SUBSET Tasks, Follows(seen, ledger.lifecycles)
    PROVE  Follows(Observed(T, now),
                   [t \in Tasks |-> IF t \in T THEN Lifecycle(t, now) ELSE ledger.lifecycles[t]])
<1> DEFINE judged == {t \in T : task[t] # "gone" /\ t \notin duplicate /\ SourcesOf(t) # {}}
           lost   == {t \in T : \/ task[t] = "gone"
                                \/ t \notin duplicate /\ SourcesOf(t) = {}}
           opened == {t \in judged : task[t] = "open" /\ t \in seen.terminal}
           X == Observed(T, now)
           L == [t \in Tasks |-> IF t \in T THEN Lifecycle(t, now) ELSE ledger.lifecycles[t]]
<1>1. /\ X.terminal = (seen.terminal \ (lost \cup opened)) \cup {t \in judged : task[t] = "terminal"}
      /\ X.reopened = [t \in Tasks |-> IF t \in lost THEN 0
                                       ELSE IF t \in opened THEN now ELSE seen.reopened[t]]
  BY DEF Observed, Histories
<1>2. now \in Nat /\ ledger.lifecycles \in [Tasks -> Lifecycles]
  BY BoundAssumption DEF Typed, Ledgers
<1>3. ASSUME NEW t \in Tasks
      PROVE  /\ t \in X.terminal <=> L[t].state = "terminal"
             /\ L[t].state # "terminal" => X.reopened[t] <= L[t].cutoff
             /\ L[t].cutoff <= now
  <2>1. /\ t \in seen.terminal <=> ledger.lifecycles[t].state = "terminal"
        /\ ledger.lifecycles[t].state # "terminal"
             => seen.reopened[t] <= ledger.lifecycles[t].cutoff
        /\ ledger.lifecycles[t].cutoff <= now
    BY DEF Follows
  <2>2. task[t] \in {"open", "terminal", "gone"} /\ 0 <= now
    BY <1>2 DEF Typed
  <2>3. CASE t \notin T
    <3>1. L[t] = ledger.lifecycles[t] /\ (t \in X.terminal <=> t \in seen.terminal)
          /\ X.reopened[t] = seen.reopened[t]
      BY <1>1, <2>3
    <3> QED
      BY <2>1, <3>1
  <2>4. CASE t \in lost
    <3>1. L[t] = NoLifecycle
      BY <2>4 DEF Lifecycle
    <3>2. t \notin X.terminal /\ X.reopened[t] = 0
      BY <1>1, <2>4
    <3> QED
      BY <2>2, <3>1, <3>2 DEF NoLifecycle
  <2>5. CASE t \in T /\ t \notin lost /\ t \in duplicate
    <3>1. L[t] = ledger.lifecycles[t]
      BY <2>5 DEF Lifecycle
    <3>2. (t \in X.terminal <=> t \in seen.terminal) /\ X.reopened[t] = seen.reopened[t]
      BY <1>1, <2>5
    <3> QED
      BY <2>1, <3>1, <3>2
  <2>6. CASE t \in judged /\ task[t] = "terminal"
    <3>1. /\ L[t].state = "terminal" /\ t \in X.terminal
          /\ L[t].cutoff = 0 \/ L[t].cutoff = ledger.lifecycles[t].cutoff
      BY <1>1, <2>6 DEF Lifecycle
    <3> QED
      BY <2>1, <2>2, <3>1
  <2>7. CASE t \in opened
    <3>1. L[t] = [state |-> "open", cutoff |-> now]
      BY <2>1, <2>7 DEF Lifecycle
    <3>2. t \notin X.terminal /\ X.reopened[t] = now
      BY <1>1, <2>7
    <3> QED
      BY <1>2, <3>1, <3>2
  <2>8. CASE t \in judged /\ task[t] = "open" /\ t \notin seen.terminal
    <3>1. L[t] = ledger.lifecycles[t]
      BY <2>1, <2>8 DEF Lifecycle
    <3>2. t \notin X.terminal /\ X.reopened[t] = seen.reopened[t]
      BY <1>1, <2>8
    <3> QED
      BY <2>1, <2>8, <3>1, <3>2
  <2> QED
    BY <2>2, <2>3, <2>4, <2>5, <2>6, <2>7, <2>8
<1> HIDE DEF X, L
<1>4. Follows(X, L)
  BY <1>3 DEF Follows
<1> QED
  BY <1>4 DEF X, L

\* The reconciliation lets through what is due after the last reopening of its
\* task, and closes the rest for good.
LEMMA ReconcileReopened == ReminderInv /\ ToldInv /\ ReopenInv /\ Reconcile => ReopenInv'
<1> SUFFICES ASSUME ReminderInv, ToldInv, ReopenInv, Reconcile PROVE ReopenInv'
  OBVIOUS
<1> DEFINE T == Head(queue)
           n == now
           all == {o \in occurrences : o.task \notin T} \cup UNION {Found(t) : t \in T \ duplicate}
           missed == {o \in all : Missed(o, T, n)}
           R == ledger.records
           held == {o \in all \ missed : Key(o) \in Pending(R) /\ Authoritative(o)}
           unheld == {k \in Pending(R) : ~\E o \in all : Key(o) = k /\ Authoritative(o)}
           stale == {Key(o) : o \in {x \in held : x.at <= n /\ ~Due(x, n)}}
           fresh == {o \in all \ missed :
                       /\ Due(o, n) /\ R[Key(o)].state \notin {"pending", "delivered", "suppressed"}
                       /\ ~Finalized(R, o.sources) /\ Authoritative(o)}
           entered == held \cup fresh
           out == unheld \cup stale
           put == PutPending(R, entered)
           suppressed == Suppress(put, missed, n)
           closed == Close(suppressed, out, "expired", n)
           cycles == [t \in Tasks |-> IF t \in T THEN Lifecycle(t, n) ELSE ledger.lifecycles[t]]
<1>1. /\ Typed /\ life # "off" /\ queue # <<>> /\ n \in Nat /\ R \in [Keys -> Records]
      /\ seen \in Histories /\ ledger.lifecycles \in [Tasks -> Lifecycles]
  BY BoundAssumption DEF ReminderInv, Reconcile, Typed, Ledgers, Active, Subscribed, ToldInv
<1>2. /\ occurrences' = all
      /\ ledger' = [records |-> Prune(closed, n), lifecycles |-> cycles]
      /\ seen' = Observed(T, n) /\ UNCHANGED <<now, life, file, saved>>
  BY DEF Reconcile, world
<1>3. T \subseteq Tasks
  BY <1>1, HeadTailProperties DEF Typed
<1>4. all \subseteq Occurrences /\ \A t \in T : \A o \in Found(t) : o.task = t /\ task[t] = "open"
  BY <1>1, <1>3, FoundTyped DEF Typed, Found
<1>5. entered \in SUBSET all /\ missed \in SUBSET all
      /\ entered \in SUBSET Occurrences /\ missed \in SUBSET Occurrences
  BY <1>4
<1>6. /\ Follows(seen, ledger.lifecycles) /\ Follows(saved, FileLedger.lifecycles)
      /\ \A o \in occurrences : ledger.lifecycles[o.task].state # "terminal"
  BY <1>1 DEF ReopenInv, LifecycleInv
<1>7. Follows(seen', cycles)
  BY <1>1, <1>2, <1>3, <1>6, ObservedFollows
<1>8. \A t \in Tasks : ledger.lifecycles[t].cutoff \in Nat /\ ledger.lifecycles[t].cutoff <= n
  BY <1>1, <1>6 DEF Follows, Lifecycles
<1>9. \A o \in all : /\ o \in Occurrences /\ o.task \in Tasks /\ o.at \in Nat /\ 1 <= o.at
                     /\ o.task \in T \/ o \in occurrences
                     /\ o.task \in T => o \in Found(o.task) /\ o.task \notin duplicate
  <2>1. \A o \in Occurrences : o.task \in Tasks /\ o.at \in Nat /\ 1 <= o.at
    BY BoundAssumption DEF Occurrences, Times
  <2> QED
    BY <1>4, <2>1
<1>10. \A o \in all : cycles[o.task].state # "terminal"
  BY <1>1, <1>4, <1>6, <1>9, LifecycleMoves
<1>11. \A o \in all : o \in missed <=> o.task \in T /\ o.at <= cycles[o.task].cutoff
  BY <1>9 DEF Missed
<1>12. \A o \in missed : o.at <= n
  <2>1. SUFFICES ASSUME NEW o \in missed PROVE o.at <= n
    OBVIOUS
  <2>2. o.task \in T /\ o.task \in Tasks /\ o.at \in Nat /\ o.at <= Lifecycle(o.task, n).cutoff
    BY <1>9, <1>11
  <2>3. Lifecycle(o.task, n).cutoff \in {0, n, ledger.lifecycles[o.task].cutoff}
    BY <1>1, <2>2, LifecycleMoves
  <2> QED
    BY <1>1, <1>8, <2>2, <2>3
<1>13. \A o \in entered : o \notin missed /\ Authoritative(o)
                          /\ (Key(o) \in Pending(R)
                              \/ (Due(o, n) /\ ~Finalized(R, o.sources)))
  OBVIOUS
<1>14. \A k \in Pending(R) : k \in out \/ \E o \in all : Key(o) = k
  OBVIOUS
<1>15. ASSUME NEW s \in Sources, Apart(s) PROVE OwnOccurrences(all, s)
  <2>1. OwnOccurrences(occurrences, s)
    BY <1>15 DEF ToldInv, OwnInv
  <2>2. \A t \in T : OwnOccurrences(Found(t), s)
    BY <1>1, <1>3, <1>15, FoundIsOwn
  <2> QED
    BY <2>1, <2>2 DEF OwnOccurrences
<1>16. ASSUME NEW s \in Sources, Apart(s) PROVE OneOccurrence(entered, s)
  <2>1. OneOccurrence(occurrences, s)
    BY <1>16 DEF ToldInv, OwnInv
  <2>2. \A t \in T : OneOccurrence(Found(t), s)
    BY <1>1, <1>3, <1>16, FoundIsOwn
  <2>3. \A o \in all : s \in o.sources => o.task = Owner[s]
    BY <1>15, <1>16 DEF OwnOccurrences, Key, KeysOf
  <2>4. ASSUME NEW o \in entered, NEW p \in entered, s \in o.sources, s \in p.sources PROVE o = p
    <3>1. o.task = Owner[s] /\ p.task = Owner[s] /\ o \in all /\ p \in all
      BY <1>5, <2>3, <2>4
    <3>2. CASE Owner[s] \in T
      BY <1>9, <2>2, <2>4, <3>1, <3>2 DEF OneOccurrence
    <3>3. CASE Owner[s] \notin T
      BY <1>9, <2>1, <2>4, <3>1, <3>3 DEF OneOccurrence
    <3> QED
      BY <3>2, <3>3
  <2> HIDE DEF entered
  <2> QED
    BY <2>4 DEF OneOccurrence
<1>17. cycles \in [Tasks -> Lifecycles]
  BY <1>1, LifecycleTyped
<1> HIDE DEF T, n, all, missed, R, held, unheld, stale, fresh, entered, out
<1>18. put \in [Keys -> Records]
  BY <1>1, <1>5, PutPendingTyped
<1>19. suppressed \in [Keys -> Records]
  <2> HIDE DEF put
  <2> QED
    BY <1>1, <1>5, <1>18, SuppressTyped
<1>20. closed \in [Keys -> Records]
  <2>1. "expired" \in States
    BY DEF States
  <2> HIDE DEF suppressed
  <2> QED
    BY <1>1, <1>19, <2>1, CloseTyped
<1>21. ASSUME NEW s \in Sources, Apart(s)
       PROVE  /\ OwnOccurrences(all, s) /\ LateOnly(ledger, s) /\ Silenced(s)
              /\ \A k \in KeysOf(s) \cap Pending(ledger'.records) :
                   k \in Pending(R) \ out \/ \E o \in entered : Key(o) = k
              /\ SuppressedSince(ledger'.records, s)
              /\ Finalized(R, {s}) \/ (\E o \in missed : s \in o.sources)
                   => Finalized(ledger'.records, {s}) \/ Local[s] + 1 + Window < n
  <2>1. /\ OwnOccurrences(all, s) /\ OwnOccurrences(entered, s) /\ OwnOccurrences(missed, s)
        /\ OneOccurrence(entered, s)
    BY <1>5, <1>15, <1>16, <1>21, SubsetIsOwn
  <2>2. OwnRecords(R, s) /\ SuppressedSince(R, s) /\ LateOnly(ledger, s) /\ Silenced(s)
    BY <1>21 DEF ToldInv, OwnInv, ReopenInv, R
  <2>3. /\ \A k \in Pending(put) : k \in Pending(R) \/ \E o \in entered : Key(o) = k
        /\ OwnRecords(put, s) /\ SuppressedSince(put, s)
        /\ Finalized(R, {s}) => Finalized(put, {s})
    BY <1>1, <1>5, <2>1, <2>2, PutPendingKeepsOwn, PutPendingKeepsFinal
  <2>4. /\ Pending(suppressed) \subseteq Pending(put)
        /\ OwnRecords(suppressed, s) /\ SuppressedSince(suppressed, s)
        /\ Finalized(put, {s}) => Finalized(suppressed, {s})
        /\ \A o \in missed : s \in o.sources => Finalized(suppressed, {s})
    <3> HIDE DEF put
    <3> QED
      BY <1>1, <1>5, <1>12, <1>18, <2>1, <2>3, SuppressKeepsOwn, SuppressCloses
  <2>5. /\ Pending(closed) = Pending(suppressed) \ out
        /\ OwnRecords(closed, s) /\ SuppressedSince(closed, s)
        /\ Finalized(suppressed, {s}) => Finalized(closed, {s})
    <3> HIDE DEF suppressed
    <3> QED
      BY <1>1, <1>19, <2>4, CloseKeepsOwn, CloseKeepsFinal
  <2> HIDE DEF put, suppressed, closed
  <2>6. /\ Pending(ledger'.records) = Pending(closed) /\ SuppressedSince(ledger'.records, s)
        /\ Finalized(closed, {s}) =>
             Finalized(ledger'.records, {s}) \/ Local[s] + 1 + Window < n
    BY <1>1, <1>2, <1>20, <2>5, PruneKeepsFinal
  <2>7. \A k \in Pending(ledger'.records) :
          k \in Pending(R) \ out \/ \E o \in entered : Key(o) = k
    BY <2>3, <2>4, <2>5, <2>6
  <2> QED
    BY <2>1, <2>2, <2>3, <2>4, <2>5, <2>6, <2>7
<1> HIDE DEF closed, cycles
<1>22. ledger'.lifecycles = cycles /\ FileLedger' = FileLedger
  BY <1>2 DEF FileLedger
<1>23. ASSUME NEW s \in Sources, Apart(s), NEW k \in KeysOf(s) \cap Pending(ledger'.records)
       PROVE  cycles[Owner[s]].state # "terminal" /\ cycles[Owner[s]].cutoff < k[2]
  <2>1. PICK o \in all : /\ Key(o) = k
                         /\ k \in Pending(R) \/ (o \notin missed /\ Due(o, n)
                                                 /\ ~Finalized(R, o.sources))
    <3>1. k \in Pending(R) \ out \/ \E o \in entered : Key(o) = k
      BY <1>21, <1>23
    <3> QED
      BY <1>5, <1>13, <1>14, <3>1
  <2>2. /\ s \in o.sources /\ o.task = Owner[s] /\ k[2] = o.at /\ o.sources = {s}
        /\ o.at \in Nat /\ 1 <= o.at /\ Owner[s] \in Tasks
    BY <1>9, <1>21, <1>23, <2>1 DEF OwnOccurrences, Key, KeysOf
  <2>3. cycles[Owner[s]].state # "terminal" /\ cycles[Owner[s]].cutoff \in Nat
    BY <1>10, <1>17, <2>2 DEF Lifecycles
  <2>4. CASE k \in Pending(R)
    <3>1. /\ ledger.lifecycles[Owner[s]].state # "terminal"
          /\ ledger.lifecycles[Owner[s]].cutoff < k[2]
      BY <1>21, <1>23, <2>4 DEF LateOnly, R
    <3>2. cycles[Owner[s]].cutoff \in {0, ledger.lifecycles[Owner[s]].cutoff}
      BY <1>1, <2>2, <3>1, LifecycleMoves DEF cycles
    <3> QED
      BY <2>2, <2>3, <3>1, <3>2
  <2>5. CASE o \notin missed /\ Due(o, n) /\ ~Finalized(R, o.sources)
    <3>1. SUFFICES ASSUME cycles[Owner[s]].cutoff >= o.at PROVE FALSE
      BY <2>2, <2>3
    <3>2. Owner[s] \notin T /\ o \in occurrences
      BY <1>9, <1>11, <2>2, <2>3, <2>5, <3>1
    <3>3. ledger.lifecycles[o.task].cutoff = cycles[Owner[s]].cutoff
      BY <2>2, <3>2 DEF cycles
    <3>4. Finalized(R, {s}) \/ o.at + Window < n
      BY <1>21, <1>23, <2>2, <2>3, <3>1, <3>2, <3>3 DEF Silenced, R, n
    <3> QED
      BY <1>1, <2>2, <2>5, <3>4, WindowAssumption DEF Due
  <2> QED
    BY <2>1, <2>4, <2>5
<1>24. ASSUME NEW s \in Sources, Apart(s), NEW o \in all, s \in o.sources,
              o.at <= cycles[o.task].cutoff
       PROVE  Finalized(ledger'.records, {s}) \/ o.at + Window < n
  <2>1. o.at <= Local[s] + 1 /\ Local[s] \in Nat /\ o.at \in Nat /\ Window \in Nat
    BY <1>4, <1>21, <1>24, OwnTimes, WindowAssumption
  <2>2. Local[s] + 1 + Window < n => o.at + Window < n
    BY <1>1, <2>1
  <2>3. CASE o \in missed
    BY <1>21, <1>24, <2>2, <2>3
  <2>4. CASE o \notin missed
    <3>1. o.task \notin T /\ o \in occurrences /\ o.task \in Tasks
      BY <1>9, <1>11, <1>24, <2>4
    <3>2. cycles[o.task] = ledger.lifecycles[o.task]
      BY <3>1 DEF cycles
    <3>3. Finalized(R, {s}) \/ o.at + Window < n
      BY <1>21, <1>24, <3>1, <3>2 DEF Silenced, R, n
    <3> QED
      BY <1>21, <1>24, <2>2, <3>3
  <2> QED
    BY <2>3, <2>4
<1>25. LifecycleInv'
  <2>1. Follows(saved, FileLedger.lifecycles)'
    BY <1>2, <1>6, <1>22 DEF Follows
  <2>2. Follows(seen, ledger.lifecycles)'
    BY <1>2, <1>7, <1>22 DEF Follows
  <2> QED
    BY <1>1, <1>2, <1>10, <1>22, <2>1, <2>2 DEF LifecycleInv
<1>26. ASSUME NEW s \in Sources, Apart(s)'
       PROVE  /\ LateOnly(ledger, s)' /\ LateOnly(FileLedger, s)'
              /\ SuppressedSince(ledger.records, s)' /\ SuppressedSince(FileLedger.records, s)'
              /\ Silenced(s)'
  <2>1. Apart(s) /\ LateOnly(FileLedger, s) /\ SuppressedSince(FileLedger.records, s)
    BY <1>26 DEF Apart, ReopenInv
  <2>2. LateOnly(FileLedger, s)' /\ SuppressedSince(FileLedger.records, s)'
    BY <1>22, <2>1 DEF LateOnly, SuppressedSince, Pending
  <2>3. LateOnly(ledger, s)'
    BY <1>22, <1>23, <2>1 DEF LateOnly, Pending
  <2>4. SuppressedSince(ledger.records, s)'
    BY <1>21, <2>1 DEF SuppressedSince
  <2>5. Silenced(s)'
    BY <1>2, <1>22, <1>24, <2>1 DEF Silenced, Finalized, n
  <2> QED
    BY <2>2, <2>3, <2>4, <2>5
<1> QED
  BY <1>25, <1>26 DEF ReopenInv

LEMMA EmptyIsLate ==
    ASSUME NEW s \in Sources
    PROVE  LateOnly(EmptyLedger, s) /\ SuppressedSince(EmptyLedger.records, s)
<1>1. \A k \in Keys : EmptyLedger.records[k].state = "none"
  BY DEF EmptyLedger, NoRecord
<1> QED
  BY <1>1 DEF LateOnly, SuppressedSince, Pending

\* A session begins with the lifecycles that the file holds.
LEMMA StartReopened == ReminderInv /\ ReopenInv /\ Start => ReopenInv'
<1> SUFFICES ASSUME ReminderInv, ReopenInv, Start PROVE ReopenInv'
  OBVIOUS
<1>1. /\ life = "off" /\ life' = "running" /\ ledger' = FileLedger
      /\ UNCHANGED <<now, file, occurrences, seen, saved>>
  BY DEF Start, world, history, FileLedger
<1>2. /\ seen = saved /\ occurrences' = {} /\ FileLedger' = FileLedger
  BY <1>1 DEF ReopenInv, LifecycleInv, FileLedger
<1>3. Follows(saved, FileLedger.lifecycles)' /\ Follows(seen, ledger.lifecycles)'
  BY <1>1, <1>2 DEF ReopenInv, LifecycleInv, Follows
<1>4. ASSUME NEW s \in Sources, Apart(s)'
      PROVE  /\ LateOnly(ledger, s)' /\ LateOnly(FileLedger, s)'
             /\ SuppressedSince(ledger.records, s)' /\ SuppressedSince(FileLedger.records, s)'
             /\ Silenced(s)'
  <2>1. LateOnly(FileLedger, s) /\ SuppressedSince(FileLedger.records, s)
    BY <1>4 DEF Apart, ReopenInv
  <2> QED
    BY <1>1, <1>2, <2>1 DEF LateOnly, SuppressedSince, Pending, Silenced
<1> QED
  BY <1>1, <1>2, <1>3, <1>4 DEF ReopenInv, LifecycleInv

LEMMA SessionEndReopened == ReminderInv /\ ReopenInv /\ (Crash \/ Quit) => ReopenInv'
<1> SUFFICES ASSUME ReminderInv, ReopenInv, Crash \/ Quit PROVE ReopenInv'
  OBVIOUS
<1>1. /\ life' = "off" /\ occurrences' = {} /\ ledger' = EmptyLedger /\ seen' = saved
      /\ UNCHANGED <<now, file, saved>>
  BY DEF Crash, Quit, SessionEnds, world
<1>2. FileLedger' = FileLedger
  BY <1>1 DEF FileLedger
<1>3. Follows(saved, FileLedger.lifecycles)'
  BY <1>1, <1>2 DEF ReopenInv, LifecycleInv, Follows
<1>4. ASSUME NEW s \in Sources, Apart(s)'
      PROVE  /\ LateOnly(ledger, s)' /\ LateOnly(FileLedger, s)'
             /\ SuppressedSince(ledger.records, s)' /\ SuppressedSince(FileLedger.records, s)'
             /\ Silenced(s)'
  <2>1. LateOnly(FileLedger, s) /\ SuppressedSince(FileLedger.records, s)
    BY <1>4 DEF Apart, ReopenInv
  <2>2. LateOnly(EmptyLedger, s) /\ SuppressedSince(EmptyLedger.records, s)
    BY EmptyIsLate
  <2> QED
    BY <1>1, <1>2, <2>1, <2>2 DEF LateOnly, SuppressedSince, Pending, Silenced
<1> QED
  BY <1>1, <1>2, <1>3, <1>4 DEF ReopenInv, LifecycleInv

LEMMA InitReopened == Init => ReopenInv
<1> SUFFICES ASSUME Init PROVE ReopenInv
  OBVIOUS
<1>1. /\ FileLedger = EmptyLedger /\ life = "off" /\ occurrences = {} /\ ledger = EmptyLedger
      /\ seen = NothingSeen /\ saved = NothingSeen /\ now = 1
  BY DEF Init, FileLedger
<1>2. /\ NothingSeen.terminal = {} /\ NothingSeen.reopened = [t \in Tasks |-> 0]
      /\ EmptyLedger.lifecycles = [t \in Tasks |-> NoLifecycle]
      /\ NoLifecycle.state = "none" /\ NoLifecycle.cutoff = 0
  BY DEF NothingSeen, EmptyLedger, NoLifecycle
<1>3. Follows(saved, FileLedger.lifecycles)
  BY <1>1, <1>2 DEF Follows
<1>4. \A s \in Sources : Silenced(s)
  BY <1>1 DEF Silenced
<1> QED
  BY <1>1, <1>3, <1>4, EmptyIsLate DEF ReopenInv, LifecycleInv

LEMMA StepReopened ==
    ReminderInv /\ ReminderInv' /\ ToldInv /\ ReopenInv /\ WrittenIsOnFile /\ [Next]_vars
        => ReopenInv'
<1> SUFFICES ASSUME ReminderInv, ReminderInv', ToldInv, ReopenInv, WrittenIsOnFile, [Next]_vars
             PROVE  ReopenInv'
  OBVIOUS
<1>1. CASE OpStep
  BY <1>1, ReconcileReopened, PersistsReopened, AutomateReopened, SelectDueReopened,
     PortAnswersReopened DEF OpStep
<1>2. CASE Start \/ Crash \/ Quit
  BY <1>2, StartReopened, SessionEndReopened
<1>3. now \in Nat /\ Typed /\ Typed'
  BY BoundAssumption DEF ReminderInv, Typed
<1>4. CASE PortCloses \/ DestroyBegins \/ DestroyEnds
  <2>1. UNCHANGED <<now, file, seen, saved, ledger, occurrences>>
    BY <1>4 DEF PortCloses, DestroyBegins, DestroyEnds, world, memory, history
  <2>2. life # "off" /\ life' # "off"
    BY <1>4 DEF PortCloses, DestroyBegins, DestroyEnds
  <2> QED
    BY <1>3, <2>1, <2>2, OutsideKeepsReopened
<1>5. CASE \/ TimerFires \/ Tick \/ FocusChanges \/ ZoneChanges \/ UNCHANGED vars
           \/ \E t \in Tasks : TaskChanges(t)
  <2>1. UNCHANGED <<file, seen, saved, ledger, occurrences, life>>
    BY <1>5 DEF TimerFires, Tick, FocusChanges, ZoneChanges, TaskChanges, memory, history, vars
  <2>2. now' = now \/ now' = now + 1
    BY <1>5 DEF TimerFires, Tick, FocusChanges, ZoneChanges, TaskChanges, world, vars
  <2> QED
    BY <1>3, <2>1, <2>2, OutsideKeepsReopened
<1> QED
  BY <1>1, <1>2, <1>4, <1>5 DEF Next

\* What the ledger knows of a task that was completed and opened again, as long as
\* a ledger that is not written again, because it equals what was written last,
\* has its lifecycles on file: nothing waits that was due by then, and what was
\* is closed for good.
THEOREM ReopeningIsKept == Spec /\ []WrittenIsOnFile => []ReopenInv
  BY InitReopened, StepReopened, ReminderInvariant, ToldStaysMarked, PTL DEF Spec

\* Then nothing that was due by the reopening is shown, also after a restart
\* (reconcileTask, and the suppression in ReminderDeliveryStore.mutate).
THEOREM ReopenedTaskIsSilent == Spec /\ []WrittenIsOnFile => ReopenedSilent
<1>1. ReminderInv /\ ReminderInv' /\ ToldInv /\ ToldInv' /\ ReopenInv' /\ [Next]_vars
      => [\A o \in Shows : \A s \in o.sources : Apart(s) => o.at > seen.reopened[o.task]]_vars
  <2> SUFFICES ASSUME ReminderInv, ReminderInv', ToldInv, ToldInv', ReopenInv', [Next]_vars,
                      NEW o \in Shows, NEW s \in o.sources, Apart(s)
               PROVE  o.at > seen.reopened[o.task]
    OBVIOUS
  <2>1. op.shown = {} /\ o \in op'.shown
    BY DEF Shows
  <2>2. op'.at \in Selected /\ seen' = seen /\ o \in op'.items
    BY <2>1, ShowsSelected
  <2>3. op' # NoOp /\ life' # "off" /\ s \in Sources /\ o \in Occurrences
    BY <2>2 DEF ReminderInv, Typed, Ops, Batches, Occurrences, LifeInv, Selected, NoOp
  <2>4. Apart(s)' /\ OwnOccurrences(op'.items, s)
    BY <2>3 DEF Apart, ToldInv, OwnInv, OwnOccurrences, Key
  <2>5. Key(o) \in KeysOf(s) /\ o.task = Owner[s] /\ Key(o) \in Pending(ledger'.records)
    BY <2>2, <2>4 DEF OwnOccurrences, ToldInv, ItemsInv, Key, KeysOf, Pending
  <2>6. /\ ledger'.lifecycles[o.task].state # "terminal"
        /\ ledger'.lifecycles[o.task].cutoff < o.at
    BY <2>3, <2>4, <2>5 DEF ReopenInv, LateOnly, Key, Pending
  <2>7. seen.reopened[o.task] <= ledger'.lifecycles[o.task].cutoff
    BY <2>2, <2>3, <2>6 DEF ReopenInv, LifecycleInv, Follows, Occurrences
  <2>8. seen.reopened[o.task] \in Nat /\ ledger'.lifecycles[o.task].cutoff \in Nat /\ o.at \in Nat
    BY <2>3, BoundAssumption
       DEF ToldInv, Histories, ReminderInv, Typed, Ledgers, Lifecycles, Occurrences, Times
  <2> QED
    BY <2>6, <2>7, <2>8
<1> QED
  BY <1>1, ReopeningIsKept, ReminderInvariant, ToldStaysMarked, PTL DEF Spec, ReopenedSilent

LEMMA StepWritten ==
    ReminderInv /\ (life # "off" => written = file) /\ [Next]_vars
    /\ [file' # file => written' = file']_vars => (life # "off" => written = file)'
<1> SUFFICES ASSUME ReminderInv, life # "off" => written = file, [Next]_vars,
                    [file' # file => written' = file']_vars, life' # "off"
             PROVE  written' = file'
  OBVIOUS
<1>1. CASE Start
  BY <1>1 DEF Start
<1>2. CASE PersistReconciled \/ PersistExpired \/ PersistDelivered
  <2>1. life # "off" /\ (Saves \/ SaveFails)
    BY <1>2, OpRuns
       DEF ReminderInv, LifeInv, PersistReconciled, PersistExpired, PersistDelivered
  <2>2. CASE Saves
    BY <2>1, <2>2 DEF Saves
  <2>3. CASE SaveFails
    BY <2>1, <2>3 DEF SaveFails, vars
  <2> QED
    BY <2>1, <2>2, <2>3
<1>3. CASE Crash \/ Quit
  BY <1>3 DEF Crash, Quit, SessionEnds
<1>4. CASE Reconcile \/ Automate \/ SelectDue \/ PortAnswers
  <2>1. op # NoOp \/ Active
    BY <1>4, OpRuns DEF ReminderInv, Reconcile, Automate, SelectDue, PortAnswers
  <2>2. life # "off" /\ UNCHANGED <<file, written>>
    BY <1>4, <2>1
       DEF ReminderInv, LifeInv, Active, Subscribed, Reconcile, Automate, SelectDue, PortAnswers
  <2> QED
    BY <2>2
<1>5. CASE \/ PortCloses \/ DestroyBegins \/ DestroyEnds \/ TimerFires \/ Tick \/ FocusChanges
           \/ ZoneChanges \/ UNCHANGED vars \/ \E t \in Tasks : TaskChanges(t)
  <2>1. UNCHANGED <<file, written>> /\ (life' # "off" => life # "off")
    BY <1>5 DEF PortCloses, DestroyBegins, DestroyEnds, TimerFires, Tick, FocusChanges,
                ZoneChanges, TaskChanges, memory, vars
  <2> QED
    BY <2>1
<1> QED
  BY <1>1, <1>2, <1>3, <1>4, <1>5 DEF Next, OpStep

\* So it is if writes that reject have left the file as it was: then what was
\* written last is what the file holds.
THEOREM UndoneWritesKeepSilence == Spec /\ RejectedIsUndone => ReopenedSilent
<1>1. Init => (life # "off" => written = file)
  BY DEF Init
<1>2. ReminderInv /\ (life # "off" => written = file) => WrittenIsOnFile
  <2> SUFFICES ASSUME ReminderInv, life # "off" => written = file, op.at \in Unsaved,
                      ledger = written
               PROVE  file # NoFile /\ file.lifecycles = ledger.lifecycles
    BY DEF WrittenIsOnFile
  <2>1. life # "off" /\ ledger \in Ledgers
    BY OpRuns DEF ReminderInv, LifeInv, Unsaved, Typed
  <2> QED
    BY <2>1, NoFileAssumption
<1> QED
  BY <1>1, <1>2, StepWritten, ReminderInvariant, ReopenedTaskIsSilent, PTL
     DEF Spec, RejectedIsUndone
=============================================================================
