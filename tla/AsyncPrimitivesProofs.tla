-------------------------- MODULE AsyncPrimitivesProofs --------------------------
(***************************************************************************)
(* The order of WriteQueue, the atomicity of QueuedFile and the safety of  *)
(* CoalescedAsyncScheduler, for any operations, files, retries and changes.*)
(***************************************************************************)
EXTENDS QueuedFile, CoalescedAsyncScheduler, TLAPS

----------------------------------------------------------------------------
(* The queue: WriteQueue *)

\* Nothing has been called yet.
LEMMA QueueInit == Init => QueueInv
<1> SUFFICES ASSUME Init PROVE QueueInv
  OBVIOUS
<1> USE DEF Init
<1>1. TypeOK
  BY DEF TypeOK
<1>2. Numbered /\ LastKnown /\ QueueNamed /\ Chained /\ PrevCalled /\ InOrder
  BY DEF Numbered, LastKnown, QueueNamed, Chained, PrevCalled, InOrder, Before
<1> QED
  BY <1>1, <1>2 DEF QueueInv

\* A call takes the last place of its queue.
LEMMA EnqueueKeeps == ASSUME NEW o \in Ops, QueueInv, Enqueue(o) PROVE QueueInv'
<1> USE NoneAssumption DEF QueueInv, TypeOK, Enqueue
<1>1. TypeOK'
  OBVIOUS
<1>2. Numbered'
  BY DEF Numbered
<1>3. LastKnown'
  BY DEF LastKnown, QueueNamed, Numbered, Before, Ended
<1>4. QueueNamed'
  BY DEF QueueNamed
<1>5. PrevCalled'
  BY DEF PrevCalled, QueueNamed
<1>6. Chained'
  BY DEF Chained, LastKnown, QueueNamed, PrevCalled, Numbered, Before, Ended
<1>7. InOrder'
  BY DEF InOrder, Numbered, Started, Ended
<1> QED
  BY <1>1, <1>2, <1>3, <1>4, <1>5, <1>6, <1>7 DEF QueueInv

\* An operation starts when everything before it has ended.
LEMMA StartKeeps == ASSUME NEW o \in Ops, QueueInv, Start(o) PROVE QueueInv'
<1> USE DEF QueueInv, TypeOK, Start
<1>1. TypeOK'
  OBVIOUS
<1>2. Numbered' /\ QueueNamed' /\ PrevCalled'
  BY DEF Numbered, QueueNamed, PrevCalled
<1>3. LastKnown'
  BY DEF LastKnown, Before, Ended
<1>4. Chained'
  BY DEF Chained, Before, Ended
<1>5. ASSUME ~cleared, NEW p \in Ops, Before(p, o) PROVE Ended(p)
  <2>1. CASE Ended(p)
    BY <2>1
  <2>2. CASE prev[o] # None /\ p = prev[o]
    BY <2>2 DEF Ready
  <2>3. CASE prev[o] # None /\ Before(p, prev[o])
    <3>1. Ended(prev[o]) /\ prev[o] \in Ops
      BY <2>3 DEF Ready
    <3> QED
      BY <1>5, <2>3, <3>1 DEF InOrder, Started, Before
  <2> QED
    BY <1>5, <2>1, <2>2, <2>3 DEF Chained
<1>6. InOrder'
  BY <1>5 DEF InOrder, Before, Started, Ended
<1> QED
  BY <1>1, <1>2, <1>3, <1>4, <1>6 DEF QueueInv

\* The end of an operation disturbs no order.
LEMMA SettleKeeps == ASSUME NEW o \in Ops, QueueInv, Settle(o) PROVE QueueInv'
<1> USE DEF QueueInv, TypeOK, Settle
<1>1. TypeOK'
  OBVIOUS
<1>2. Numbered' /\ QueueNamed' /\ PrevCalled'
  BY DEF Numbered, QueueNamed, PrevCalled
<1>3. LastKnown'
  BY DEF LastKnown, Before, Ended
<1>4. Chained'
  BY DEF Chained, Before, Ended
<1>5. InOrder'
  BY DEF InOrder, Started, Ended
<1> QED
  BY <1>1, <1>2, <1>3, <1>4, <1>5 DEF QueueInv

\* A queue is forgotten by its last operation, when all before it have ended.
LEMMA UntrackKeeps == ASSUME NEW o \in Ops, QueueInv, Untrack(o) PROVE QueueInv'
<1> USE DEF QueueInv, TypeOK, Untrack, Forget
<1>1. TypeOK'
  OBVIOUS
<1>2. Numbered' /\ PrevCalled' /\ Chained' /\ InOrder'
  BY DEF Numbered, PrevCalled, Chained, InOrder, Before, Started, Ended
<1>3. QueueNamed'
  BY DEF QueueNamed
<1>4. LastKnown'
  BY DEF LastKnown, InOrder, Before, Started, Ended
<1> QED
  BY <1>1, <1>2, <1>3, <1>4 DEF QueueInv

\* Every step preserves the invariant.
LEMMA QueueStep == QueueInv /\ [Next]_vars => QueueInv'
<1> SUFFICES ASSUME QueueInv, [Next]_vars PROVE QueueInv'
  OBVIOUS
<1> USE DEF QueueInv, TypeOK
<1>1. ASSUME NEW o \in Ops, Enqueue(o) PROVE QueueInv'
  BY <1>1, EnqueueKeeps
<1>2. ASSUME NEW o \in Ops, Start(o) PROVE QueueInv'
  BY <1>2, StartKeeps
<1>3. ASSUME NEW o \in Ops, Settle(o) PROVE QueueInv'
  BY <1>3, SettleKeeps
<1>4. ASSUME NEW o \in Ops, Untrack(o) PROVE QueueInv'
  BY <1>4, UntrackKeeps
<1>5. CASE DrainBegins \/ DrainContinues \/ UNCHANGED vars
  <2>1. TypeOK'
    BY <1>5 DEF DrainBegins, DrainContinues, vars, Queued, Again
  <2>2. Numbered' /\ LastKnown' /\ QueueNamed' /\ Chained' /\ PrevCalled' /\ InOrder'
    BY <1>5 DEF DrainBegins, DrainContinues, vars, Numbered, LastKnown, QueueNamed,
                Chained, PrevCalled, InOrder, Before, Started, Ended
  <2> QED
    BY <2>1, <2>2 DEF QueueInv
<1>6. CASE Clear
  <2>1. TypeOK' /\ QueueNamed'
    BY <1>6 DEF Clear, QueueNamed
  <2>2. Numbered' /\ LastKnown' /\ Chained' /\ PrevCalled' /\ InOrder'
    BY <1>6 DEF Clear, Numbered, LastKnown, Chained, PrevCalled, InOrder
  <2> QED
    BY <2>1, <2>2 DEF QueueInv
<1> QED
  BY <1>1, <1>2, <1>3, <1>4, <1>5, <1>6 DEF Next

\* The inductive invariant of the write queue holds in every reachable state.
THEOREM QueueInvariant == Spec => []QueueInv
BY QueueInit, QueueStep, PTL DEF Spec

\* Until the queues are cleared, the operations of a key run one after the
\* other in the order of their calls, for any number of operations and keys.
THEOREM QueueOrder == Spec => []InOrder
<1>1. QueueInv => InOrder
  BY DEF QueueInv
<1> QED
  BY <1>1, QueueInvariant, PTL

\* The promise of enqueue: two operations of a key never run together before
\* the queues are cleared.
THEOREM QueueSequential == Spec => [](~cleared => Sequential)
<1>1. QueueInv => (~cleared => Sequential)
  <2> SUFFICES ASSUME QueueInv, ~cleared, NEW o \in Ops, NEW p \in Ops,
                      at[o] = "running", at[p] = "running", key[o] = key[p], o # p
               PROVE FALSE
    BY DEF Sequential
  <2>1. turn[o] \in Nat /\ turn[p] \in Nat /\ turn[o] # turn[p]
    BY DEF QueueInv, TypeOK, Numbered
  <2>2. ~(turn[o] < turn[p]) /\ ~(turn[p] < turn[o])
    BY DEF QueueInv, InOrder, Started, Ended
  <2> QED
    BY <2>1, <2>2
<1> QED
  BY <1>1, QueueInvariant, PTL

\* When drain returns, no operation is left, also none that joined while it waited:
\* a queue that is forgotten has nothing to run, and queues are cleared only
\* after a drain (flushPendingWrites, then destroy).
THEOREM DrainAwaitsAll == Spec => DrainLeavesNothing
<1> DEFINE Drained == cleared => drain = "returned"
           Quiet   == \A o \in Ops : at[o] = "new" \/ Ended(o)
<1>1. Init => Drained
  BY DEF Init
<1>2. Drained /\ [Next]_vars => Drained'
  BY DEF Next, Enqueue, Start, Settle, Untrack, DrainBegins, DrainContinues, Clear, vars
<1>3. QueueInv /\ Drained /\ [Next]_vars => [drain # "returned" /\ drain' = "returned" => Quiet]_vars
  <2> SUFFICES ASSUME QueueInv, Drained, [Next]_vars, drain # "returned", drain' = "returned",
                      NEW o \in Ops, at[o] # "new"
               PROVE  Ended(o)
    OBVIOUS
  <2>1. DrainBegins \/ DrainContinues
    BY DEF Next, Enqueue, Start, Settle, Untrack, Clear, vars
  <2>2. Queued = {} /\ ~cleared
    BY <2>1 DEF DrainBegins, DrainContinues, Again
  <2>3. queues[key[o]] = None
    BY <2>2 DEF Queued, QueueInv, TypeOK
  <2> QED
    BY <2>2, <2>3 DEF QueueInv, LastKnown
<1> QED
  BY <1>1, <1>2, <1>3, QueueInvariant, PTL DEF Spec, DrainLeavesNothing

----------------------------------------------------------------------------
(* The files: QueuedFile *)

Steps == {"idle", "process", "temp", "aside", "into", "drop", "restore", "clean", "ended"}

FileType ==
    /\ force \subseteq Ops /\ step \in [Ops -> Steps]
    /\ file \in [Keys -> Ops \cup {None}] /\ aside \in [Ops -> Ops \cup {None}]
    /\ temp \in [Ops -> Ops \cup {None, Torn}] /\ stuck \subseteq Ops

\* The steps of an operation are those of its turn.
StepsOfTurn ==
    \A o \in Ops :
        /\ step[o] = "idle" <=> at[o] \in {"new", "waiting"}
        /\ step[o] = "ended" <=> Ended(o)
        /\ step[o] \in {"aside", "into"} => temp[o] = o

\* What an operation has moved aside.
AsideOfStep ==
    \A o \in Ops :
        /\ step[o] \in {"idle", "process", "temp", "aside"} => aside[o] = None
        /\ step[o] = "clean" \/ at[o] = "failed" => aside[o] = None \/ o \in stuck

\* What the file is while an operation is at a step: nobody else touches it.
FileOfStep ==
    \A o \in Ops :
        /\ step[o] \in {"into", "restore"} => file[key[o]] = None
        /\ step[o] = "drop" => file[key[o]] = o

\* A file that is missing and was moved aside was moved aside last by somebody.
HasLatest(k) == file[k] = None /\ MovedAside(k) # {} => \E o \in Ops : Latest(k, o)

\* What can be found of a file is what the last write of it that took effect wrote.
Done(k) == {o \in Ops : key[o] = k /\ Took(o)}
FoundLast(k) ==
    IF Done(k) = {} THEN Found(k) = None
    ELSE Found(k) \in Done(k) /\ \A o \in Done(k) : turn[o] <= turn[Found(k)]

StepsInv == QueueInv /\ FileType /\ StepsOfTurn
CopyInv  == AsideOfStep /\ FileOfStep /\ \A k \in Keys : HasLatest(k)
FileInv  == StepsInv /\ (~cleared => CopyInv /\ \A k \in Keys : FoundLast(k))

----------------------------------------------------------------------------
(* The queue underneath *)

\* The steps of the operations and of the queue are steps of WriteQueue.
LEMMA FileStepIsQueueStep == FNext => [Next]_vars
<1> SUFFICES ASSUME FNext PROVE [Next]_vars
  OBVIOUS
<1>1. CASE Queue
  BY <1>1 DEF Queue, Next
<1>2. ASSUME NEW o \in Ops, Begin(o) PROVE [Next]_vars
  BY <1>2 DEF Begin, Next
<1>3. ASSUME NEW o \in Ops, Operate(o) PROVE Settle(o) \/ UNCHANGED vars
  BY <1>3 DEF Operate, WriteBegins, Process, WriteEnds, MoveAside, MoveInto, DropOld,
              Restore, Clean, Ends, Goes
<1> QED
  BY <1>1, <1>2, <1>3 DEF FNext, Next

\* The queue of the safe writes is the queue of WriteQueue, so what is proved of
\* that one holds of it.
THEOREM QueuedFileIsQueue == FSpec => Spec
<1>1. FInit => Init
  BY DEF FInit
<1>2. [FNext]_fvars => [Next]_vars
  BY FileStepIsQueueStep DEF fvars
<1> QED
  BY <1>1, <1>2, PTL DEF FSpec, Spec

\* Nothing is written yet.
LEMMA FileInit == FInit => FileInv
<1> SUFFICES ASSUME FInit PROVE FileInv
  OBVIOUS
<1> USE NoneAssumption, QueuedFileAssumption DEF FInit
<1>1. QueueInv /\ FileType
  BY QueueInit DEF FileType, Steps
<1>2. StepsOfTurn /\ AsideOfStep /\ FileOfStep
  BY DEF StepsOfTurn, AsideOfStep, FileOfStep, Ended, Init
<1>3. \A k \in Keys : MovedAside(k) = {} /\ Done(k) = {}
  BY DEF MovedAside, Done, Took, Init
<1>4. \A k \in Keys : HasLatest(k) /\ FoundLast(k)
  BY <1>3 DEF HasLatest, FoundLast, Found
<1> QED
  BY <1>1, <1>2, <1>4 DEF FileInv, StepsInv, CopyInv

\* Every step keeps the types and the correspondence of steps and turns.
LEMMA StepsKept == StepsInv /\ [FNext]_fvars => StepsInv'
<1> SUFFICES ASSUME StepsInv, [FNext]_fvars PROVE StepsInv'
  OBVIOUS
<1> USE NoneAssumption, QueuedFileAssumption DEF StepsInv
<1>1. QueueInv'
  BY FileStepIsQueueStep, QueueStep DEF fvars
<1>2. TypeOK /\ FileType /\ StepsOfTurn
  BY DEF QueueInv
<1>3. ASSUME NEW o \in Ops, Begin(o) PROVE FileType' /\ StepsOfTurn'
  BY <1>2, <1>3 DEF Begin, Start, FileType, Steps, StepsOfTurn, Ended, TypeOK
<1>4. ASSUME NEW o \in Ops, Operate(o) PROVE FileType' /\ StepsOfTurn'
  <2>0. at[o] = "running" <=> step[o] \notin {"idle", "ended"}
    BY <1>2 DEF StepsOfTurn, FileType, TypeOK, Ended, Steps
  <2>1. CASE WriteBegins(o)
    BY <1>2, <2>1 DEF WriteBegins, Set, vars, FileType, Steps, StepsOfTurn, Ended, TypeOK
  <2> SUFFICES ASSUME NEW ok \in BOOLEAN,
                      \/ Process(o, ok) \/ WriteEnds(o, ok) \/ MoveAside(o, ok) \/ MoveInto(o, ok)
                      \/ DropOld(o, ok) \/ Restore(o, ok) \/ Clean(o, ok)
               PROVE FileType' /\ StepsOfTurn'
    BY <1>4, <2>1 DEF Operate
  <2> USE <1>2, <2>0 DEF Set, Goes, Ends, Settle, vars, FileType, Steps, StepsOfTurn, Ended, TypeOK
  <2>2. CASE Process(o, ok)
    BY <2>2 DEF Process
  <2>3. CASE WriteEnds(o, ok)
    BY <2>3 DEF WriteEnds
  <2>4. CASE MoveAside(o, ok)
    <3>1. FileType'
      BY <2>4 DEF MoveAside, Kept
    <3>2. StepsOfTurn'
      BY <2>4 DEF MoveAside, Kept
    <3> QED
      BY <3>1, <3>2
  <2>5. CASE MoveInto(o, ok)
    <3>1. FileType'
      BY <2>5 DEF MoveInto
    <3>2. StepsOfTurn'
      BY <2>5 DEF MoveInto
    <3> QED
      BY <3>1, <3>2
  <2>6. CASE DropOld(o, ok)
    BY <2>6 DEF DropOld
  <2>7. CASE Restore(o, ok)
    BY <2>7 DEF Restore, Movable
  <2>8. CASE Clean(o, ok)
    BY <2>8 DEF Clean
  <2> QED
    BY <2>2, <2>3, <2>4, <2>5, <2>6, <2>7, <2>8
<1>5. CASE Queue /\ UNCHANGED <<force, calls>>
  <2>1. FileType'
    BY <1>2, <1>5 DEF calls, FileType
  <2>2. step' = step /\ temp' = temp
    BY <1>5 DEF calls
  <2>3. ASSUME NEW o \in Ops
        PROVE at'[o] = at[o] \/ (at[o] = "new" /\ at'[o] = "waiting")
    BY <1>2, <1>5 DEF Queue, Enqueue, Untrack, DrainBegins, DrainContinues, Clear, TypeOK
  <2> QED
    BY <1>1, <1>2, <2>1, <2>2, <2>3 DEF StepsOfTurn, Ended
<1>6. CASE UNCHANGED fvars
  <2>1. at' = at /\ step' = step /\ temp' = temp
    BY <1>6 DEF fvars, vars, calls
  <2>2. FileType'
    BY <1>2, <1>6 DEF fvars, calls, FileType
  <2> QED
    BY <1>1, <1>2, <2>1, <2>2 DEF StepsOfTurn, Ended
<1> QED
  BY <1>1, <1>3, <1>4, <1>5, <1>6 DEF FNext

----------------------------------------------------------------------------
(* What can be found of a file *)

\* What was moved aside last is what can be found.
LatestIsFound ==
    \A k \in Keys, o \in Ops :
        StepsInv /\ AsideOfStep /\ file[k] = None /\ Latest(k, o) => Found(k) = aside[o]

LEMMA FoundIsLatest == LatestIsFound
<1> SUFFICES ASSUME NEW k \in Keys, NEW o \in Ops,
                    StepsInv, AsideOfStep, file[k] = None, Latest(k, o)
             PROVE Found(k) = aside[o]
  BY DEF LatestIsFound
<1> DEFINE c == CHOOSE x \in Ops : Latest(k, x)
<1>1. c \in Ops /\ Latest(k, c)
  OBVIOUS
<1>2. \A p \in MovedAside(k) : p \in Ops /\ at[p] # "new" /\ turn[p] \in Nat
  BY DEF MovedAside, AsideOfStep, StepsInv, StepsOfTurn, QueueInv, TypeOK
<1>3. o \in MovedAside(k) /\ c \in MovedAside(k) /\ turn[o] <= turn[c] /\ turn[c] <= turn[o]
  BY <1>1 DEF Latest
<1>4. c = o
  <2> HIDE DEF c
  <2> QED
    BY <1>2, <1>3 DEF StepsInv, QueueInv, Numbered
<1>5. Found(k) = aside[c]
  BY <1>3 DEF Found
<1> QED
  BY <1>4, <1>5

\* A step that moves nothing of a file leaves what can be found of it.
LEMMA FoundKept ==
  ASSUME NEW k \in Keys, StepsInv, StepsInv', AsideOfStep, AsideOfStep', HasLatest(k),
         file'[k] = file[k], MovedAside(k)' = MovedAside(k),
         \A p \in MovedAside(k) : aside'[p] = aside[p] /\ turn'[p] = turn[p]
  PROVE  HasLatest(k)' /\ Found(k)' = Found(k)
<1>1. CASE file[k] # None \/ MovedAside(k) = {}
  BY <1>1 DEF HasLatest, Found
<1>2. CASE file[k] = None /\ MovedAside(k) # {}
  <2>1. PICK o \in Ops : Latest(k, o)
    BY <1>2 DEF HasLatest
  <2>2. Latest(k, o)'
    BY <2>1 DEF Latest
  <2>3. Found(k) = aside[o]
    BY <1>2, <2>1, FoundIsLatest DEF LatestIsFound
  <2>4. LatestIsFound'
    BY FoundIsLatest, PTL
  <2>5. Found(k)' = aside'[o]
    BY <1>2, <2>2, <2>4 DEF LatestIsFound
  <2> QED
    BY <2>1, <2>2, <2>3, <2>5 DEF HasLatest, Latest
<1> QED
  BY <1>1, <1>2

\* A step of one operation, and what it does to what can be found: nothing, or
\* its contents take the place of what was there.
Only(o) ==
    /\ key' = key /\ turn' = turn /\ cleared' = cleared
    /\ \A p \in Ops \ {o} : at'[p] = at[p] /\ step'[p] = step[p] /\ aside'[p] = aside[p]
                                         /\ (p \in stuck' <=> p \in stuck)
    /\ \A k \in Keys \ {key[o]} : file'[k] = file[k]
Same     == Taken' = Taken /\ \A k \in Keys : Found(k)' = Found(k)
Takes(o) == /\ o \notin Taken /\ Taken' = Taken \cup {o}
            /\ \A k \in Keys : Found(k)' = IF k = key[o] THEN o ELSE Found(k)

\* An operation changes its own file and copies only.
LEMMA OnlyOne == ASSUME NEW o \in Ops, StepsInv, Begin(o) \/ Operate(o) PROVE Only(o)
<1> USE DEF StepsInv, QueueInv, TypeOK, FileType, Only, Set, vars
<1>1. CASE Begin(o)
  BY <1>1 DEF Begin, Start
<1>2. CASE WriteBegins(o)
  BY <1>2 DEF WriteBegins
<1>3. ASSUME NEW ok \in BOOLEAN, Process(o, ok) \/ WriteEnds(o, ok) PROVE Only(o)
  BY <1>3 DEF Process, WriteEnds, Ends, Goes, Settle
<1>4. ASSUME NEW ok \in BOOLEAN, MoveAside(o, ok) \/ Restore(o, ok) PROVE Only(o)
  BY <1>4 DEF MoveAside, Restore, Goes
<1>5. ASSUME NEW ok \in BOOLEAN, MoveInto(o, ok) PROVE Only(o)
  BY <1>5 DEF MoveInto, Ends, Goes, Settle
<1>6. ASSUME NEW ok \in BOOLEAN, DropOld(o, ok) \/ Clean(o, ok) PROVE Only(o)
  BY <1>6 DEF DropOld, Clean, Ends, Settle
<1> QED
  BY <1>1, <1>2, <1>3, <1>4, <1>5, <1>6 DEF Operate

\* What can be found of the other files stays as it is.
LEMMA OthersKept ==
  ASSUME NEW o \in Ops, Only(o), StepsInv, StepsInv', CopyInv, AsideOfStep',
         NEW k \in Keys, k # key[o]
  PROVE  HasLatest(k)' /\ Found(k)' = Found(k)
<1>1. MovedAside(k)' = MovedAside(k)
  BY DEF MovedAside, Took, Only
<1>2. \A p \in MovedAside(k) : aside'[p] = aside[p] /\ turn'[p] = turn[p]
  BY DEF MovedAside, Only
<1>3. file'[k] = file[k]
  BY DEF Only
<1> QED
  BY <1>1, <1>2, <1>3, FoundKept DEF CopyInv

\* A step that moves nothing is not seen from outside.
LEMMA NothingMoved ==
  ASSUME NEW o \in Ops, Only(o), StepsInv, StepsInv', CopyInv, AsideOfStep',
         file' = file, Took(o)' <=> Took(o), aside'[o] = aside[o] \/ Took(o)
  PROVE  (\A k \in Keys : HasLatest(k)') /\ Same
<1>1. Taken' = Taken
  BY DEF Taken, Took, Only
<1>2. ASSUME NEW k \in Keys PROVE HasLatest(k)' /\ Found(k)' = Found(k)
  <2>1. MovedAside(k)' = MovedAside(k)
    BY DEF MovedAside, Took, Only
  <2>2. \A p \in MovedAside(k) : aside'[p] = aside[p] /\ turn'[p] = turn[p]
    BY DEF MovedAside, Only
  <2> QED
    BY <2>1, <2>2, FoundKept DEF CopyInv
<1> QED
  BY <1>1, <1>2 DEF Same

\* A step that puts the contents of an operation in place makes them what can be
\* found.
LEMMA TakesEffect ==
  ASSUME NEW o \in Ops, Only(o), StepsInv, StepsInv', CopyInv, AsideOfStep', FileOfStep',
         file'[key[o]] = o, ~Took(o), Took(o)'
  PROVE  CopyInv' /\ Takes(o)
<1>1. Taken' = Taken \cup {o} /\ o \notin Taken
  BY DEF Taken, Took, Only
<1>2. ASSUME NEW k \in Keys, k = key[o] PROVE HasLatest(k)' /\ Found(k)' = o
  BY <1>2, NoneAssumption DEF HasLatest, Found
<1>3. \A k \in Keys \ {key[o]} : HasLatest(k)' /\ Found(k)' = Found(k)
  BY OthersKept
<1> QED
  BY <1>1, <1>2, <1>3 DEF Takes, CopyInv

\* While an operation runs, the others of its file have ended before it or are
\* still to come.
LEMMA Alone ==
  ASSUME StepsInv, ~cleared, NEW o \in Ops, at[o] = "running", NEW p \in Ops, p # o, key[p] = key[o]
  PROVE  step[p] \in {"idle", "ended"} /\ (step[p] = "ended" => turn[p] < turn[o])
<1>1. turn[o] \in Nat /\ turn[p] \in Nat
  BY DEF StepsInv, QueueInv, TypeOK
<1>2. at[p] # "new" => turn[p] # turn[o]
  BY DEF StepsInv, QueueInv, Numbered
<1>3. Started(p) => turn[p] < turn[o] /\ Ended(p)
  BY <1>1, <1>2 DEF StepsInv, QueueInv, InOrder, Started, Ended
<1>4. step[p] = "idle" \/ Started(p)
  BY DEF StepsInv, QueueInv, TypeOK, StepsOfTurn, Started, Ended
<1> QED
  BY <1>3, <1>4 DEF StepsInv, StepsOfTurn, Ended

----------------------------------------------------------------------------
(* The steps of an operation *)

\* An operation begins or writes its temporary file.
LEMMA PreparingKeeps ==
  ASSUME NEW o \in Ops, StepsInv, StepsInv', CopyInv, ~cleared,
         Begin(o) \/ WriteBegins(o) \/ \E ok \in BOOLEAN : WriteEnds(o, ok)
  PROVE  CopyInv' /\ Same
<1>0. Only(o)
  BY OnlyOne DEF Operate
<1>1. file' = file /\ aside' = aside /\ stuck' = stuck
  BY DEF Begin, WriteBegins, WriteEnds
<1>2. step[o] \in {"idle", "temp"} /\ step'[o] \in {"process", "temp", "aside", "ended"}
  BY DEF Begin, Start, WriteBegins, WriteEnds, Goes, Ends, StepsInv, StepsOfTurn, FileType
<1>3. aside[o] = None /\ Took(o)' = Took(o)
  <2>1. aside[o] = None /\ step[o] # "drop" /\ step'[o] # "drop"
    BY <1>2 DEF CopyInv, AsideOfStep
  <2>2. at[o] # "done" /\ at'[o] # "done"
    BY DEF Begin, Start, WriteBegins, WriteEnds, Goes, Ends, Settle, StepsInv, StepsOfTurn,
           FileType, QueueInv, TypeOK, Ended, vars
  <2> QED
    BY <2>1, <2>2 DEF Took
<1>4. AsideOfStep' /\ FileOfStep'
  BY <1>0, <1>1, <1>2, <1>3 DEF CopyInv, AsideOfStep, FileOfStep, Only
<1> QED
  BY <1>0, <1>1, <1>3, <1>4, NothingMoved DEF CopyInv

\* The adapter replaces an existing file in one step.
LEMMA ProcessKeeps ==
  ASSUME NEW o \in Ops, NEW ok \in BOOLEAN, StepsInv, StepsInv', CopyInv, ~cleared,
         Process(o, ok)
  PROVE  CopyInv' /\ IF ok THEN Takes(o) ELSE Same
<1>0. Only(o)
  BY OnlyOne DEF Operate
<1>1. at[o] = "running" /\ ~Took(o)
  BY DEF Process, StepsInv, QueueInv, TypeOK, FileType, StepsOfTurn, Ended, Took, Steps
<1>2. \A p \in Ops \ {o} : key[p] = key[o] =>
        step[p] \in {"idle", "ended"} /\ (step[p] = "ended" => turn[p] < turn[o])
  BY <1>1, Alone
<1>3. AsideOfStep' /\ FileOfStep'
  <2> USE <1>0, <1>1, <1>2 DEF StepsInv, QueueInv, TypeOK, FileType, CopyInv, Only,
                               Set, Goes, Ends, Settle, vars
  <2>1. AsideOfStep'
    BY DEF Process, AsideOfStep
  <2>2. FileOfStep'
    BY DEF Process, FileOfStep
  <2> QED
    BY <2>1, <2>2
<1>4. CASE ~ok
  <2>1. file' = file /\ aside' = aside /\ ~Took(o)'
    BY <1>4 DEF Process, Ends, StepsInv, FileType, Took
  <2> QED
    BY <1>0, <1>1, <1>3, <1>4, <2>1, NothingMoved DEF CopyInv
<1>5. CASE ok
  <2>1. file'[key[o]] = o /\ Took(o)'
    BY <1>5 DEF Process, Ends, Settle, Set, StepsInv, FileType, QueueInv, TypeOK, Took
  <2> QED
    BY <1>0, <1>1, <1>3, <1>5, <2>1, TakesEffect
<1> QED
  BY <1>4, <1>5

\* The old file is moved aside: it can still be found.
LEMMA MoveAsideKeeps ==
  ASSUME NEW o \in Ops, NEW ok \in BOOLEAN, StepsInv, StepsInv', CopyInv, ~cleared,
         MoveAside(o, ok)
  PROVE  CopyInv' /\ Same
<1>0. Only(o)
  BY OnlyOne DEF Operate
<1>1. at[o] = "running" /\ ~Took(o)
  BY DEF MoveAside, StepsInv, QueueInv, TypeOK, FileType, StepsOfTurn, Ended, Took, Steps
<1>2. \A p \in Ops \ {o} : key[p] = key[o] =>
        step[p] \in {"idle", "ended"} /\ (step[p] = "ended" => turn[p] < turn[o])
  BY <1>1, Alone
<1>3. AsideOfStep' /\ FileOfStep'
  <2> USE <1>0, <1>1, <1>2 DEF StepsInv, QueueInv, TypeOK, FileType, CopyInv, Only,
                               Set, Goes, Ends, Settle, vars
  <2>1. AsideOfStep'
    BY DEF MoveAside, Kept, AsideOfStep
  <2>2. FileOfStep'
    BY DEF MoveAside, Kept, FileOfStep
  <2> QED
    BY <2>1, <2>2
<1>4. CASE file[key[o]] = None \/ ~ok
  <2>1. file' = file /\ aside' = aside /\ ~Took(o)'
    BY <1>1, <1>4 DEF MoveAside, Goes, vars, StepsInv, FileType, Took
  <2> QED
    BY <1>0, <1>1, <1>3, <2>1, NothingMoved DEF CopyInv
<1>5. CASE file[key[o]] # None /\ ok
  <2>1. /\ file'[key[o]] = None /\ aside'[o] = file[key[o]]
        /\ Taken' = Taken /\ ~Took(o)'
    BY <1>0, <1>1, <1>5 DEF MoveAside, Goes, Set, Kept, vars, StepsInv, FileType, QueueInv,
                            TypeOK, Took, Taken, Only
  <2>2. ASSUME NEW k \in Keys, k = key[o] PROVE HasLatest(k)' /\ Found(k)' = Found(k)
    <3>1. o \in MovedAside(k)'
      BY <1>0, <1>5, <2>1, <2>2 DEF MovedAside, Only
    <3>2. \A q \in MovedAside(k)' : turn'[q] <= turn'[o]
      BY <1>0, <1>2, <1>3, <2>2 DEF MovedAside, Only, AsideOfStep, StepsInv, QueueInv, TypeOK
    <3>3. Latest(k, o)'
      BY <3>1, <3>2 DEF Latest
    <3>4. LatestIsFound'
      BY FoundIsLatest, PTL
    <3>5. Found(k)' = aside'[o]
      BY <1>3, <2>1, <2>2, <3>3, <3>4, <1>0 DEF LatestIsFound, Only
    <3>6. Found(k) = file[k]
      BY <1>5, <2>2 DEF Found
    <3> QED
      BY <2>1, <2>2, <3>3, <3>5, <3>6 DEF HasLatest
  <2> QED
    BY <1>0, <1>3, <2>1, <2>2, OthersKept DEF Same, CopyInv
<1> QED
  BY <1>4, <1>5

\* The new file is moved into its place.
LEMMA MoveIntoKeeps ==
  ASSUME NEW o \in Ops, NEW ok \in BOOLEAN, StepsInv, StepsInv', CopyInv, ~cleared,
         MoveInto(o, ok)
  PROVE  CopyInv' /\ IF ok THEN Takes(o) ELSE Same
<1>0. Only(o)
  BY OnlyOne DEF Operate
<1>1. at[o] = "running" /\ ~Took(o)
  BY DEF MoveInto, StepsInv, QueueInv, TypeOK, FileType, StepsOfTurn, Ended, Took, Steps
<1>2. \A p \in Ops \ {o} : key[p] = key[o] =>
        step[p] \in {"idle", "ended"} /\ (step[p] = "ended" => turn[p] < turn[o])
  BY <1>1, Alone
<1>3. AsideOfStep' /\ FileOfStep'
  <2> USE <1>0, <1>1, <1>2 DEF StepsInv, QueueInv, TypeOK, FileType, CopyInv, Only,
                               Set, Goes, Ends, Settle, vars
  <2>1. AsideOfStep'
    BY DEF MoveInto, AsideOfStep
  <2>2. FileOfStep'
    BY DEF MoveInto, FileOfStep, StepsOfTurn
  <2> QED
    BY <2>1, <2>2
<1>4. CASE ~ok
  <2>1. file' = file /\ aside' = aside /\ ~Took(o)'
    BY <1>1, <1>4 DEF MoveInto, Goes, vars, StepsInv, FileType, Took, CopyInv, FileOfStep
  <2> QED
    BY <1>0, <1>1, <1>3, <1>4, <2>1, NothingMoved DEF CopyInv
<1>5. CASE ok
  <2>1. file[key[o]] = None /\ temp[o] = o
    BY DEF MoveInto, StepsInv, StepsOfTurn, CopyInv, FileOfStep
  <2>2. file'[key[o]] = o /\ Took(o)'
    BY <1>5, <2>1 DEF MoveInto, Ends, Goes, Settle, Set, StepsInv, FileType, QueueInv, TypeOK, Took
  <2> QED
    BY <1>0, <1>1, <1>3, <1>5, <2>2, TakesEffect
<1> QED
  BY <1>4, <1>5

\* The old file is removed when the new one counts.
LEMMA DropOldKeeps ==
  ASSUME NEW o \in Ops, NEW ok \in BOOLEAN, StepsInv, StepsInv', CopyInv, ~cleared,
         DropOld(o, ok)
  PROVE  CopyInv' /\ Same
<1>0. Only(o)
  BY OnlyOne DEF Operate
<1>1. at[o] = "running" /\ Took(o)
  BY DEF DropOld, StepsInv, QueueInv, TypeOK, FileType, StepsOfTurn, Ended, Took, Steps
<1>2. \A p \in Ops \ {o} : key[p] = key[o] =>
        step[p] \in {"idle", "ended"} /\ (step[p] = "ended" => turn[p] < turn[o])
  BY <1>1, Alone
<1>3. AsideOfStep' /\ FileOfStep'
  <2> USE <1>0, <1>1, <1>2 DEF StepsInv, QueueInv, TypeOK, FileType, CopyInv, Only,
                               Set, Goes, Ends, Settle, vars
  <2>1. AsideOfStep'
    BY DEF DropOld, AsideOfStep
  <2>2. FileOfStep'
    BY DEF DropOld, FileOfStep
  <2> QED
    BY <2>1, <2>2
<1>4. file' = file /\ Took(o)'
  BY DEF DropOld, Ends, Took
<1> QED
  BY <1>0, <1>1, <1>3, <1>4, NothingMoved DEF CopyInv

\* The old file is moved back: it could be found before, and is found now.
LEMMA RestoreKeeps ==
  ASSUME NEW o \in Ops, NEW ok \in BOOLEAN, StepsInv, StepsInv', CopyInv, ~cleared,
         Restore(o, ok)
  PROVE  CopyInv' /\ Same
<1>0. Only(o)
  BY OnlyOne DEF Operate
<1>1. at[o] = "running" /\ ~Took(o)
  BY DEF Restore, StepsInv, QueueInv, TypeOK, FileType, StepsOfTurn, Ended, Took, Steps
<1>2. \A p \in Ops \ {o} : key[p] = key[o] =>
        step[p] \in {"idle", "ended"} /\ (step[p] = "ended" => turn[p] < turn[o])
  BY <1>1, Alone
<1>3. AsideOfStep' /\ FileOfStep'
  <2> USE <1>0, <1>1, <1>2 DEF StepsInv, QueueInv, TypeOK, FileType, CopyInv, Only,
                               Set, Goes, Ends, Settle, vars
  <2>1. AsideOfStep'
    BY DEF Restore, Movable, AsideOfStep, FileOfStep
  <2>2. FileOfStep'
    BY DEF Restore, Movable, FileOfStep
  <2> QED
    BY <2>1, <2>2
<1>4. CASE ~Movable(o) \/ ~ok
  <2>1. file' = file /\ aside' = aside /\ ~Took(o)'
    BY <1>1, <1>4 DEF Restore, Goes, vars, StepsInv, FileType, Took
  <2> QED
    BY <1>0, <1>1, <1>3, <2>1, NothingMoved DEF CopyInv
<1>5. CASE Movable(o) /\ ok
  <2>1. /\ file'[key[o]] = aside[o] /\ aside[o] # None /\ file[key[o]] = None
        /\ Taken' = Taken
    BY <1>0, <1>1, <1>5 DEF Restore, Movable, Goes, Set, vars, StepsInv, FileType, QueueInv,
                            TypeOK, Took, Taken, Only
  <2>2. ASSUME NEW k \in Keys, k = key[o] PROVE HasLatest(k)' /\ Found(k)' = Found(k)
    <3>1. o \in MovedAside(k)
      BY <1>1, <2>1, <2>2 DEF MovedAside
    <3>2. \A q \in MovedAside(k) : turn[q] <= turn[o]
      BY <1>2, <2>2 DEF MovedAside, CopyInv, AsideOfStep, StepsInv, QueueInv, TypeOK
    <3>3. Latest(k, o)
      BY <3>1, <3>2 DEF Latest
    <3>4. Found(k) = aside[o]
      BY <2>1, <2>2, <3>3, FoundIsLatest DEF LatestIsFound, CopyInv
    <3>5. file'[k] = aside[o] /\ file'[k] # None
      BY <2>1, <2>2
    <3> QED
      BY <3>4, <3>5 DEF HasLatest, Found
  <2> QED
    BY <1>0, <1>3, <2>1, <2>2, OthersKept DEF Same, CopyInv
<1> QED
  BY <1>4, <1>5

\* The temporary file of a failed operation is removed.
LEMMA CleanKeeps ==
  ASSUME NEW o \in Ops, NEW ok \in BOOLEAN, StepsInv, StepsInv', CopyInv, ~cleared,
         Clean(o, ok)
  PROVE  CopyInv' /\ Same
<1>0. Only(o)
  BY OnlyOne DEF Operate
<1>1. at[o] = "running" /\ ~Took(o)
  BY DEF Clean, StepsInv, QueueInv, TypeOK, FileType, StepsOfTurn, Ended, Took, Steps
<1>2. \A p \in Ops \ {o} : key[p] = key[o] =>
        step[p] \in {"idle", "ended"} /\ (step[p] = "ended" => turn[p] < turn[o])
  BY <1>1, Alone
<1>3. AsideOfStep' /\ FileOfStep'
  <2> USE <1>0, <1>1, <1>2 DEF StepsInv, QueueInv, TypeOK, FileType, CopyInv, Only,
                               Set, Goes, Ends, Settle, vars
  <2>1. AsideOfStep'
    BY DEF Clean, AsideOfStep
  <2>2. FileOfStep'
    BY DEF Clean, FileOfStep
  <2> QED
    BY <2>1, <2>2
<1>4. file' = file /\ aside' = aside /\ ~Took(o)'
  BY DEF Clean, Ends, Took, StepsInv, FileType
<1> QED
  BY <1>0, <1>1, <1>3, <1>4, NothingMoved DEF CopyInv

\* The queue itself touches no file.
LEMMA QueueKeeps ==
  ASSUME StepsInv, StepsInv', CopyInv,
         (Queue /\ UNCHANGED <<force, calls>>) \/ UNCHANGED fvars
  PROVE  CopyInv' /\ Same
<1>1. UNCHANGED <<force, calls, key>>
  BY DEF Queue, Enqueue, Untrack, DrainBegins, DrainContinues, Clear, fvars, vars
<1>2. ASSUME NEW o \in Ops
      PROVE (at'[o] = at[o] /\ turn'[o] = turn[o]) \/ (at[o] = "new" /\ at'[o] = "waiting")
  BY DEF Queue, Enqueue, Untrack, DrainBegins, DrainContinues, Clear, fvars, vars,
         StepsInv, QueueInv, TypeOK
<1>3. AsideOfStep' /\ FileOfStep'
  BY <1>1, <1>2 DEF CopyInv, AsideOfStep, FileOfStep, calls
<1>4. Taken' = Taken
  BY <1>1, <1>2 DEF Taken, Took, calls
<1>5. ASSUME NEW k \in Keys PROVE HasLatest(k)' /\ Found(k)' = Found(k)
  <2>1. MovedAside(k)' = MovedAside(k) /\ file' = file /\ aside' = aside
    BY <1>1, <1>2 DEF MovedAside, Took, calls
  <2>2. \A q \in MovedAside(k) : turn'[q] = turn[q]
    BY <1>2 DEF MovedAside, CopyInv, AsideOfStep, StepsInv, StepsOfTurn
  <2> QED
    BY <1>3, <2>1, <2>2, FoundKept DEF CopyInv
<1> QED
  BY <1>3, <1>4, <1>5 DEF CopyInv, Same

----------------------------------------------------------------------------
(* The whole step *)

\* How a step of an operation looks from outside: it goes on, with or without
\* its effect, or it ends with the outcome that tells whether it had one.
Returns(o) == at' = [at EXCEPT ![o] = IF o \in Taken' THEN "done" ELSE "failed"]

LEMMA OperateKeeps ==
  ASSUME NEW o \in Ops, StepsInv, StepsInv', CopyInv, ~cleared, Operate(o)
  PROVE  /\ CopyInv' /\ at[o] = "running" /\ (Same \/ Takes(o))
         /\ at' = at \/ Returns(o)
<1>0. at[o] = "running"
  BY DEF Operate, WriteBegins, Process, WriteEnds, MoveAside, MoveInto, DropOld, Restore,
         Clean, StepsInv, QueueInv, TypeOK, FileType, StepsOfTurn, Ended, Steps
<1>1. CASE WriteBegins(o)
  BY <1>0, <1>1, PreparingKeeps DEF WriteBegins, vars
<1> SUFFICES ASSUME NEW ok \in BOOLEAN,
                    \/ Process(o, ok) \/ WriteEnds(o, ok) \/ MoveAside(o, ok) \/ MoveInto(o, ok)
                    \/ DropOld(o, ok) \/ Restore(o, ok) \/ Clean(o, ok)
             PROVE  CopyInv' /\ (Same \/ Takes(o)) /\ (at' = at \/ Returns(o))
  BY <1>0, <1>1 DEF Operate
<1> USE DEF Ends, Goes, Settle, vars, StepsInv, QueueInv, TypeOK, FileType
<1>2. ASSUME Ends(o, "done"), step'[o] = "ended" PROVE Returns(o)
  BY <1>2 DEF Returns, Taken, Took
<1>3. ASSUME Ends(o, "failed") PROVE Returns(o)
  BY <1>3 DEF Returns, Taken, Took
<1>4. CASE Process(o, ok)
  <2>1. CASE ok
    BY <1>2, <1>4, <2>1, ProcessKeeps DEF Process
  <2>2. CASE ~ok
    BY <1>3, <1>4, <2>2, ProcessKeeps DEF Process
  <2> QED
    BY <2>1, <2>2
<1>5. CASE WriteEnds(o, ok)
  BY <1>3, <1>5, PreparingKeeps DEF WriteEnds
<1>6. CASE MoveAside(o, ok)
  BY <1>6, MoveAsideKeeps DEF MoveAside
<1>7. CASE MoveInto(o, ok)
  BY <1>2, <1>7, MoveIntoKeeps DEF MoveInto
<1>8. CASE DropOld(o, ok)
  BY <1>2, <1>8, DropOldKeeps DEF DropOld
<1>9. CASE Restore(o, ok)
  BY <1>9, RestoreKeeps DEF Restore
<1>10. CASE Clean(o, ok)
  BY <1>3, <1>10, CleanKeeps DEF Clean
<1> QED
  BY <1>4, <1>5, <1>6, <1>7, <1>8, <1>9, <1>10

\* A write that takes effect is later than all that did before.
LEMMA FoundLastKept ==
  ASSUME StepsInv, StepsInv', CopyInv, ~cleared, \A k \in Keys : FoundLast(k), [FNext]_fvars,
         Same \/ \E o \in Ops : at[o] = "running" /\ Takes(o)
  PROVE  \A k \in Keys : FoundLast(k)'
<1>1. key' = key /\ \A p \in Taken : turn'[p] = turn[p]
  <2>1. [Next]_vars
    BY FileStepIsQueueStep DEF fvars
  <2> QED
    BY <2>1 DEF Next, Enqueue, Start, Settle, Untrack, DrainBegins, DrainContinues, Clear, vars,
                Taken, Took, StepsInv, StepsOfTurn, QueueInv, TypeOK
<1> SUFFICES ASSUME NEW k \in Keys PROVE FoundLast(k)'
  OBVIOUS
<1>2. \A q : q \in Done(k) <=> q \in Taken /\ key[q] = k
  BY DEF Done, Taken
<1>3. \A q : q \in Done(k)' <=> q \in Taken' /\ key[q] = k
  BY <1>1 DEF Done, Taken
<1>4. ASSUME Done(k)' = Done(k), Found(k)' = Found(k) PROVE FoundLast(k)'
  BY <1>1, <1>2, <1>4 DEF FoundLast
<1>5. CASE Same
  BY <1>2, <1>3, <1>4, <1>5 DEF Same
<1>6. ASSUME NEW o \in Ops, at[o] = "running", Takes(o) PROVE FoundLast(k)'
  <2>1. CASE key[o] # k
    BY <1>2, <1>3, <1>4, <1>6, <2>1 DEF Takes
  <2>2. CASE key[o] = k
    <3>1. Found(k)' = o /\ o \in Done(k)' /\ Done(k)' = Done(k) \cup {o}
      BY <1>2, <1>3, <1>6, <2>2 DEF Takes
    <3>2. turn'[o] = turn[o]
      BY <1>6, FileStepIsQueueStep DEF fvars, Next, Enqueue, Start, Settle, Untrack, DrainBegins,
                DrainContinues, Clear, vars, StepsInv, QueueInv, TypeOK
    <3>3. ASSUME NEW q \in Done(k), q # o PROVE turn[q] <= turn[o]
      BY <1>6, <2>2, <3>3, Alone DEF Done, Took, StepsInv, StepsOfTurn, QueueInv, TypeOK, Ended
    <3>4. turn[o] \in Nat
      BY DEF StepsInv, QueueInv, TypeOK
    <3> QED
      BY <1>1, <1>2, <3>1, <3>2, <3>3, <3>4 DEF FoundLast
  <2> QED
    BY <2>1, <2>2
<1> QED
  BY <1>5, <1>6

\* Every step keeps the invariant, and is a step of an atomic write or is not
\* seen from outside.
LEMMA FileStep ==
  FileInv /\ [FNext]_fvars =>
      FileInv' /\ (~cleared => [Atomic!Next]_<<at, key, Taken, Contents>>)
<1> SUFFICES ASSUME FileInv, [FNext]_fvars
             PROVE  FileInv' /\ (~cleared => [Atomic!Next]_<<at, key, Taken, Contents>>)
  OBVIOUS
<1>1. StepsInv /\ StepsInv'
  BY StepsKept DEF FileInv
<1>2. [Next]_vars
  BY FileStepIsQueueStep DEF fvars
<1>3. cleared => cleared'
  BY <1>2 DEF Next, Enqueue, Start, Settle, Untrack, DrainBegins, DrainContinues, Clear, vars
<1>4. SUFFICES ASSUME ~cleared
               PROVE /\ CopyInv' /\ \A k \in Keys : FoundLast(k)'
                     /\ [Atomic!Next]_<<at, key, Taken, Contents>>
  BY <1>1, <1>3 DEF FileInv
<1>5. CopyInv /\ \A k \in Keys : FoundLast(k)
  BY <1>4 DEF FileInv
<1>6. ASSUME Same PROVE Contents' = Contents /\ Taken' = Taken
  BY <1>6 DEF Same, Contents
<1>7. key' = key
  BY <1>2 DEF Next, Enqueue, Start, Settle, Untrack, DrainBegins, DrainContinues, Clear, vars
<1>8. CASE (Queue /\ UNCHANGED <<force, calls>>) \/ UNCHANGED fvars
  <2>1. CopyInv' /\ Same
    BY <1>1, <1>5, <1>8, QueueKeeps
  <2>2. at' = at \/ \E o \in Ops : at[o] = "new" /\ at' = [at EXCEPT ![o] = "waiting"]
    BY <1>8 DEF Queue, Enqueue, Untrack, DrainBegins, DrainContinues, Clear, fvars, vars
  <2> QED
    BY <1>1, <1>4, <1>5, <1>6, <1>7, <2>1, <2>2, FoundLastKept DEF Atomic!Next, Atomic!Wait
<1>9. ASSUME NEW o \in Ops, Begin(o)
      PROVE  /\ CopyInv' /\ \A k \in Keys : FoundLast(k)'
             /\ [Atomic!Next]_<<at, key, Taken, Contents>>
  <2>1. CopyInv' /\ Same
    BY <1>1, <1>4, <1>5, <1>9, PreparingKeeps
  <2>2. at[o] = "waiting" /\ at' = [at EXCEPT ![o] = "running"]
    BY <1>9 DEF Begin, Start
  <2> QED
    BY <1>1, <1>4, <1>5, <1>6, <1>7, <2>1, <2>2, FoundLastKept DEF Atomic!Next, Atomic!Begin
<1>10. ASSUME NEW o \in Ops, Operate(o)
       PROVE  /\ CopyInv' /\ \A k \in Keys : FoundLast(k)'
              /\ [Atomic!Next]_<<at, key, Taken, Contents>>
  <2>1. /\ CopyInv' /\ at[o] = "running" /\ (Same \/ Takes(o))
        /\ at' = at \/ Returns(o)
    BY <1>1, <1>4, <1>5, <1>10, OperateKeeps
  <2>2. \A k \in Keys : FoundLast(k)'
    BY <1>1, <1>4, <1>5, <2>1, FoundLastKept
  <2>3. CASE Same
    <3>1. Contents' = Contents /\ Taken' = Taken
      BY <1>6, <2>3
    <3>2. at' = at \/ at' = [at EXCEPT ![o] = IF o \in Taken THEN "done" ELSE "failed"]
      BY <2>1, <3>1 DEF Returns
    <3>3. at' = at \/ Atomic!Return(o)
      BY <1>7, <2>1, <3>1, <3>2 DEF Atomic!Return
    <3> QED
      BY <1>7, <2>1, <2>2, <3>1, <3>3 DEF Atomic!Next
  <2>4. CASE Takes(o)
    <3>1. Taken' = Taken \cup {o} /\ o \notin Taken
      BY <2>4 DEF Takes
    <3>2. Contents' = [Contents EXCEPT ![key[o]] = o]
      BY <2>4 DEF Takes, Contents
    <3>3. at' = at \/ at' = [at EXCEPT ![o] = "done"]
      BY <2>1, <3>1 DEF Returns
    <3>4. Atomic!TakeEffect(o)
      BY <1>7, <2>1, <3>1, <3>2, <3>3 DEF Atomic!TakeEffect
    <3> QED
      BY <2>1, <2>2, <3>4 DEF Atomic!Next
  <2> QED
    BY <2>3, <2>4, <2>1
<1> QED
  BY <1>8, <1>9, <1>10 DEF FNext

----------------------------------------------------------------------------
(* The theorems *)

\* The inductive invariant holds in every reachable state.
THEOREM FileInvariant == FSpec => []FileInv
<1>1. FileInv /\ [FNext]_fvars => FileInv'
  BY FileStep
<1> QED
  BY <1>1, FileInit, PTL DEF FSpec

\* Until the queues are cleared, every safe write is atomic: its effect on what
\* can be found of the file is one step between its call and its return, and it
\* has that step if and only if it returns without an error.
THEOREM SafeWriteIsAtomic == FSpec => ImplementsAtomicFile
<1>1. FInit => Atomic!Init
  <2> SUFFICES ASSUME FInit PROVE Atomic!Init
    OBVIOUS
  <2>1. Taken = {}
    BY DEF FInit, Init, Taken, Took
  <2>2. Contents = [k \in Keys |-> None]
    BY DEF FInit, Init, Contents, Found, MovedAside
  <2> QED
    BY <2>1, <2>2 DEF FInit, Init, Atomic!Init
<1>2. FileInv /\ [FNext]_fvars => [~cleared => Atomic!Next]_<<at, key, Taken, Contents>>
  BY FileStep
<1> QED
  BY <1>1, <1>2, FileInvariant, PTL DEF FSpec, ImplementsAtomicFile

\* Until the queues are cleared, the last of the successful writes of a file is
\* what it contains, unless a write could not move the old file back.
THEOREM LastWriteWins == FSpec => []LastWins
<1>1. FileInv => LastWins
  <2> SUFFICES ASSUME FileInv, ~cleared, NEW k \in Keys,
                      \A o \in Ops : key[o] = k => at[o] = "new" \/ Ended(o),
                      {o \in Ops : key[o] = k} \cap stuck = {}
               PROVE  LET done == {o \in {p \in Ops : key[p] = k} : at[o] = "done"}
                      IN  IF done = {} THEN file[k] = None
                          ELSE file[k] \in done /\ \A o \in done : turn[o] <= turn[file[k]]
    BY DEF LastWins
  <2>1. AsideOfStep /\ StepsOfTurn /\ FoundLast(k)
    BY DEF FileInv, CopyInv, StepsInv
  <2>2. Done(k) = {o \in {p \in Ops : key[p] = k} : at[o] = "done"}
    BY <2>1 DEF Done, Took, StepsOfTurn, Ended
  <2>3. MovedAside(k) = {}
    BY <2>1 DEF MovedAside, Took, StepsOfTurn, AsideOfStep, Ended
  <2> QED
    BY <2>1, <2>2, <2>3 DEF FoundLast, Found
<1> QED
  BY <1>1, FileInvariant, PTL

----------------------------------------------------------------------------
(* The scheduler: CoalescedAsyncScheduler *)

\* Nothing has been requested yet.
LEMMA SchedulerStarts == SchedulerInit => SchedulerInv
<1> SUFFICES ASSUME SchedulerInit PROVE SchedulerInv
  OBVIOUS
<1> USE RetryAssumption DEF SchedulerInit
<1>1. Flags
  BY Zenon DEF Flags
<1>2. SchedulerTypeOK
  BY <1>1 DEF SchedulerTypeOK, Counts
<1>3. Owned /\ Counted /\ ChangeRemembered /\ RequestHasTimer /\ RetriesBounded
  BY DEF Owned, Counted, ChangeRemembered, RequestHasTimer, RetriesBounded
<1> QED
  BY <1>2, <1>3 DEF SchedulerInv

\* A request is kept: in the flag, or by the scheduler.
LEMMA ChangeKeeps == SchedulerInv /\ IndexChanges => SchedulerInv'
<1> SUFFICES ASSUME SchedulerInv, IndexChanges PROVE SchedulerInv'
  OBVIOUS
<1> USE RetryAssumption DEF SchedulerInv, SchedulerTypeOK, Owned, Counts, Flags, IndexChanges, Request, Schedule, scheduler
<1>1. SchedulerTypeOK'
  <2>1. Flags'
    BY Zenon
  <2>2. Counts' /\ startup' \in {"loading", "ready", "checked"}
    OBVIOUS
  <2> QED
    BY <2>1, <2>2
<1>2. Owned'
  OBVIOUS
<1>3. Counted'
  BY DEF Counted, RetriesBounded
<1>4. ChangeRemembered'
  BY DEF ChangeRemembered
<1>5. RequestHasTimer'
  BY DEF RequestHasTimer
<1>6. RetriesBounded'
  BY DEF RetriesBounded, Counted
<1> QED
  BY <1>1, <1>2, <1>3, <1>4, <1>5, <1>6

\* Startup becomes ready.
LEMMA ReadyKeeps == SchedulerInv /\ StartupReady => SchedulerInv'
<1> SUFFICES ASSUME SchedulerInv, StartupReady PROVE SchedulerInv'
  OBVIOUS
<1> USE RetryAssumption DEF SchedulerInv, SchedulerTypeOK, Owned, Counts, Flags, StartupReady, scheduler
<1>1. SchedulerTypeOK'
  <2>1. Flags'
    BY Zenon
  <2>2. Counts' /\ startup' \in {"loading", "ready", "checked"}
    OBVIOUS
  <2> QED
    BY <2>1, <2>2
<1>2. Owned'
  OBVIOUS
<1>3. Counted'
  BY DEF Counted, RetriesBounded
<1>4. ChangeRemembered'
  BY DEF ChangeRemembered
<1>5. RequestHasTimer'
  BY DEF RequestHasTimer
<1>6. RetriesBounded'
  BY DEF RetriesBounded, Counted
<1> QED
  BY <1>1, <1>2, <1>3, <1>4, <1>5, <1>6

\* Startup hands the flag over to the scheduler.
LEMMA ChecksKeeps == SchedulerInv /\ StartupChecks => SchedulerInv'
<1> SUFFICES ASSUME SchedulerInv, StartupChecks PROVE SchedulerInv'
  OBVIOUS
<1> USE RetryAssumption DEF SchedulerInv, SchedulerTypeOK, Owned, Counts, Flags, StartupChecks, ChecksFlag, Request, Schedule, scheduler
<1>1. SchedulerTypeOK'
  <2>1. Flags'
    BY Zenon
  <2>2. Counts' /\ startup' \in {"loading", "ready", "checked"}
    OBVIOUS
  <2> QED
    BY <2>1, <2>2
<1>2. Owned'
  OBVIOUS
<1>3. Counted'
  BY DEF Counted, RetriesBounded
<1>4. ChangeRemembered'
  BY DEF ChangeRemembered
<1>5. RequestHasTimer'
  BY DEF RequestHasTimer
<1>6. RetriesBounded'
  BY DEF RetriesBounded, Counted
<1> QED
  BY <1>1, <1>2, <1>3, <1>4, <1>5, <1>6

\* Cancelling drops the request with its timer.
LEMMA UnloadKeeps == SchedulerInv /\ Unload => SchedulerInv'
<1> SUFFICES ASSUME SchedulerInv, Unload PROVE SchedulerInv'
  OBVIOUS
<1> USE RetryAssumption DEF SchedulerInv, SchedulerTypeOK, Owned, Counts, Flags, Unload
<1>1. SchedulerTypeOK'
  <2>1. Flags'
    BY Zenon
  <2>2. Counts' /\ startup' \in {"loading", "ready", "checked"}
    OBVIOUS
  <2> QED
    BY <2>1, <2>2
<1>2. Owned'
  OBVIOUS
<1>3. Counted'
  BY DEF Counted, RetriesBounded
<1>4. ChangeRemembered'
  BY DEF ChangeRemembered
<1>5. RequestHasTimer'
  BY DEF RequestHasTimer
<1>6. RetriesBounded'
  BY DEF RetriesBounded, Counted
<1> QED
  BY <1>1, <1>2, <1>3, <1>4, <1>5, <1>6

\* A run takes the request.
LEMMA BeginKeeps == SchedulerInv /\ RunBegins => SchedulerInv'
<1> SUFFICES ASSUME SchedulerInv, RunBegins PROVE SchedulerInv'
  OBVIOUS
<1> USE RetryAssumption DEF SchedulerInv, SchedulerTypeOK, Owned, Counts, Flags, RunBegins, TakesRequest
<1>1. SchedulerTypeOK'
  <2>1. Flags'
    BY Zenon
  <2>2. Counts' /\ startup' \in {"loading", "ready", "checked"}
    OBVIOUS
  <2> QED
    BY <2>1, <2>2
<1>2. Owned'
  OBVIOUS
<1>3. Counted'
  BY DEF Counted, RetriesBounded
<1>4. ChangeRemembered'
  BY DEF ChangeRemembered
<1>5. RequestHasTimer'
  BY DEF RequestHasTimer
<1>6. RetriesBounded'
  BY DEF RetriesBounded, Counted
<1> QED
  BY <1>1, <1>2, <1>3, <1>4, <1>5, <1>6

\* A run that succeeds has reconciled what it saw.
LEMMA SuccessKeeps == SchedulerInv /\ RunSucceeds => SchedulerInv'
<1> SUFFICES ASSUME SchedulerInv, RunSucceeds PROVE SchedulerInv'
  OBVIOUS
<1> USE RetryAssumption DEF SchedulerInv, SchedulerTypeOK, Owned, Counts, Flags, RunSucceeds, Rearm
<1>1. SchedulerTypeOK'
  <2>1. Flags'
    BY Zenon
  <2>2. Counts' /\ startup' \in {"loading", "ready", "checked"}
    OBVIOUS
  <2> QED
    BY <2>1, <2>2
<1>2. Owned'
  OBVIOUS
<1>3. Counted'
  BY DEF Counted, RetriesBounded
<1>4. ChangeRemembered'
  BY DEF ChangeRemembered
<1>5. RequestHasTimer'
  BY DEF RequestHasTimer
<1>6. RetriesBounded'
  BY DEF RetriesBounded, Counted
<1> QED
  BY <1>1, <1>2, <1>3, <1>4, <1>5, <1>6

\* A run that fails is repeated, or was the last repetition.
LEMMA FailureKeeps == SchedulerInv /\ RunFails => SchedulerInv'
<1> SUFFICES ASSUME SchedulerInv, RunFails PROVE SchedulerInv'
  OBVIOUS
<1> USE RetryAssumption DEF SchedulerInv, SchedulerTypeOK, Owned, Counts, Flags, RunFails, Rearm, Repeats
<1>1. SchedulerTypeOK'
  <2>1. Flags'
    BY Zenon
  <2>2. Counts' /\ startup' \in {"loading", "ready", "checked"}
    OBVIOUS
  <2> QED
    BY <2>1, <2>2
<1>2. Owned'
  OBVIOUS
<1>3. Counted'
  BY DEF Counted, RetriesBounded
<1>4. ChangeRemembered'
  BY DEF ChangeRemembered
<1>5. RequestHasTimer'
  BY DEF RequestHasTimer
<1>6. RetriesBounded'
  BY DEF RetriesBounded, Counted
<1> QED
  BY <1>1, <1>2, <1>3, <1>4, <1>5, <1>6

\* Every step preserves the invariant.
LEMMA SchedulerStep == SchedulerInv /\ [SchedulerNext]_schedulerVars => SchedulerInv'
<1>1. SchedulerInv /\ UNCHANGED schedulerVars => SchedulerInv'
  BY DEF schedulerVars, scheduler, SchedulerInv, SchedulerTypeOK, Flags, Counts, Owned, Counted, ChangeRemembered,
         RequestHasTimer, RetriesBounded
<1> QED
  BY <1>1, ChangeKeeps, ReadyKeeps, ChecksKeeps, UnloadKeeps, BeginKeeps,
     SuccessKeeps, FailureKeeps DEF SchedulerNext

\* The inductive invariant of the scheduler.
THEOREM SchedulerInvariant == SchedulerSpec => []SchedulerInv
BY SchedulerStarts, SchedulerStep, PTL DEF SchedulerSpec

\* No change of the index is forgotten: a change waits in the flag of startup,
\* in a request, in a run, or was given up after every repetition.
THEOREM NoChangeForgotten == SchedulerSpec => []ChangeRemembered
<1>1. SchedulerInv => ChangeRemembered
  BY DEF SchedulerInv
<1> QED
  BY <1>1, SchedulerInvariant, PTL

\* A request never waits without somebody to serve it.
THEOREM NoRequestStranded == SchedulerSpec => []RequestHasTimer
<1>1. SchedulerInv => RequestHasTimer
  BY DEF SchedulerInv
<1> QED
  BY <1>1, SchedulerInvariant, PTL

\* A request leads to at most MaxRetries repetitions, for every MaxRetries.
THEOREM FewRepetitions == SchedulerSpec => []RetriesBounded
<1>1. SchedulerInv => RetriesBounded
  BY DEF SchedulerInv
<1> QED
  BY <1>1, SchedulerInvariant, PTL
==================================================================================
