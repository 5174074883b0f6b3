----------------------- MODULE CoalescedAsyncScheduler -----------------------
(***************************************************************************)
(* core/coalesced-async-scheduler.ts with its owner in main.ts, which      *)
(* reconciles the project serials after changes of the index: requests     *)
(* that come before startup has ended wait in a flag, later ones share a   *)
(* timer, those that come during a run lead to one more run, and a run     *)
(* that fails is repeated at most maxRetries times.                        *)
(***************************************************************************)
EXTENDS Naturals

CONSTANTS
    MaxRetries,  \* maxRetries
    MaxChanges   \* bound: changes of the index

ASSUME RetryAssumption == MaxRetries \in Nat /\ MaxChanges \in Nat

VARIABLES
    startup,       \* how far startup has come: "loading", "ready", "checked"
    startupReady,
    early,         \* projectSerialIndexReconcilePendingBeforeStartup
    timer, requested, running,
    cancelled,     \* and its owner has let go of the scheduler
    consecutiveFailures,
    fresh,         \* the index has changed since the last run began (history)
    carried,       \* changes before that which no run has reconciled (history)
    attempts,      \* runs begun since the last request, up to one too many (history)
    changes

scheduler == <<timer, requested, running, cancelled, consecutiveFailures>>
schedulerVars == <<startup, startupReady, early, scheduler, fresh, carried, attempts, changes>>

SchedulerInit ==
    /\ startup = "loading" /\ startupReady = FALSE /\ early = FALSE
    /\ timer = FALSE /\ requested = FALSE /\ running = FALSE /\ cancelled = FALSE
    /\ consecutiveFailures = 0 /\ fresh = FALSE /\ carried = FALSE /\ attempts = 0 /\ changes = 0

\* Variant: a request during a run is taken to be served by it.
Schedule_Absorbed ==
    /\ consecutiveFailures' = IF running \/ timer \/ requested THEN consecutiveFailures ELSE 0
    /\ requested' = ~running
    /\ timer' = (timer \/ ~running)
    /\ UNCHANGED <<running, cancelled>>

\* The failures are counted anew for a request that finds the scheduler at rest.
Schedule ==
    /\ consecutiveFailures' = IF running \/ timer \/ requested THEN consecutiveFailures ELSE 0
    /\ requested' = TRUE
    /\ timer' = (timer \/ ~running)
    /\ UNCHANGED <<running, cancelled>>

\* scheduleProjectSerialIndexReconcile
Request ==
    IF startupReady /\ ~cancelled
    THEN early' = FALSE /\ Schedule /\ attempts' = 0
    ELSE early' = TRUE /\ UNCHANGED <<scheduler, attempts>>

IndexChanges ==
    /\ changes < MaxChanges /\ changes' = changes + 1
    /\ fresh' = TRUE /\ Request
    /\ UNCHANGED <<startup, startupReady, carried>>

\* Startup goes on after an unload.
StartupReady ==
    /\ startup = "loading" /\ startup' = "ready" /\ startupReady' = TRUE
    /\ UNCHANGED <<early, scheduler, fresh, carried, attempts, changes>>

\* Variant: the flag is looked at before startup is declared ready.
ChecksFlag_Early == FALSE

\* What was requested before is scheduled when the reminders have started.
ChecksFlag == early

StartupChecks ==
    /\ startup = "ready" /\ startup' = "checked"
    /\ IF ChecksFlag THEN Request ELSE UNCHANGED <<early, scheduler, attempts>>
    /\ UNCHANGED <<startupReady, fresh, carried, changes>>

\* unloadPlugin: cancel
Unload ==
    /\ ~cancelled /\ cancelled' = TRUE
    /\ startupReady' = FALSE /\ early' = FALSE /\ requested' = FALSE /\ timer' = FALSE
    /\ UNCHANGED <<startup, running, consecutiveFailures, fresh, carried, attempts, changes>>

\* Failing runs are not repeated for ever: a request leads to at most
\* maxRetries repetitions.
RetriesBounded == attempts <= MaxRetries + 1

TakesRequest == requested' = FALSE

\* The timer fires: runPending.
RunBegins ==
    /\ timer /\ timer' = FALSE
    /\ ~cancelled /\ ~running /\ requested
    /\ running' = TRUE /\ TakesRequest
    /\ carried' = (carried \/ fresh) /\ fresh' = FALSE
    /\ attempts' = IF RetriesBounded THEN attempts + 1 ELSE attempts
    /\ UNCHANGED <<startup, startupReady, early, cancelled, consecutiveFailures, changes>>

\* The finally block.
Rearm(again) ==
    /\ running' = FALSE /\ requested' = again
    /\ timer' = (again /\ ~cancelled)

RunSucceeds ==
    /\ running
    /\ consecutiveFailures' = 0 /\ carried' = FALSE
    /\ Rearm(requested)
    /\ UNCHANGED <<startup, startupReady, early, cancelled, fresh, attempts, changes>>

Repeats == consecutiveFailures + 1 <= MaxRetries /\ ~cancelled

RunFails ==
    /\ running
    /\ consecutiveFailures' = consecutiveFailures + 1
    /\ Rearm(requested \/ Repeats)
    /\ UNCHANGED <<startup, startupReady, early, cancelled, fresh, carried, attempts, changes>>

SchedulerNext == \/ IndexChanges \/ StartupReady \/ StartupChecks \/ Unload
        \/ RunBegins \/ RunSucceeds \/ RunFails

SchedulerSpec == SchedulerInit /\ [][SchedulerNext]_schedulerVars

\* Startup goes on, timers fire and reconciliations end, some way or other.
FairSchedulerSpec ==
    /\ SchedulerSpec /\ WF_schedulerVars(StartupReady) /\ WF_schedulerVars(StartupChecks)
    /\ WF_schedulerVars(RunBegins) /\ WF_schedulerVars(RunSucceeds \/ RunFails)

----------------------------------------------------------------------------
(* Properties *)

Flags ==
    /\ startupReady \in BOOLEAN /\ early \in BOOLEAN /\ timer \in BOOLEAN
    /\ requested \in BOOLEAN /\ running \in BOOLEAN /\ cancelled \in BOOLEAN
    /\ fresh \in BOOLEAN /\ carried \in BOOLEAN
Counts == consecutiveFailures \in Nat /\ attempts \in Nat /\ changes \in Nat

SchedulerTypeOK == startup \in {"loading", "ready", "checked"} /\ Flags /\ Counts

\* A change that no run has seen waits in the flag or in a request; one that a
\* run saw is reconciled, or waits for a repetition, or every repetition has
\* failed: short of an unload, no change of the index is forgotten.
ChangeRemembered ==
    /\ fresh => early \/ requested \/ cancelled
    /\ carried => requested \/ running \/ cancelled \/ consecutiveFailures > MaxRetries

\* A request that waits has a timer, unless a run will arm one when it ends,
\* and the flag is left only to the check of startup.
RequestHasTimer ==
    /\ requested => timer \/ running
    /\ early => startup # "checked" \/ cancelled

\* A run begins after every change, unless the plugin is unloaded.
ChangesServed == fresh ~> (~fresh \/ cancelled)

\* What the repetitions of a failing run rest on.
Counted ==
    /\ running /\ requested => attempts = 0
    /\ running /\ ~requested => attempts <= consecutiveFailures + 1 /\ attempts <= MaxRetries + 1
    /\ requested /\ ~running => attempts <= consecutiveFailures
    /\ requested /\ ~running /\ attempts > 0 => consecutiveFailures <= MaxRetries

\* A scheduler that was let go holds no request, and startup is ready as soon
\* as it says so.
Owned ==
    /\ cancelled => ~requested /\ ~timer
    /\ timer => requested /\ ~running
    /\ startup # "loading" => startupReady \/ cancelled

\* The inductive invariant.
SchedulerInv ==
    SchedulerTypeOK /\ Owned /\ Counted /\ ChangeRemembered /\ RequestHasTimer /\ RetriesBounded
=============================================================================
