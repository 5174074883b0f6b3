SPECIFICATION FairSchedulerSpec
CONSTANTS
    MaxRetries = 1
    MaxChanges = 4
INVARIANTS
    ChangeRemembered
PROPERTIES
    ChangesServed
CHECK_DEADLOCK FALSE
