CONSTANTS
    Minutes = 2
    Rule = "rule"
    Conditions <- MCConditions
    Actions <- MCActions
    ActionsInactive <- MCInactive
    Device <- MCDevice
    Created <- MCCreated
    Edits <- MCEdits
    Batches <- MCBatches
    FirstDay = 2
    LastDay = 3
    MaxEvents = 2
SPECIFICATION FairSpec
INVARIANTS OutputFollows StoreAgrees  ScheduleExact
PROPERTIES ScheduleFollowed 
CHECK_DEADLOCK FALSE
