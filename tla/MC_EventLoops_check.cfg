\* Two loops with fair threads: post-loop ordering, rescan and timers.
CONSTANTS
    NumAdditional = 1
    UserKinds <- MCUserKinds
SPECIFICATION FairSpec
INVARIANTS
    TypeOK
    EnabledTimerScheduled
PROPERTIES
    PostloopActivationsWaitForPoll
    RescanForcesPoll
