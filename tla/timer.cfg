SPECIFICATION FairSpec
CONSTANTS
    WordSize = 6400
    MaxTime = 4
    Deadline = {0, 1, 2, 4}
    TickNs = 400
    DropStale = FALSE
INVARIANTS
    TypeOK
    WakeupNotLost
PROPERTIES
    DeadlineHonoured
    DeadlineKept
