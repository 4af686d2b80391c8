\* Two threads, three days, two records a day, one crash; clear_expired() keeps
\* one or two days before the day at hand.
SPECIFICATION FairSpec
CONSTANTS
    Threads = {t1, t2}
    None = None
    KeepDays = {1, 2}
    MaxDay = 3
    MaxRecords = 2
    MaxCrashes = 1
INVARIANTS
    NothingInvented
PROPERTIES
    UndisturbedIsDurable
    LockIsReleased
CHECK_DEADLOCK FALSE
