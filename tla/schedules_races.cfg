\* A repeating and a one-time schedule, ticks, a manual trigger, and an edit, a
\* loss or a skipped dispatch.
SPECIFICATION FairSpec
CONSTANTS
    Schedules = {a, b}
    Cron = {a}
    Queues = {a}
    Steers = {b}
    Manual = {m}
    MaxNow = 2
    MaxTroubles = 1
INVARIANTS TypeOK FiredOnce
PROPERTIES DueFires
CHECK_DEADLOCK FALSE
