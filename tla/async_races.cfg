\* A task is spawned and resumed by overlapping calls while others cancel and read
\* it; the parent comes and goes; a stop or a loss.
SPECIFICATION FairSpec
CONSTANTS
    MaxRuns = 2
    Spawners = {a, b}
    Wakers = {a}
    Cancellers = {c}
    MaxFaults = 1
INVARIANTS TypeOK LiveRunsAccounted EndIsAnnounced
PROPERTIES EveryTaskEnds
CHECK_DEADLOCK FALSE
