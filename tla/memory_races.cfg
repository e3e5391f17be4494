\* Turns and a manual request race the hooks of memory runs over one state
\* row; a run may fail, be stopped or be lost.
SPECIFICATION FairSpec
CONSTANTS
    Slots = {s1, s2, s3}
    Manuals = {m}
    TurnsLimit = 2
    ExtractsLimit = 1
    Kept = 1
    MaxTurns = 3
    MaxJumps = 1
    MaxFaults = 1
INVARIANTS TypeOK OneLiveMemoryRun PendingHasCarrier LastIsCovered
PROPERTIES LastExtractedGrows QueueDrains
CHECK_DEADLOCK FALSE
