\* A batch of one question and one of two, one client who approves and one who
\* denies, both at any speed, a bridge message, and a stop, a loss or a commit
\* that fails.
SPECIFICATION FairSpec
CONSTANTS
    Questions = {1, 2}
    MaxBatches = 2
    Asked <- MCAsked
    Approvers = {c1}
    Deniers = {c2}
    Inputs = {i}
    MaxFaults = 1
INVARIANTS TypeOK PendingIsAwaited RecordedAnswerIsUsed ConsumedIsSent
PROPERTIES EveryWaitEnds
CHECK_DEADLOCK FALSE
