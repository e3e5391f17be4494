\* Two nodes side by side in one session and one that joins them.
SPECIFICATION FairSpec
CONSTANTS
    a = a
    b = b
    c = c
    Nodes = {a, b, c}
    Needs <- Join
    Mode <- JoinModes
    Retries = 0
    MaxConcurrency = 2
    Runs = {r1, r2, r3, r4}
    None = None
    StartRaises = FALSE
    MaxCancels = 0
    MaxLosses = 1
PROPERTIES WorkflowEnds ImplementsDependencyOrder
CHECK_DEADLOCK FALSE
