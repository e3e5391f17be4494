\* A cancel request, retries, racing stops and a loss, around every tick.
SPECIFICATION Spec
CONSTANTS
    a = a
    b = b
    c = c
    Nodes = {a, b}
    Needs <- Pair
    Mode <- PairModes
    Retries = 1
    MaxConcurrency = 1
    Runs = {r1, r2, r3}
    None = None
    StartRaises = TRUE
    MaxCancels = 1
    MaxLosses = 1
INVARIANTS TypeOK CompletedMeansDone ConcurrencyRespected
CHECK_DEADLOCK FALSE
