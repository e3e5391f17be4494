\* A session, a fork of it, and a run in the fork.
SPECIFICATION Spec
CONSTANTS
    MaxSession = 2
    MaxRun = 2
    Sessions <- AllSessions
    Runs <- AllRuns
    Generated = {}
    Broken = {}
    None = None
    SESSION_PRUNE_CLAIM = SESSION_PRUNE_CLAIM
    KeepRecent = 1
    BatchSize = 2
    MaxNamed = 0
    MaxLosses = 0
INVARIANTS AncestorIsRestored
CHECK_DEADLOCK FALSE
