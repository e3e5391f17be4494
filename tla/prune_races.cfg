\* Two generated sessions and one more, two runs, a loss of the process.
SPECIFICATION FairSpec
CONSTANTS
    MaxSession = 3
    MaxRun = 2
    Sessions <- AllSessions
    Runs <- AllRuns
    Generated = {1, 2}
    Broken = {2}
    None = None
    SESSION_PRUNE_CLAIM = SESSION_PRUNE_CLAIM
    KeepRecent = 1
    BatchSize = 2
    MaxNamed = 1
    MaxLosses = 1
PROPERTIES ClaimEnds
INVARIANTS TypeOK ReferencesHold ContinuationKept
CHECK_DEADLOCK FALSE
