\* Input through submit_input only, no stops and no failing hooks; agents may
\* raise and the process may be lost twice.
SPECIFICATION FairSpec
CONSTANTS
    Sessions = {s1}
    Runs = {r1, r2, r3}
    None = None
    Paths = {"submit"}
    Modes = {"async", "stream"}
    Restores = {"default"}
    Faulty = {"agent"}
    MaxStops = 0
    MaxCrashes = 2
INVARIANTS ActiveIsRunning NoAbandonedRun OneLiveRun
PROPERTIES EveryRunSettles
CHECK_DEADLOCK FALSE
