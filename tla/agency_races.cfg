\* A note is submitted or steered while the loop hands over a fire and the
\* timer adds another; the process or a run may be lost.
SPECIFICATION Spec
CONSTANTS
    note = note
    Fires = {1, 2}
    Heartbeats = {2}
    BatchLimit = 1
    Runs = {r1, r2}
    Items <- MCItems
    Submits = {note}
    Steers = {note}
    Files = {note}
    Callers = {loop, post}
    Dispatchers = {loop}
    None = None
    MaxFaults = 1
SYMMETRY RunSymmetry
INVARIANTS TypeOK SteeredOnce GateLeavesNothing HandedOverIsStored SubmittedFireIsHeard
CHECK_DEADLOCK FALSE
