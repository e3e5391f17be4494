\* Both ingress paths, stops, faults and a crash, all racing on one session.
SPECIFICATION Spec
CONSTANTS
    Sessions = {s1}
    Runs = {r1, r2}
    None = None
    Paths = {"create", "submit"}
    Modes = {"async", "stream", "queue"}
    Restores = {"default", "explicit", "reset"}
    Faulty = {"agent", "hooks"}
    MaxStops = 2
    MaxCrashes = 1
SYMMETRY RunSymmetry
INVARIANTS TypeOK ContinuationIsDurable ExecutedAtMostOnce
PROPERTY ImplementsContinuationLine
CHECK_DEADLOCK FALSE
