\* A hook that raises after the commit turns the completed run into a failed one.
SPECIFICATION Spec
CONSTANTS
    Sessions = {s1}
    Runs = {r1}
    None = None
    Paths = {"submit"}
    Modes = {"async"}
    Restores = {"default"}
    Faulty = {"hooks"}
    MaxStops = 0
    MaxCrashes = 0
PROPERTY TerminalIsFinal
CHECK_DEADLOCK FALSE
