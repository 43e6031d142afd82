SPECIFICATION Spec
CONSTANTS
    None = None
    Mains <- NewMain
    Modes <- PushModes
    MaxRuns = 2
    MaxEdits = 1
INVARIANT AdminRunProtects
CHECK_DEADLOCK FALSE
