SPECIFICATION Spec
CONSTANTS
    c1 = c1
    c2 = c2
    r1 = r1
    r2 = r2
    s1 = s1
    s2 = s2
    bad = bad
    NoRepo = NoRepo
    None = None
    Callers = {c1, c2}
    Spellings = {s1, bad}
    Repos = {r1}
    Canon <- OwnSpelling
    Percentages = {40}
    Durable = FALSE
    Faulty <- AllSteps
    MaxCalls = 2
    MaxFaults = 1
    MaxCrashes = 1
    MaxRevs = 0
    MaxIssues = 1
    MaxEdits = 1
    MaxClock = 1
CHECK_DEADLOCK FALSE
INVARIANTS
    TypeOK
    FlightsLed
    OnePipelinePerRepo
    OneOpenLoopIssue
PROPERTIES
    EveryCallAnswered
    NoLostReadmeEdit
