SPECIFICATION Spec
CONSTANTS
    c1 = c1
    c2 = c2
    r1 = r1
    r2 = r2
    s1 = s1
    s2 = s2
    bad = bad
    NoRepo = NoRepo
    None = None
    Callers = {c1, c2}
    Spellings = {s1, s2}
    Repos = {r1}
    Canon <- OneRepo
    Percentages = {40}
    Durable = TRUE
    Faulty <- AllSteps
    MaxCalls = 1
    MaxFaults = 0
    MaxCrashes = 0
    MaxRevs = 0
    MaxIssues = 1
    MaxEdits = 0
    MaxClock = 1
CHECK_DEADLOCK FALSE
INVARIANTS
    OnePipelinePerRepo
