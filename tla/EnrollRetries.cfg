SPECIFICATION Spec
CONSTANTS
    c1 = c1
    c2 = c2
    r1 = r1
    r2 = r2
    s1 = s1
    s2 = s2
    bad = bad
    NoRepo = NoRepo
    None = None
    Callers = {c1, c2}
    Spellings = {s1}
    Repos = {r1}
    Canon <- OwnSpelling
    Percentages = {40, 100}
    Durable = TRUE
    Faulty <- AllSteps
    MaxCalls = 2
    MaxFaults = 1
    MaxCrashes = 1
    MaxRevs = 1
    MaxIssues = 3
    MaxEdits = 0
    MaxClock = 2
SYMMETRY CallerSymmetry
CHECK_DEADLOCK FALSE
INVARIANTS
    OneOpenLoopIssue
    SeedClosedWithNotice
    RecordNamesIssue
PROPERTIES
    KeepsPromise
    AnswerBacked
    RecordMonotone
    EnrolledAtKept
