SPECIFICATION Spec
CONSTANTS
    Probers = {cron}
    None = None
    CommandLines <- AllLines
    Overlap = FALSE
    MaxRuns = 3
    MaxFaults = 1
    MaxKills = 1
INVARIANTS TypeOK FailureAlerted ScoreOfRepositoryTests LeftoversExplained
PROPERTIES OneAlertIfIndexed RunEnds
CHECK_DEADLOCK FALSE
