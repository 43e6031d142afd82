SPECIFICATION Spec
CONSTANTS
    Probers = {cron}
    None = None
    CommandLines <- CronLines
    Overlap = FALSE
    MaxRuns = 2
    MaxFaults = 1
    MaxKills = 1
INVARIANTS NoDuplicateAlert
CHECK_DEADLOCK FALSE
