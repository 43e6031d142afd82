SPECIFICATION Spec
CONSTANTS
    None = None
    Mains <- BothMains
    Modes <- AllModes
    MaxRuns = 2
    MaxEdits = 1
INVARIANTS TypeOK LocalInSync FirstRunDelivers OneSeedIssue
PROPERTIES RulesetAfterMerge UncommittedKept RunEnds
CHECK_DEADLOCK FALSE
