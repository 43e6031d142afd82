SPECIFICATION Spec
CONSTANTS
    Authors = {"owner", "other"}
    MaxPushes = 3
    MaxReviews = 1
    MaxRuns = 4
    MaxFaults = 1
INVARIANTS TypeOK OwnerAsked
PROPERTIES MergedApproved ApprovalReleases
CHECK_DEADLOCK FALSE
