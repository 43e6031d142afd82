SPECIFICATION Spec
CONSTANTS
    None = None
    Names <- StageNames
    Specs <- AllSpecs
    MaxAttempts = 3
INVARIANT FullScoreTested
