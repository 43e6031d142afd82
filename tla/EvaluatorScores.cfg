SPECIFICATION Spec
CONSTANTS
    None = None
    Names <- StageNames
    Specs <- NamedSpecs
    MaxAttempts = 3
INVARIANTS TypeOK FullScoreTested DependenciesFirst SomethingToAsk
PROPERTIES JudgesInOneStroke EvaluationEnds
