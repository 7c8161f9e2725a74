SPECIFICATION Spec
CONSTANTS
    s1 = s1
    s2 = s2
    s3 = s3
    c1 = c1
    c2 = c2
    Strategies <- TwoStrategies
    Callers <- OneCaller
    Defaults <- AllDefaults
    CutShort = FALSE
INVARIANT
    OnlyOffMeansDisabled
