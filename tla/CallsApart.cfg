SPECIFICATION Spec
CONSTANTS
    f1 = f1
    f2 = f2
    f3 = f3
    p1 = p1
    p2 = p2
    c1 = c1
    c2 = c2
    Features <- ThreeFeatures
    Projects <- TwoProjects
    NoProject = NoProject
    UpdateMoves = {"archive", "revive"}
    Callers <- TwoCallers
    Operations <- AllOperations
    Overlap = FALSE
SYMMETRY CallSymmetry
PROPERTY
    FollowsRules
