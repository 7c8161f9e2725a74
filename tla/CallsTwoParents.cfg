SPECIFICATION Spec
CONSTANTS
    f1 = f1
    f2 = f2
    f3 = f3
    p1 = p1
    p2 = p2
    c1 = c1
    c2 = c2
    Features <- ThreeFeatures
    Projects <- TwoProjects
    NoProject = NoProject
    UpdateMoves = {}
    Callers <- TwoCallers
    Operations <- OnlyAdding
    Overlap = TRUE
INVARIANT
    SingleParent
