SPECIFICATION Spec
CONSTANTS
    f1 = f1
    f2 = f2
    f3 = f3
    f4 = f4
    p1 = p1
    p2 = p2
    Features <- ThreeFeatures
    Projects <- TwoProjects
    NoProject = NoProject
    UpdateMoves <- OnlyRevive
PROPERTY
    RevivedDisabled
