------------------------- MODULE MCDependentFeatures -------------------------
(* DependentFeatures on small instances, with what PUT and PATCH may do.   *)
EXTENDS DependentFeatures

CONSTANTS f1, f2, f3, f4, p1, p2

ThreeFeatures == {f1, f2, f3}
FourFeatures == {f1, f2, f3, f4}
TwoProjects == {p1, p2}

OnlyArchive == {"archive"}
OnlyRevive == {"revive"}
=============================================================================
