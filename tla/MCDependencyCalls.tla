-------------------------- MODULE MCDependencyCalls --------------------------
(* DependencyCalls on small instances: two callers, few operations where   *)
(* calls overlap, all of them where they do not.                           *)
EXTENDS DependencyCalls, TLC

CONSTANTS f1, f2, f3, p1, p2, c1, c2

TwoFeatures == {f1, f2}
ThreeFeatures == {f1, f2, f3}
TwoProjects == {p1, p2}
TwoCallers == {c1, c2}

(* Every operation, or those a run is about.                               *)
AllOperations == OperationNames
OnlyAdding == {"create", "addDependency"}
AddingAndArchiving == {"create", "addDependency", "archive"}
AddingAndMoving == {"create", "addDependency", "changeProject"}
ArchivingAndMoving == {"create", "setEnabled", "archive", "changeProject"}

CallSymmetry ==
    Permutations(ThreeFeatures) \cup Permutations(TwoProjects) \cup Permutations(TwoCallers)
=============================================================================
