---------------------------- MODULE FeatureTables ----------------------------
(***************************************************************************)
(* The rows that decide which features exist, which of them are archived,  *)
(* and which depends on which: the tables features, feature_environments   *)
(* and dependent_features, the read models that query them, and the        *)
(* statements that change them.                                            *)
(*                                                                         *)
(* One environment stands for all of them: `enabled' holds the features    *)
(* that are enabled in some environment.                                   *)
(***************************************************************************)
CONSTANTS
    Features,       \* feature names
    Projects,       \* project ids
    NoProject,      \* the project of a name that has no row
    UpdateMoves     \* how the bodies of PUT and PATCH may change `archived'

ASSUME TablesAssumption == NoProject \notin Projects
ASSUME UpdateMovesAssumption == UpdateMoves \subseteq {"archive", "revive"}

VARIABLES
    project,        \* features.project
    archived,       \* the features whose archived_at is set
    enabled,        \* the features with an enabled environment
    dependencies    \* dependent_features, a pair <<parent, child>> per row

tableVars == <<project, archived, enabled, dependencies>>

Exists(f) == project[f] # NoProject

(* Types, and what the foreign keys and their cascades guarantee: archived *)
(* and enabled are columns of existing rows, a dependency names two        *)
(* existing features.                                                      *)
TablesTypeOK ==
    /\ project \in [Features -> Projects \cup {NoProject}]
    /\ archived \subseteq {f \in Features : Exists(f)}
    /\ enabled \subseteq {f \in Features : Exists(f)}
    /\ dependencies \subseteq
           {f \in Features : Exists(f)} \X {f \in Features : Exists(f)}

-----------------------------------------------------------------------------
(* DependentFeaturesReadModel.                                             *)
ChildrenOf(parents) == {f \in Features : \E p \in parents : <<p, f>> \in dependencies}

ParentsOf(child) == {f \in Features : <<f, child>> \in dependencies}

(* The members of `names' that some feature outside `names' depends on.    *)
OrphanParents(names) ==
    {p \in names : \E c \in Features \ names : <<p, c>> \in dependencies}

HaveDependencies(names) ==
    \E d \in dependencies : d[1] \in names \/ d[2] \in names

(* FeaturesReadModel: an active feature; one project over the rows that    *)
(* exist among the two names, a missing row does not count.                *)
FeatureExists(f) == Exists(f) /\ f \notin archived

FeaturesInTheSameProject(f, g) ==
    /\ Exists(f) \/ Exists(g)
    /\ Exists(f) /\ Exists(g) => project[f] = project[g]

(* validateFeaturesContext: those of the names that exist are in project p *)
FeaturesContext(names, p) == \A f \in names : Exists(f) => project[f] = p

(* The rows DependentFeaturesStore.deleteAll(children) deletes.            *)
RowsOfChildren(children) == {d \in dependencies : d[2] \in children}

-----------------------------------------------------------------------------
(* The rules for dependencies.                                             *)

(* A child has one parent at most: the store replaces the row of a child.  *)
SingleParent ==
    \A d, e \in dependencies : d[2] = e[2] => d[1] = e[1]

(* No feature is a parent and a child, so no chain is longer than one and  *)
(* nothing depends on itself: both reads of                                *)
(* unprotectedUpsertFeatureDependency that reject transitive dependencies. *)
SingleLevel ==
    \A d, e \in dependencies : d[2] # e[1]

(* Parent and child are in one project: the sameProject read when a        *)
(* dependency is added, and haveDependencies when a feature is moved.      *)
SameProject ==
    \A d \in dependencies : project[d[1]] = project[d[2]]

(* Nothing depends on an archived parent, which no SDK would receive:      *)
(* validateNoChildren and validateNoOrphanParents on every way to archive. *)
ParentsActive ==
    \A d \in dependencies : d[1] \notin archived

(* A feature that leaves the archive is disabled in every environment.     *)
(* reviveFeature and reviveFeatures call disableAllEnvironmentsForFeatures *)
RevivedDisabled ==
    [][\A f \in archived : Exists(f)' => f \in archived' \/ f \notin enabled']_tableVars
=============================================================================
