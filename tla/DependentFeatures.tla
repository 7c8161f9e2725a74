-------------------------- MODULE DependentFeatures --------------------------
(***************************************************************************)
(* The operations of FeatureToggleService and DependentFeaturesService     *)
(* that bear on dependencies, one call at a time: the specification the    *)
(* interleaved calls of DependencyCalls are compared with.  A call that is *)
(* refused changes nothing and has no step here.                           *)
(*                                                                         *)
(* cloneFeatureToggle is Create followed by AddDependency: it runs outside *)
(* any transaction and its two halves are separate commits.                *)
(***************************************************************************)
EXTENDS FeatureTables

Init ==
    /\ project = [f \in Features |-> NoProject]
    /\ archived = {}
    /\ enabled = {}
    /\ dependencies = {}

(* createFeatureToggle: the name is free, the environments start disabled. *)
(* The body goes through unfiltered, so a feature may be born archived.    *)
Create(f, p) ==
    /\ ~Exists(f)
    /\ project' = [project EXCEPT ![f] = p]
    /\ archived' \in {archived, archived \cup {f}}
    /\ UNCHANGED <<enabled, dependencies>>

(* Seeded fault: the store inserts without deleting the child's old row.   *)
AddDependencyKeepingOld(parent, child) ==
    /\ parent # child
    /\ ChildrenOf({child}) = {}
    /\ ParentsOf(parent) = {}
    /\ FeatureExists(parent)
    /\ FeaturesInTheSameProject(child, parent)
    /\ Exists(child)
    /\ dependencies' = dependencies \cup {<<parent, child>>}
    /\ UNCHANGED <<project, archived, enabled>>

(* Seeded fault: the parent's own parent is not looked up.                 *)
AddDependencyTransitively(parent, child) ==
    /\ parent # child
    /\ ChildrenOf({child}) = {}
    /\ FeatureExists(parent)
    /\ FeaturesInTheSameProject(child, parent)
    /\ Exists(child)
    /\ dependencies' = (dependencies \ RowsOfChildren({child})) \cup {<<parent, child>>}
    /\ UNCHANGED <<project, archived, enabled>>

(* unprotectedUpsertFeatureDependency and DependentFeaturesStore.upsert.   *)
(* Nothing asks whether the child exists, its foreign key does; an         *)
(* archived child is accepted.                                             *)
AddDependency(parent, child) ==
    /\ parent # child
    /\ ChildrenOf({child}) = {}
    /\ ParentsOf(parent) = {}
    /\ FeatureExists(parent)
    /\ FeaturesInTheSameProject(child, parent)
    /\ Exists(child)
    /\ dependencies' = (dependencies \ RowsOfChildren({child})) \cup {<<parent, child>>}
    /\ UNCHANGED <<project, archived, enabled>>

(* unprotectedDeleteFeatureDependency.                                     *)
DeleteDependency(parent, child) ==
    /\ dependencies' = dependencies \ {<<parent, child>>}
    /\ UNCHANGED <<project, archived, enabled>>

(* unprotectedDeleteFeaturesDependencies for one child.                    *)
DeleteDependencies(child) ==
    /\ dependencies' = dependencies \ RowsOfChildren({child})
    /\ UNCHANGED <<project, archived, enabled>>

(* archiveToggle, which the routes only call with the feature's project.   *)
Archive(f) ==
    /\ Exists(f)
    /\ OrphanParents({f}) = {}
    /\ ChildrenOf({f}) = {}
    /\ archived' = archived \cup {f}
    /\ dependencies' = dependencies \ RowsOfChildren({f})
    /\ UNCHANGED <<project, enabled>>

(* Seeded fault: any child in the batch clears the whole batch.            *)
ArchiveAllUnchecked(names, p) ==
    /\ FeaturesContext(names, p)
    /\ OrphanParents(names) = {} \/ ChildrenOf(names) \cap names # {}
    /\ archived' = archived \cup {f \in names : Exists(f)}
    /\ dependencies' = dependencies \ RowsOfChildren(names)
    /\ UNCHANGED <<project, enabled>>

(* archiveToggles: parents and children may go together.                   *)
ArchiveAll(names, p) ==
    /\ FeaturesContext(names, p)
    /\ OrphanParents(names) = {}
    /\ archived' = archived \cup {f \in names : Exists(f)}
    /\ dependencies' = dependencies \ RowsOfChildren(names)
    /\ UNCHANGED <<project, enabled>>

(* Seeded fault: no ON DELETE CASCADE for the rows of a deleted child.     *)
DeleteRowsWithoutCascade(names) ==
    /\ OrphanParents(names) = {}
    /\ project' = [f \in Features |-> IF f \in names THEN NoProject ELSE project[f]]
    /\ archived' = archived \ names
    /\ enabled' = enabled \ names
    /\ UNCHANGED dependencies

(* The DELETE on features.  A foreign key removes the rows of a deleted    *)
(* child and forbids to delete a parent; a child deleted by the same       *)
(* statement may or may not have been cascaded before its parent is        *)
(* looked at, so that such a DELETE may fail as well.                      *)
DeleteRows(names) ==
    /\ OrphanParents(names) = {}
    /\ project' = [f \in Features |-> IF f \in names THEN NoProject ELSE project[f]]
    /\ archived' = archived \ names
    /\ enabled' = enabled \ names
    /\ dependencies' = dependencies \ RowsOfChildren(names)

(* deleteFeature: the WHERE clause only lets archived features go.         *)
Delete(f) ==
    /\ f \in archived
    /\ ChildrenOf({f}) = {}
    /\ DeleteRows({f})

(* deleteFeatures: the archived ones among the names.                      *)
DeleteAll(names, p) ==
    /\ FeaturesContext(names, p)
    /\ OrphanParents(names) = {}
    /\ DeleteRows(names \cap archived)

(* reviveFeature, on an active feature as well.                            *)
Revive(f) ==
    /\ Exists(f)
    /\ archived' = archived \ {f}
    /\ enabled' = enabled \ {f}
    /\ UNCHANGED <<project, dependencies>>

(* Seeded fault: disableAllEnvironmentsForFeatures is left out.            *)
ReviveAllEnabled(names, p) ==
    /\ FeaturesContext(names, p)
    /\ archived' = archived \ names
    /\ UNCHANGED <<project, enabled, dependencies>>

(* reviveFeatures: the archived ones among the names.                      *)
ReviveAll(names, p) ==
    /\ FeaturesContext(names, p)
    /\ archived' = archived \ names
    /\ enabled' = enabled \ (names \cap archived)
    /\ UNCHANGED <<project, dependencies>>

(* updateFeatureToggle: the row is rewritten with the `archived' of the    *)
(* body, FALSE if it has none, whatever it was.  UpdateMoves holds the     *)
(* changes of `archived' that the callers make in this way.                *)
Update(f, toArchived) ==
    /\ Exists(f)
    /\ toArchived /\ f \notin archived => "archive" \in UpdateMoves
    /\ ~toArchived /\ f \in archived => "revive" \in UpdateMoves
    /\ archived' = IF toArchived THEN archived \cup {f} ELSE archived \ {f}
    /\ UNCHANGED <<project, enabled, dependencies>>

(* Seeded fault: the `orWhereIn child' of haveDependencies is missing.     *)
ChangeProjectOfChild(f, p) ==
    /\ Exists(f)
    /\ ChildrenOf({f}) = {}
    /\ project' = [project EXCEPT ![f] = p]
    /\ UNCHANGED <<archived, enabled, dependencies>>

(* changeProject.                                                          *)
ChangeProject(f, p) ==
    /\ Exists(f)
    /\ ~HaveDependencies({f})
    /\ project' = [project EXCEPT ![f] = p]
    /\ UNCHANGED <<archived, enabled, dependencies>>

(* updateEnabled, only for features that are not archived.                 *)
SetEnabled(f, toEnabled) ==
    /\ FeatureExists(f)
    /\ enabled' = IF toEnabled THEN enabled \cup {f} ELSE enabled \ {f}
    /\ UNCHANGED <<project, archived, dependencies>>

FeatureStep(f) ==
    \/ Archive(f) \/ Delete(f) \/ Revive(f) \/ DeleteDependencies(f)
    \/ \E p \in Projects : Create(f, p) \/ ChangeProject(f, p)
    \/ \E b \in BOOLEAN : Update(f, b) \/ SetEnabled(f, b)
    \/ \E child \in Features : AddDependency(f, child) \/ DeleteDependency(f, child)

BatchStep(names, p) ==
    ArchiveAll(names, p) \/ DeleteAll(names, p) \/ ReviveAll(names, p)

Next ==
    \/ \E f \in Features : FeatureStep(f)
    \/ \E names \in SUBSET Features, p \in Projects : BatchStep(names, p)

Spec == Init /\ [][Next]_tableVars
=============================================================================
