--------------------------- MODULE DependencyCalls ---------------------------
(***************************************************************************)
(* The operations of DependentFeatures as the server runs them: every call *)
(* is a sequence of queries, other calls run between any two of them, and  *)
(* the database isolates at READ COMMITTED, so a query sees whatever is    *)
(* committed when it runs and nothing keeps an answer true afterwards.     *)
(*                                                                         *)
(* A call has a queue of queries.  A check that fails throws and ends the  *)
(* call; a read fills `seen'; after the last query comes the write.  The   *)
(* statements of a transaction become visible together, so they are one    *)
(* step, Commit; the rows a DELETE inside the transaction can see are      *)
(* fixed when it runs, which is the query "childRows".  A call outside a   *)
(* transaction has one write, except cloneFeatureToggle.                   *)
(***************************************************************************)
EXTENDS FeatureTables, Sequences

CONSTANTS
    Callers,        \* requests in flight
    Operations,     \* the operations they call
    Overlap         \* whether two calls that share a feature may overlap

ASSUME OverlapAssumption == Overlap \in BOOLEAN

VARIABLE calls      \* the call each caller is in

vars == <<project, archived, enabled, dependencies, calls>>

(* The queries that may refuse a call, see Passes.                         *)
Checks == {"noChildren", "noGrandparents", "parentActive", "sameProject", "noOrphans",
           "independent", "oneProject", "exists", "active", "free", "sourceActive"}

(* What unprotectedUpsertFeatureDependency asks before it writes.          *)
DependencyChecks == {"noChildren", "noGrandparents", "parentActive", "sameProject"}

(* The queries of each operation, a set where Promise.all sends several at *)
(* once over the pool.  Inside a transaction they share one connection and *)
(* run in the order of the code.                                           *)
Queries == [
    create |-> <<{"free"}>>,
    clone |-> <<{"free"}, {"sourceActive"}>>,
    addDependency |-> <<{"noChildren"}, {"noGrandparents"}, {"parentActive"},
                        {"sameProject"}, {"childRows"}>>,
    deleteDependency |-> <<>>,
    deleteDependencies |-> <<>>,
    archive |-> <<{"exists"}, {"noOrphans"}, {"noChildren"}, {"childRows"}>>,
    archiveAll |-> <<{"oneProject"}, {"noOrphans"}, {"childRows"}>>,
    delete |-> <<{"noChildren"}, {"exists"}>>,
    deleteAll |-> <<{"oneProject"}, {"noOrphans"}, {"archivedRows"}>>,
    revive |-> <<>>,
    reviveAll |-> <<{"oneProject"}, {"archivedRows"}>>,
    update |-> <<{"row"}, {"exists"}>>,
    changeProject |-> <<{"exists"}, {"independent"}, {"row"}>>,
    setEnabled |-> <<{"exists"}, {"active"}>>]

OperationNames == DOMAIN Queries

ASSUME OperationsAssumption == Operations \subseteq OperationNames

(* One feature, a batch of features, or a feature and another one.         *)
BatchOperations == {"archiveAll", "deleteAll", "reviveAll"}
PairOperations == {"addDependency", "deleteDependency", "clone"}

NoCall == [op |-> "none", names |-> {}, other |-> {}, todo |-> <<>>, seen |-> {}]

(* The tables, and a call's fields.                                        *)
Call == [
    op : Operations \cup {"none", "cloned", "cloneDependency", "cloneInsert"},
    names : SUBSET Features,
    other : SUBSET Features,
    todo : Seq(SUBSET (Checks \cup {"childRows", "row", "archivedRows"})),
    seen : SUBSET (Features \cup (Features \X Features))]

TypeOK == TablesTypeOK /\ calls \in [Callers -> Call]

Init ==
    /\ project = [f \in Features |-> NoProject]
    /\ archived = {}
    /\ enabled = {}
    /\ dependencies = {}
    /\ calls = [c \in Callers |-> NoCall]

-----------------------------------------------------------------------------
(* The features a call reads or changes: a clone also reads the parent of  *)
(* its source.                                                             *)
Footprint(call) ==
    call.names \cup call.other
    \cup {f \in Features : call.op \in {"clone", "cloned"} /\ \E s \in call.other : f \in ParentsOf(s)}

(* A request arrives.  `other' is the parent of a dependency, the source   *)
(* of a clone.                                                             *)
Begin(c, op, names, other) ==
    LET call == [op |-> op, names |-> names, other |-> other,
                 todo |-> Queries[op], seen |-> {}]
    IN  /\ calls[c] = NoCall
        /\ \/ Overlap
           \/ \A d \in Callers : Footprint(calls[d]) \cap Footprint(call) = {}
        /\ calls' = [calls EXCEPT ![c] = call]
        /\ UNCHANGED tableVars

Arrive(c) ==
    \E op \in Operations :
        \/ /\ op \in BatchOperations
           /\ \E names \in (SUBSET Features) \ {{}} : Begin(c, op, names, {})
        \/ /\ op \in PairOperations
           /\ \E f, g \in Features :
                  /\ f # g
                  /\ Begin(c, op, {f}, {g})
        \/ /\ op \notin BatchOperations \cup PairOperations
           /\ \E f \in Features : Begin(c, op, {f}, {})

(* The call ends: done, refused, or cut short by a query that failed.      *)
End(c) == calls' = [calls EXCEPT ![c] = NoCall]

GiveUp(c) ==
    /\ calls[c] # NoCall
    /\ End(c)
    /\ UNCHANGED tableVars

-----------------------------------------------------------------------------
(* Seeded fault: a feature others depend on may be given a parent.         *)
NoChildrenUnlessAdded(call) ==
    call.op = "addDependency" \/ ChildrenOf(call.names) = {}

(* getChildren over the features the call is about.                        *)
NoChildren(call) == ChildrenOf(call.names) = {}

(* What each check asks the database.                                      *)
Passes(check, call) ==
    CASE check = "noChildren" -> NoChildren(call)
      [] check = "noGrandparents" -> \A p \in call.other : ParentsOf(p) = {}
      [] check = "parentActive" -> \A p \in call.other : FeatureExists(p)
      [] check = "sameProject" ->
             \A f \in call.names, p \in call.other : FeaturesInTheSameProject(f, p)
      [] check = "noOrphans" -> OrphanParents(call.names) = {}
      [] check = "independent" -> ~HaveDependencies(call.names)
      [] check = "oneProject" -> \E p \in Projects : FeaturesContext(call.names, p)
      [] check = "exists" -> \A f \in call.names : Exists(f)
      [] check = "active" -> \A f \in call.names : FeatureExists(f)
      [] check = "free" -> \A f \in call.names : ~Exists(f)
      [] check = "sourceActive" -> \A f \in call.other : FeatureExists(f)

(* What a read leaves with the call.  featureToggleStore.get throws when   *)
(* the row is gone.                                                        *)
Reads(read, call) ==
    IF read = "childRows" THEN RowsOfChildren(call.names) ELSE archived \cap call.names

(* The next query of a call is answered.                                   *)
Query(c) ==
    /\ calls[c].todo # <<>>
    /\ \E q \in Head(calls[c].todo) :
           /\ q \in Checks => Passes(q, calls[c])
           /\ q = "row" => Passes("exists", calls[c])
           /\ LET rest == Head(calls[c].todo) \ {q}
              IN  calls' = [calls EXCEPT
                      ![c].todo = (IF rest = {} THEN <<>> ELSE <<rest>>) \o Tail(@),
                      ![c].seen = IF q \in Checks THEN @ ELSE Reads(q, calls[c])]
    /\ UNCHANGED tableVars

(* A call of operation op on names (and other) has only its write left.    *)
Ready(c, op) == calls[c].op = op /\ calls[c].todo = <<>>

-----------------------------------------------------------------------------
(* createFeatureToggle and the first half of cloneFeatureToggle: the       *)
(* primary key rejects a name that was taken meanwhile.                    *)
Create(c) ==
    /\ Ready(c, "create")
    /\ \E f \in calls[c].names, p \in Projects :
           /\ ~Exists(f)
           /\ project' = [project EXCEPT ![f] = p]
           /\ archived' \in {archived, archived \cup {f}}
    /\ End(c)
    /\ UNCHANGED <<enabled, dependencies>>

CloneFeature(c) ==
    /\ Ready(c, "clone")
    /\ \E f \in calls[c].names, p \in Projects :
           /\ ~Exists(f)
           /\ project' = [project EXCEPT ![f] = p]
    /\ calls' = [calls EXCEPT ![c].op = "cloned"]
    /\ UNCHANGED <<archived, enabled, dependencies>>

(* cloneDependencies: the source's parent is looked up, then given to the  *)
(* clone outside of any transaction, all four checks at once over the pool.*)
CloneParents(c) ==
    /\ Ready(c, "cloned")
    /\ LET parents == {p \in Features : \E s \in calls[c].other : p \in ParentsOf(s)}
       IN  \/ parents = {} /\ End(c)
           \/ \E p \in parents :
                  calls' = [calls EXCEPT ![c].op = "cloneDependency",
                                         ![c].other = {p},
                                         ![c].todo = <<DependencyChecks>>]
    /\ UNCHANGED tableVars

(* DependentFeaturesStore.upsert is two statements, here two commits.      *)
CloneClear(c) ==
    /\ Ready(c, "cloneDependency")
    /\ dependencies' = dependencies \ RowsOfChildren(calls[c].names)
    /\ calls' = [calls EXCEPT ![c].op = "cloneInsert"]
    /\ UNCHANGED <<project, archived, enabled>>

(* The INSERT into dependent_features, whose foreign keys are checked.     *)
AddDependency(c) ==
    /\ Ready(c, "addDependency") \/ Ready(c, "cloneInsert")
    /\ \A f \in calls[c].names \cup calls[c].other : Exists(f)
    /\ dependencies' = (dependencies \ calls[c].seen) \cup (calls[c].other \X calls[c].names)
    /\ End(c)
    /\ UNCHANGED <<project, archived, enabled>>

DeleteDependency(c) ==
    /\ Ready(c, "deleteDependency")
    /\ dependencies' = dependencies \ (calls[c].other \X calls[c].names)
    /\ End(c)
    /\ UNCHANGED <<project, archived, enabled>>

DeleteDependencies(c) ==
    /\ Ready(c, "deleteDependencies")
    /\ dependencies' = dependencies \ RowsOfChildren(calls[c].names)
    /\ End(c)
    /\ UNCHANGED <<project, archived, enabled>>

(* Seeded fault: an INSERT that brings missing features into the archive.  *)
ArchiveBlindly(c) ==
    /\ Ready(c, "archive") \/ Ready(c, "archiveAll")
    /\ archived' = archived \cup calls[c].names
    /\ dependencies' = dependencies \ calls[c].seen
    /\ End(c)
    /\ UNCHANGED <<project, enabled>>

(* archiveToggle and archiveToggles commit.                                *)
Archive(c) ==
    /\ Ready(c, "archive") \/ Ready(c, "archiveAll")
    /\ archived' = archived \cup {f \in calls[c].names : Exists(f)}
    /\ dependencies' = dependencies \ calls[c].seen
    /\ End(c)
    /\ UNCHANGED <<project, enabled>>

(* The DELETE of deleteFeature and deleteFeatures: archived rows only, and *)
(* none if a foreign key still points to one of them as a parent.          *)
Delete(c) ==
    /\ Ready(c, "delete") \/ Ready(c, "deleteAll")
    /\ LET names == archived \cap
               (IF calls[c].op = "delete" THEN calls[c].names ELSE calls[c].seen)
       IN  /\ OrphanParents(names) = {}
           /\ project' = [f \in Features |-> IF f \in names THEN NoProject ELSE project[f]]
           /\ archived' = archived \ names
           /\ enabled' = enabled \ names
           /\ dependencies' = dependencies \ RowsOfChildren(names)
    /\ End(c)

(* reviveFeature and reviveFeatures commit.                                *)
Revive(c) ==
    /\ Ready(c, "revive") \/ Ready(c, "reviveAll")
    /\ LET names == IF calls[c].op = "revive" THEN calls[c].names ELSE calls[c].seen
       IN  /\ archived' = archived \ names
           /\ enabled' = enabled \ names
    /\ End(c)
    /\ UNCHANGED <<project, dependencies>>

(* featureToggleStore.update writes the whole row, `archived' included: as *)
(* patchFeature read it, or as the body of the PUT or PATCH has it.        *)
Update(c) ==
    /\ Ready(c, "update")
    /\ \A f \in calls[c].names : Exists(f)
    /\ \E set \in {calls[c].seen}
               \cup {calls[c].names : m \in UpdateMoves \cap {"archive"}}
               \cup {{} : m \in UpdateMoves \cap {"revive"}} :
           archived' = (archived \ calls[c].names) \cup set
    /\ End(c)
    /\ UNCHANGED <<project, enabled, dependencies>>

ChangeProject(c) ==
    /\ Ready(c, "changeProject")
    /\ \E f \in calls[c].names, p \in Projects :
           /\ Exists(f)
           /\ project' = [project EXCEPT ![f] = p]
    /\ archived' = (archived \ calls[c].names) \cup calls[c].seen
    /\ End(c)
    /\ UNCHANGED <<enabled, dependencies>>

SetEnabled(c) ==
    /\ Ready(c, "setEnabled")
    /\ \A f \in calls[c].names : Exists(f)
    /\ enabled' \in {enabled \cup calls[c].names, enabled \ calls[c].names}
    /\ End(c)
    /\ UNCHANGED <<project, archived, dependencies>>

Step(c) ==
    \/ Arrive(c) \/ GiveUp(c) \/ Query(c)
    \/ Create(c) \/ CloneFeature(c) \/ CloneParents(c) \/ CloneClear(c)
    \/ AddDependency(c) \/ DeleteDependency(c) \/ DeleteDependencies(c)
    \/ Archive(c) \/ Delete(c) \/ Revive(c)
    \/ Update(c) \/ ChangeProject(c) \/ SetEnabled(c)

Next == \E c \in Callers : Step(c)

Spec == Init /\ [][Next]_vars

-----------------------------------------------------------------------------
(* As long as calls that share a feature do not overlap, every commit is   *)
(* one operation of DependentFeatures: the checks each call makes are all  *)
(* the checks there need to be, and what goes wrong otherwise is only the  *)
(* window between a check and its write.  The tables map to themselves.    *)
OneAtATime == INSTANCE DependentFeatures

FollowsRules == OneAtATime!Spec
=============================================================================
