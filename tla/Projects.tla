------------------------------ MODULE Projects ------------------------------
(***************************************************************************)
(* ProjectService's creation and deletion of the project, neither of them  *)
(* a transaction, and the features that come and go meanwhile; together    *)
(* with the calls on its roles and its environments.                       *)
(***************************************************************************)
EXTENDS ProjectAccess, ProjectEnvironments

(* The project does not exist; some environments are enabled.              *)
Init ==
    /\ project = FALSE
    /\ holders = [h \in Holders |-> {}]
    /\ linked = {}
    /\ enabled \in SUBSET Environments
    /\ features = [f \in Features |-> "elsewhere"]
    /\ calls = [c \in Callers |-> Idle]
    /\ sweeps = [c \in Callers |-> NoSweep]
    /\ disturbed = {}

-----------------------------------------------------------------------------
(* createProject: the id is free, ...                                      *)
StartCreate(c) ==
    /\ ~project
    /\ \E creator \in Users \cup {"nobody"} :   \* a token has no user id
           BeginCrossing(c, [Idle EXCEPT !.op = "create", !.at = "insert", !.who = creator])

(* ... and still free when the row is inserted, ...                        *)
InsertProject(c) ==
    /\ calls[c].op = "create" /\ calls[c].at = "insert"
    /\ project' = TRUE
    /\ IF project THEN End(c) ELSE Goto(c, "enabled")
    /\ UNCHANGED <<holders, linked, enabled, features, sweeps, disturbed>>

ReadEnabled(c) ==
    /\ calls[c].at = "enabled"
    /\ calls' = [calls EXCEPT ![c].at = IF enabled = {} THEN "owner" ELSE "connect",
                              ![c].envs = enabled]
    /\ disturbed' = disturbed \cup IF enabled = {} THEN {"environment"} ELSE {}
    /\ UNCHANGED <<tables, sweeps>>

(* ... every enabled environment is connected, all at once; if one fails   *)
(* (linked meanwhile, or the project is gone) the others still are, but    *)
(* the call is over, ...                                                   *)
Connected(call, e) ==
    LET failed == call.op = "none" \/ ~project \/ e \in linked
        rest == call.envs \ {e}
    IN  IF rest # {}
        THEN [call EXCEPT !.op = IF failed THEN "none" ELSE "create", !.envs = rest]
        ELSE IF failed THEN Idle ELSE [call EXCEPT !.at = "owner", !.envs = {}]

Connect(c) ==
    /\ calls[c].at = "connect"
    /\ \E e \in calls[c].envs :
           /\ linked' = IF project THEN linked \cup {e} ELSE linked
           /\ calls' = [calls EXCEPT ![c] = Connected(calls[c], e)]
    /\ UNCHANGED <<project, holders, enabled, features, sweeps, disturbed>>

(* ... and the creator, if it is a user, becomes the owner.                *)
MakeOwner(c) ==
    /\ calls[c].at = "owner"
    /\ holders' = [h \in Holders |-> IF h = calls[c].who THEN holders[h] \cup {"owner"}
                                     ELSE holders[h]]
    /\ End(c)
    /\ UNCHANGED <<project, linked, enabled, features, sweeps, disturbed>>

-----------------------------------------------------------------------------
(* deleteProject: no feature is live, ...                                  *)
StartDelete(c) ==
    /\ \A f \in Features : features[f] # "live"
    /\ BeginCrossing(c, [Idle EXCEPT !.op = "delete", !.at = "archived"])

Archived == {f \in Features : features[f] = "archived"}

(* Seeded fault: the archived features left to themselves.                 *)
ListOnly(c) ==
    /\ calls[c].at = "archived"
    /\ Goto(c, "row")
    /\ UNCHANGED <<tables, sweeps, disturbed>>

(* ... the archived ones are handed to deleteFeatures, not awaited, ...    *)
ListArchived(c) ==
    /\ calls[c].at = "archived"
    /\ sweeps' = [sweeps EXCEPT ![c] =
           IF Archived = {} THEN NoSweep ELSE [at |-> "names", names |-> Archived]]
    /\ Goto(c, "row")
    /\ UNCHANGED <<tables, disturbed>>

(* Seeded fault: a foreign key that does not cascade to group_role.        *)
WithoutCascade == holders

Cascaded == [h \in Holders |-> IF h \in Groups THEN {} ELSE holders[h]]

(* ... the row goes with what references it, or an error is only logged, ..*)
DeleteProject(c) ==
    /\ calls[c].at = "row"
    /\ Goto(c, "roles")
    /\ \/ /\ project' = FALSE
          /\ linked' = {}
          /\ holders' = Cascaded
          /\ UNCHANGED disturbed
       \/ /\ disturbed' = disturbed \cup {"owner"}
          /\ UNCHANGED <<project, linked, holders>>
    /\ UNCHANGED <<enabled, features, sweeps>>

(* ... and the roles of its users go, by the project's id.                 *)
RemoveRoles(c) ==
    /\ calls[c].at = "roles"
    /\ holders' = [h \in Holders |-> IF h \in Users THEN {} ELSE holders[h]]
    /\ End(c)
    /\ UNCHANGED <<project, linked, enabled, features, sweeps, disturbed>>

(* deleteFeatures keeps to those that are still archived ...               *)
SweepReads(c) ==
    /\ sweeps[c].at = "names"
    /\ sweeps' = [sweeps EXCEPT ![c] =
           IF @.names \cap Archived = {} THEN NoSweep
           ELSE [at |-> "delete", names |-> @.names \cap Archived]]
    /\ UNCHANGED <<tables, calls, disturbed>>

(* ... and deletes those of the names that are archived.                   *)
SweepDeletes(c) ==
    /\ sweeps[c].at = "delete"
    /\ features' = [f \in Features |-> IF f \in sweeps[c].names \cap Archived THEN "elsewhere"
                                       ELSE features[f]]
    /\ sweeps' = [sweeps EXCEPT ![c] = NoSweep]
    /\ UNCHANGED <<project, holders, linked, enabled, calls, disturbed>>

(* It rejects (a feature was moved, a query failed), nobody handles that,  *)
(* and the process ends; or it ends for another reason.                    *)
SweepFails(c) ==
    /\ sweeps[c] # NoSweep
    /\ sweeps' = [sweeps EXCEPT ![c] = NoSweep]
    /\ End(c)
    /\ disturbed' = disturbed \cup {"feature"}
    /\ UNCHANGED tables

-----------------------------------------------------------------------------
(* createFeatureToggle and changeProject: the project exists, ...          *)
StartFeature(c) ==
    /\ project
    /\ \E f \in Features \ Kept :
           BeginCrossing(c, [Idle EXCEPT !.op = "feature", !.at = "insert", !.feature = f])

(* ... then the feature names it.                                          *)
InsertFeature(c) ==
    LET f == calls[c].feature IN
    /\ calls[c].op = "feature" /\ calls[c].at = "insert"
    /\ \E status \in {"live", "archived"} :
           features' = [features EXCEPT ![f] = IF @ = "elsewhere" THEN status ELSE @]
    /\ End(c)
    /\ UNCHANGED <<project, holders, linked, enabled, sweeps, disturbed>>

(* Archived, moved or deleted; no deletion of the project needs it to stay.*)
Leave(f) ==
    /\ f \in Kept
    /\ \E status \in {"archived", "elsewhere"} : features' = [features EXCEPT ![f] = status]
    /\ UNCHANGED <<project, holders, linked, enabled, calls, sweeps, disturbed>>

(* revive does not ask for the project, nor does the write of a feature as *)
(* not archived by updateFeatureToggle or changeProject.                   *)
Revive(f) ==
    /\ features[f] = "archived"
    /\ features' = [features EXCEPT ![f] = "live"]
    /\ disturbed' = disturbed
           \cup IF \E c \in Callers : calls[c].op = "delete" \/ sweeps[c] # NoSweep
                THEN {"feature"} ELSE {}
    /\ UNCHANGED <<project, holders, linked, enabled, calls, sweeps>>

(* A query of the call fails, or its node stops.                           *)
CutShort(c) ==
    /\ calls[c] # Idle
    /\ End(c)
    /\ disturbed' = disturbed
           \cup IF calls[c].op \in {"create", "override", "none"} THEN {"environment"} ELSE {}
    /\ UNCHANGED <<tables, sweeps>>

Next ==
    \/ AccessStep
    \/ EnvironmentStep
    \/ \E c \in Callers :
           \/ StartCreate(c) \/ InsertProject(c) \/ ReadEnabled(c) \/ Connect(c) \/ MakeOwner(c)
           \/ StartDelete(c) \/ ListArchived(c) \/ DeleteProject(c) \/ RemoveRoles(c)
           \/ SweepReads(c) \/ SweepDeletes(c) \/ SweepFails(c)
           \/ StartFeature(c) \/ InsertFeature(c) \/ CutShort(c)
    \/ \E f \in Features : Leave(f) \/ Revive(f)

Spec == Init /\ [][Next]_vars

-----------------------------------------------------------------------------
(* "A project must have at least one owner": a project that has one loses  *)
(* its last only if removals or a grant crossed, the account or the group  *)
(* of an owner was deleted, or the end of a deletion struck a project that *)
(* was still there, or there again.  Users and groups make up for each     *)
(* other, and so do the ways of taking a role away.                        *)
LastOwnerStays ==
    [][project /\ project' /\ Owners # {} /\ Owners' = {} => "owner" \in disturbed']_vars

(* "You must always have one active environment": once it is set up a      *)
(* project is linked to one, unless removals or an override crossed, a     *)
(* call was cut short, none was enabled when it was created, or an         *)
(* override found all its environments enabled already.                    *)
HasEnvironment ==
    project /\ linked = {} =>
        \/ \E c \in Callers : calls[c].op \in {"create", "override"}
        \/ "environment" \in disturbed

(* A project that is gone leaves no feature behind: what is still there    *)
(* will be deleted by a call that nobody awaits, unless a feature was      *)
(* created, moved in or revived meanwhile, or that call failed.            *)
FeaturesHaveProject ==
    ~project =>
        \A f \in Kept : \/ \E c \in Callers : f \in sweeps[c].names
                        \/ "feature" \in disturbed

(* The same as removeEnvironmentFromProject puts it, of every call and with*)
(* no exception: none that ends takes the last environment with it.        *)
OneActiveEnvironment ==
    [][project /\ project' /\ linked # {} /\ (\A c \in Callers : calls'[c] = Idle)
          => linked' # {}]_vars
=============================================================================
