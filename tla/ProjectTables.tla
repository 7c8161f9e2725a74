--------------------------- MODULE ProjectTables ---------------------------
(***************************************************************************)
(* One project as the tables hold it: its row, who has which role in it,   *)
(* which environments it is linked to, which features name it; and the     *)
(* calls that change these.  Other calls run between any two queries of a  *)
(* call, on this node and on others.                                       *)
(***************************************************************************)
EXTENDS FiniteSets, Naturals

CONSTANTS
    Users, Groups,
    OtherRoles,     \* the project roles other than Owner
    Environments,
    Features,
    Callers         \* requests and starting nodes, under way at once

ASSUME HoldersAssumption ==
    /\ IsFiniteSet(Users) /\ IsFiniteSet(Groups) /\ Users \cap Groups = {}
    /\ "nobody" \notin Users \cup Groups
    /\ "owner" \notin OtherRoles

VARIABLES
    project,        \* the project has a row
    holders,        \* role_user and group_role: the roles of each
    linked,         \* project_environments
    enabled,        \* the environments that are enabled
    features,       \* the features whose project column names it
    calls,          \* the call each caller is in
    sweeps,         \* the deleteFeatures it has started and not awaited
    disturbed       \* history: what may be wrong, and was not the rules' doing

tables == <<project, holders, linked, enabled, features>>
vars == <<project, holders, linked, enabled, features, calls, sweeps, disturbed>>

Holders == Users \cup Groups
Roles == {"owner"} \cup OtherRoles
Owners == {h \in Holders : "owner" \in holders[h]}
Kept == {f \in Features : features[f] # "elsewhere"}

(* who, keep, add, count: of an access call; off, on: of an override;      *)
(* envs: the environments still to be linked or unlinked.                  *)
Idle == [op |-> "none", at |-> "idle", who |-> "nobody", keep |-> {}, add |-> {},
         count |-> 0, off |-> {}, on |-> {}, envs |-> {}, feature |-> "none"]

Operations == {"lose", "remove", "override", "create", "delete", "feature"}
Labels == {"users", "groups", "write", "unlink", "disable", "enable", "links", "link",
           "insert", "enabled", "connect", "owner", "archived", "row", "roles"}

NoSweep == [at |-> "none", names |-> {}]

(* A row of project_environments or group_role has its project; role_user  *)
(* and features have no such foreign key.                                  *)
TypeOK ==
    /\ project \in BOOLEAN
    /\ holders \in [Holders -> SUBSET Roles]
    /\ linked \subseteq Environments /\ enabled \subseteq Environments
    /\ ~project => linked = {} /\ \A g \in Groups : holders[g] = {}
    /\ features \in [Features -> {"elsewhere", "live", "archived"}]
    /\ calls \in [Callers ->
           [op : Operations \cup {"none"}, at : Labels \cup {"idle"},
            who : Holders \cup {"nobody"}, keep : SUBSET Roles, add : SUBSET Roles,
            count : 0..Cardinality(Users), off : SUBSET Environments,
            on : SUBSET Environments, envs : SUBSET Environments,
            feature : Features \cup {"none"}]]
    /\ sweeps \in [Callers -> [at : {"none", "names", "delete"}, names : SUBSET Features]]
    /\ disturbed \subseteq {"owner", "environment", "feature"}

-----------------------------------------------------------------------------
(* The pairs of operations that, overlapping, may break a rule: each acts  *)
(* on what it read before the other wrote.                                 *)
CrossOwner == {{"lose"}, {"lose", "grant"}, {"lose", "create"}, {"create", "delete"}}
CrossEnvironment == {{"remove"}, {"remove", "override"}, {"remove", "create"}}
CrossFeature == {{"feature", "delete"}}

Crossed(op, c) ==
    LET pairs == {{op, calls[d].op} : d \in {d \in Callers \ {c} : calls[d] # Idle}}
    IN  (IF pairs \cap CrossOwner # {} THEN {"owner"} ELSE {})
            \cup (IF pairs \cap CrossEnvironment # {} THEN {"environment"} ELSE {})
            \cup (IF pairs \cap CrossFeature # {} THEN {"feature"} ELSE {})

Free(c) == calls[c] = Idle /\ sweeps[c] = NoSweep
Goto(c, label) == calls' = [calls EXCEPT ![c].at = label]
End(c) == calls' = [calls EXCEPT ![c] = Idle]

(* A call begins with its first query; it is at the label of the next one. *)
Begin(c, call) ==
    /\ Free(c)
    /\ calls' = [calls EXCEPT ![c] = call]
    /\ UNCHANGED <<tables, sweeps>>

BeginCrossing(c, call) ==
    /\ Begin(c, call)
    /\ disturbed' = disturbed \cup Crossed(call.op, c)
=============================================================================
