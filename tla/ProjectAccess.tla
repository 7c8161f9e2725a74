--------------------------- MODULE ProjectAccess ---------------------------
(***************************************************************************)
(* Who has which role in the project: the calls of ProjectService that     *)
(* grant, set and remove roles, and the rule that an owner must be left.   *)
(* Two queries count the owners, a third one removes.                      *)
(***************************************************************************)
EXTENDS ProjectTables

(* addUser, addGroup, addRoleAccess, addAccess: one write, of which only a *)
(* group's row needs the project.                                          *)
Grant(h, role) ==
    /\ h \in Groups => project
    /\ holders' = [holders EXCEPT ![h] = @ \cup {role}]
    /\ disturbed' = disturbed
           \cup IF \E c \in Callers : {"grant", calls[c].op} \in CrossOwner
                THEN {"owner"} ELSE {}
    /\ UNCHANGED <<project, linked, enabled, features, calls, sweeps>>

(* How a call leaves the roles of its holder.                              *)
Losses ==
    [keep : {{}}, add : SUBSET Roles]                       \* removeAccess, setRoles
        \cup [keep : {Roles \ {r} : r \in Roles}, add : {{}}]   \* removeUser, removeGroup

(* Seeded fault: only removeUser and removeGroup mind the owners.          *)
MustCountRemovals(h, loss) == loss.keep # {} /\ "owner" \notin loss.keep

(* removeUserAccess, removeGroupAccess, setRolesForUser, setRolesForGroup  *)
(* look at the roles the holder has; removeUser and removeGroup at the one *)
(* that is to go.                                                          *)
MustCount(h, loss) ==
    IF loss.keep = {} THEN "owner" \in holders[h] /\ "owner" \notin loss.add
    ELSE "owner" \notin loss.keep

StartLoss(c) ==
    \E h \in Holders, loss \in Losses :
        BeginCrossing(c, [Idle EXCEPT !.op = "lose", !.who = h, !.keep = loss.keep,
                                      !.add = loss.add,
                                      !.at = IF MustCount(h, loss) THEN "users" ELSE "write"])

(* validateAtLeastOneOwner: the users ...                                  *)
CountUsers(c) ==
    /\ calls[c].at = "users"
    /\ calls' = [calls EXCEPT ![c].at = "groups", ![c].count = Cardinality(Owners \cap Users)]
    /\ UNCHANGED <<tables, sweeps, disturbed>>

(* ... and then the groups.  A group stands under the first of its roles   *)
(* that the query happens to return.                                       *)
CountGroups(c) ==
    /\ calls[c].at = "groups"
    /\ \E counted \in SUBSET (Owners \cap Groups) :
           /\ \A g \in Groups : holders[g] = {"owner"} => g \in counted
           /\ IF calls[c].count + Cardinality(counted) < 2 THEN End(c)
              ELSE calls' = [calls EXCEPT ![c].at = "write", ![c].count = 0]
    /\ UNCHANGED <<tables, sweeps, disturbed>>

(* One statement, or the transaction of setProjectRolesForUser; or         *)
(* isAllowedToAddAccess refuses, or a group's project is gone.             *)
WriteRoles(c) ==
    LET h == calls[c].who IN
    /\ calls[c].at = "write"
    /\ End(c)
    /\ \/ /\ h \in Groups /\ calls[c].add # {} => project
          /\ holders' = [holders EXCEPT ![h] = (@ \cap calls[c].keep) \cup calls[c].add]
       \/ UNCHANGED holders
    /\ UNCHANGED <<project, linked, enabled, features, sweeps, disturbed>>

(* A user or a group is deleted, here or in a directory it is synchronised *)
(* with: no one looks whether it owned a project.                          *)
HolderDeleted(h) ==
    /\ holders[h] # {}
    /\ holders' = [holders EXCEPT ![h] = {}]
    /\ disturbed' = disturbed \cup IF h \in Owners THEN {"owner"} ELSE {}
    /\ UNCHANGED <<project, linked, enabled, features, calls, sweeps>>

AccessStep ==
    \/ \E h \in Holders : HolderDeleted(h) \/ \E role \in Roles : Grant(h, role)
    \/ \E c \in Callers : StartLoss(c) \/ CountUsers(c) \/ CountGroups(c) \/ WriteRoles(c)
=============================================================================
