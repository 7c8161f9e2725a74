------------------------ MODULE ProjectEnvironments ------------------------
(***************************************************************************)
(* EnvironmentService: which environments the project is linked to, and    *)
(* the override of a starting node (ENABLED_ENVIRONMENTS), which enables   *)
(* some environments, disables all others, and moves the projects from the *)
(* ones to the others.                                                     *)
(***************************************************************************)
EXTENDS ProjectTables

(* toggleEnvironment.                                                      *)
ToggleEnvironment(e) ==
    /\ enabled' = IF e \in enabled THEN enabled \ {e} ELSE enabled \cup {e}
    /\ UNCHANGED <<project, holders, linked, features, calls, sweeps, disturbed>>

(* addEnvironmentToProject: the rows of the features follow, which is all  *)
(* the same to the links.                                                  *)
AddEnvironment(e) ==
    /\ project /\ e \notin linked
    /\ linked' = linked \cup {e}
    /\ UNCHANGED <<project, holders, enabled, features, calls, sweeps, disturbed>>

(* Seeded fault: the last environment counted as one that may go.          *)
AnyLink == linked # {}

(* removeEnvironmentFromProject counts the links, also those of            *)
(* environments that are disabled, ...                                     *)
MayUnlink == Cardinality(linked) > 1

StartRemove(c) ==
    /\ MayUnlink
    /\ \E e \in Environments :
           BeginCrossing(c, [Idle EXCEPT !.op = "remove", !.at = "unlink", !.envs = {e}])

(* ... disconnects the features and then the project.  An override does so *)
(* for every link it has found.                                            *)
Unlinked(call, e) ==
    IF call.envs # {e} THEN [call EXCEPT !.envs = @ \ {e}]
    ELSE IF call.op = "override" /\ call.on # {}
         THEN [call EXCEPT !.at = "link", !.envs = call.on]
    ELSE Idle

Unlink(c) ==
    /\ calls[c].at = "unlink"
    /\ \E e \in calls[c].envs :
           /\ linked' = linked \ {e}
           /\ calls' = [calls EXCEPT ![c] = Unlinked(calls[c], e)]
    /\ UNCHANGED <<project, holders, enabled, features, sweeps, disturbed>>

-----------------------------------------------------------------------------
(* overrideEnabledProjects reads the environments.  Those it is to enable  *)
(* and that are enabled already it forgets: with no other, the projects it *)
(* unlinks are linked to nothing instead.                                  *)
StartOverride(c) ==
    \E names \in (SUBSET Environments) \ {{}} :
        /\ Begin(c, [Idle EXCEPT !.op = "override", !.at = "disable",
                                 !.off = enabled \ names, !.on = names \ enabled])
        /\ disturbed' = disturbed \cup Crossed("override", c)
               \cup IF names \subseteq enabled THEN {"environment"} ELSE {}

Disable(c) ==
    /\ calls[c].at = "disable"
    /\ enabled' = enabled \ calls[c].off
    /\ Goto(c, "enable")
    /\ UNCHANGED <<project, holders, linked, features, sweeps, disturbed>>

Enable(c) ==
    /\ calls[c].at = "enable"
    /\ enabled' = enabled \cup calls[c].on
    /\ Goto(c, "links")
    /\ UNCHANGED <<project, holders, linked, features, sweeps, disturbed>>

(* getProjectLinksForEnvironments: a project without a link among them is  *)
(* left alone.                                                             *)
FindLinks(c) ==
    /\ calls[c].at = "links"
    /\ IF calls[c].off \cap linked = {} THEN End(c)
       ELSE calls' = [calls EXCEPT ![c].at = "unlink", ![c].envs = calls[c].off \cap linked]
    /\ UNCHANGED <<tables, sweeps, disturbed>>

(* addEnvironmentToProject for each: one that is linked already, or whose  *)
(* project is gone, makes the whole override fail, but not the others.     *)
Linked(call, e) ==
    IF call.envs = {e} THEN Idle ELSE [call EXCEPT !.envs = @ \ {e}]

Link(c) ==
    /\ calls[c].at = "link"
    /\ \E e \in calls[c].envs :
           /\ linked' = IF project THEN linked \cup {e} ELSE linked
           /\ calls' = [calls EXCEPT ![c] = Linked(calls[c], e)]
    /\ UNCHANGED <<project, holders, enabled, features, sweeps, disturbed>>

EnvironmentStep ==
    \/ \E e \in Environments : ToggleEnvironment(e) \/ AddEnvironment(e)
    \/ \E c \in Callers : \/ StartRemove(c) \/ Unlink(c) \/ StartOverride(c)
                          \/ Disable(c) \/ Enable(c) \/ FindLinks(c) \/ Link(c)
=============================================================================
