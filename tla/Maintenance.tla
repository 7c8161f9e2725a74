---------------------------- MODULE Maintenance ----------------------------
(***************************************************************************)
(* Maintenance mode as one node sees it: the row of the settings table, the*)
(* memo that MaintenanceService keeps of it (memoizee: promise, maxAge of a*)
(* minute), and toggleMaintenanceMode, which clears the memo and only then *)
(* inserts the setting.  Toggles of other nodes reach this one by the      *)
(* memo's age alone.  The maintenanceMode flag is off: with it on every    *)
(* check answers TRUE without asking.                                      *)
(***************************************************************************)
CONSTANTS
    Lookups     \* bound: queries of the setting under way at once

ASSUME LookupsAssumption == "none" \notin Lookups

VARIABLES
    setting,    \* the enabled field of the committed row
    dbUp,       \* whether the database answers: down, every query rejects
    lookups,    \* the queries of the setting: where each is, what it read
    memo,       \* what resolveMaintenance holds
    toggle      \* the toggleMaintenanceMode call under way

maintenanceVars == <<setting, dbUp, lookups, memo, toggle>>

Free == [phase |-> "free", read |-> FALSE]

(* memo.crossed is history: since the memo began to fill, the row changed  *)
(* on another node, or may change after this node's own clear.             *)
NoMemo == [state |-> "empty", lookup |-> "none", value |-> FALSE, crossed |-> FALSE]

NoToggle == [phase |-> "idle", to |-> FALSE]

MaintenanceTypeOK ==
    /\ setting \in BOOLEAN
    /\ dbUp \in BOOLEAN
    /\ lookups \in [Lookups -> [phase : {"free", "sent", "answered"}, read : BOOLEAN]]
    /\ memo \in [state : {"empty", "pending", "held"}, lookup : Lookups \cup {"none"},
                 value : BOOLEAN, crossed : BOOLEAN]
    /\ toggle \in [phase : {"idle", "cleared"}, to : BOOLEAN]

(* The services are scheduled, and their first checks share query l.       *)
MaintenanceInit(l) ==
    /\ setting \in BOOLEAN
    /\ dbUp = TRUE
    /\ lookups = [[k \in Lookups |-> Free] EXCEPT ![l].phase = "sent"]
    /\ memo = [NoMemo EXCEPT !.state = "pending", !.lookup = l]
    /\ toggle = NoToggle

-----------------------------------------------------------------------------
(* isMaintenanceMode with nothing memoised sends the query, and the memo   *)
(* holds its promise: later callers wait on the same one.                  *)
Ask(l) ==
    /\ memo.state = "empty"
    /\ lookups[l] = Free
    /\ lookups' = [lookups EXCEPT ![l].phase = "sent"]
    /\ memo' = [NoMemo EXCEPT !.state = "pending", !.lookup = l,
                              !.crossed = toggle.phase = "cleared"]

Answer(l) ==
    /\ lookups[l].phase = "sent"
    /\ dbUp
    /\ lookups' = [lookups EXCEPT ![l] = [phase |-> "answered", read |-> setting]]
    /\ UNCHANGED memo

(* The promise resolves: the memo keeps the value if it still holds this   *)
(* promise (a clear in between drops it, its callers get the value).       *)
Resolve(l) ==
    /\ lookups[l].phase = "answered"
    /\ lookups' = [lookups EXCEPT ![l] = Free]
    /\ memo' = IF memo.lookup = l
               THEN [memo EXCEPT !.state = "held", !.lookup = "none",
                                 !.value = lookups[l].read]
               ELSE memo

(* The promise is rejected, and memoizee forgets it.                       *)
Reject(l) ==
    /\ lookups[l].phase = "sent"
    /\ ~dbUp
    /\ lookups' = [lookups EXCEPT ![l] = Free]
    /\ memo' = IF memo.lookup = l THEN NoMemo ELSE memo

(* Seeded fault: a memo without maxAge.                                    *)
NeverExpire == FALSE /\ UNCHANGED maintenanceVars

(* maxAge.                                                                 *)
Expire ==
    /\ memo.state = "held"
    /\ memo' = NoMemo
    /\ UNCHANGED <<setting, dbUp, lookups, toggle>>

-----------------------------------------------------------------------------
(* Seeded fault: a toggle that leaves the memo as it is.                   *)
KeepMemo(to) ==
    /\ toggle.phase = "idle"
    /\ toggle' = [phase |-> "cleared", to |-> to]
    /\ UNCHANGED <<setting, dbUp, lookups, memo>>

(* toggleMaintenanceMode: resolveMaintenance.clear(), then the awaits of   *)
(* SettingService.insert.                                                  *)
ClearMemo(to) ==
    /\ toggle.phase = "idle"
    /\ memo' = NoMemo
    /\ toggle' = [phase |-> "cleared", to |-> to]
    /\ UNCHANGED <<setting, dbUp, lookups>>

(* The row is written, or the query is rejected and the old row stays.     *)
InsertSetting ==
    /\ toggle.phase = "cleared"
    /\ setting' = IF dbUp THEN toggle.to ELSE setting
    /\ toggle' = NoToggle
    /\ UNCHANGED <<dbUp, lookups, memo>>

ToggledElsewhere ==
    /\ dbUp
    /\ setting' = ~setting
    /\ memo' = IF memo.state = "empty" THEN memo ELSE [memo EXCEPT !.crossed = TRUE]
    /\ UNCHANGED <<dbUp, lookups, toggle>>

Outage ==
    /\ dbUp' = ~dbUp
    /\ UNCHANGED <<setting, lookups, memo, toggle>>

-----------------------------------------------------------------------------
(* A node that toggled maintenance mode sees its own toggle at once: what  *)
(* the memo holds differs from the row only when another node toggled it,  *)
(* or when a request or a job asked between the clear and the insert.      *)
OwnToggleSeen == memo.state = "held" /\ memo.value # setting => memo.crossed
=============================================================================
