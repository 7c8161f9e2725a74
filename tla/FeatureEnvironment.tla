------------------------- MODULE FeatureEnvironment -------------------------
(***************************************************************************)
(* One feature in one environment: the row that says it is enabled, the    *)
(* strategies it has there, the project's default strategy, and the calls  *)
(* that change them.  A server asks for the enabled row and the strategies *)
(* that are not disabled, and a feature that is enabled with no strategy   *)
(* to apply is on for everyone.                                            *)
(*                                                                         *)
(* A call is at the label of the query it sends next; other calls run      *)
(* between any two.  Only updateStrategy runs in a transaction: it sees    *)
(* what is committed and its own writes (READ COMMITTED), keeps the rows   *)
(* it has written locked, and publishes them at "commit".                  *)
(***************************************************************************)
EXTENDS Naturals

CONSTANTS
    Strategies,     \* the ids a strategy may get
    Callers,        \* requests in flight
    Defaults,       \* what the default strategy of the project may be
    CutShort        \* whether a call may stop between two of its queries

(* A strategy, or no row: the default strategy of a project can be either. *)
Statuses == {"none", "on", "off"}

ASSUME DefaultsAssumption == "none" \in Defaults /\ Defaults \subseteq Statuses
ASSUME CutShortAssumption == CutShort \in BOOLEAN

VARIABLES
    connected,      \* the feature has a row for the environment
    enabled,        \* what that row says
    archived,       \* the feature is archived
    strategies,     \* the strategies of the feature in the environment
    default,        \* the default strategy of the project there
    announced,      \* whether the last event about it said it is enabled
    calls,          \* the call each caller is in
    disturbed       \* history: what may be wrong, and what was refused

tables == <<connected, enabled, archived, strategies, default>>
vars == <<connected, enabled, archived, strategies, default, announced, calls, disturbed>>

Idle == [op |-> "none", at |-> "idle", to |-> FALSE, activate |-> FALSE,
         ids |-> {}, status |-> "none", changed |-> FALSE]

Operations == {"enable", "disable", "create", "delete", "update", "parameter"}
Labels == {"row", "live", "list", "activate", "check", "default", "insert", "set", "tell",
           "remove", "left", "count", "sweep", "write", "commit", "patch"}

(* The row, the strategies and the calls; no row, nothing enabled.         *)
TypeOK ==
    /\ connected \in BOOLEAN /\ enabled \in BOOLEAN /\ archived \in BOOLEAN
    /\ enabled => connected
    /\ strategies \in [Strategies -> Statuses]
    /\ default \in Defaults
    /\ announced \in BOOLEAN
    /\ calls \in [Callers -> [op : Operations \cup {"none"}, at : Labels \cup {"idle"},
                              to : BOOLEAN, activate : BOOLEAN, ids : SUBSET Strategies,
                              status : Statuses, changed : BOOLEAN]]
    /\ disturbed \subseteq {"status", "event", "refused"}

Init ==
    /\ connected = TRUE /\ enabled = FALSE /\ archived = FALSE
    /\ strategies = [s \in Strategies |-> "none"]
    /\ default \in Defaults
    /\ announced = FALSE
    /\ calls = [c \in Callers |-> Idle]
    /\ disturbed = {}

-----------------------------------------------------------------------------
Present == {s \in Strategies : strategies[s] # "none"}
NoneOn(rows) == \A s \in Strategies : rows[s] # "on"

(* The transaction of a call has written strategy s, or the enabled row.   *)
InTransaction(call) == call.op = "update" /\ call.at \in Labels \ {"write"}
StrategyFree(c, s) ==
    \A d \in Callers \ {c} : ~(InTransaction(calls[d]) /\ s \in calls[d].ids)
RowFree(c) == \A d \in Callers \ {c} : ~(InTransaction(calls[d]) /\ calls[d].changed)

(* The strategies a call sees: its transaction sees its own write.         *)
Seen(call) ==
    [s \in Strategies |-> IF InTransaction(call) /\ s \in call.ids THEN call.status
                          ELSE strategies[s]]

(* A new id is a uuid: no row has it and no call knows it.                 *)
Fresh(s) == strategies[s] = "none" /\ \A c \in Callers : s \notin calls[c].ids

Goto(c, label) == calls' = [calls EXCEPT ![c].at = label]
End(c) == calls' = [calls EXCEPT ![c] = Idle]

(* The pairs of calls that, overlapping, may leave the feature enabled     *)
(* with no strategy on: each acts on strategies the other is about to      *)
(* change.                                                                 *)
CrossStatus == {{"enable", "delete"}, {"enable", "update"}, {"enable", "parameter"},
                {"update"}, {"update", "delete"}, {"update", "parameter"}}

(* ... and those that may leave the last event wrong: the row is set and   *)
(* the event stored in two steps, and the sweep of a deletion stores none. *)
CrossEvents == {{"enable"}, {"enable", "disable"}, {"enable", "delete"},
                {"enable", "update"}, {"delete"}}

Crossed(op, others) ==
    LET pairs == {{op, calls[d].op} : d \in others}
    IN  {kind \in {"status", "event"} :
            pairs \cap (IF kind = "status" THEN CrossStatus ELSE CrossEvents) # {}}

Active == {c \in Callers : calls[c].op # "none"}

Begin(c, call) ==
    /\ calls[c] = Idle
    /\ calls' = [calls EXCEPT ![c] = call]
    /\ disturbed' = disturbed \cup Crossed(call.op, Active)
    /\ UNCHANGED <<tables, announced>>

(* updateEnabled: on, with or without shouldActivateDisabledStrategies.    *)
StartEnable(c) ==
    \E activate \in BOOLEAN :
        Begin(c, [Idle EXCEPT !.op = "enable", !.at = "row", !.to = TRUE,
                              !.activate = activate])

StartDisable(c) == Begin(c, [Idle EXCEPT !.op = "disable", !.at = "row"])

(* createStrategy, which needs neither an enabled row nor a live feature.  *)
StartCreate(c) ==
    \E status \in {"on", "off"} :
        Begin(c, [Idle EXCEPT !.op = "create", !.at = "insert", !.status = status])

(* deleteStrategy, updateStrategy, updateStrategyParameter: each reads the *)
(* strategy first, and throws if it is gone; the last keeps what it read.  *)
StartDelete(c) ==
    \E s \in Present :
        Begin(c, [Idle EXCEPT !.op = "delete", !.at = "remove", !.ids = {s}])

StartUpdate(c) ==
    \E s \in Present, status \in {"on", "off"} :
        Begin(c, [Idle EXCEPT !.op = "update", !.at = "write", !.ids = {s},
                              !.status = status])

StartParameter(c) ==
    \E s \in Present :
        Begin(c, [Idle EXCEPT !.op = "parameter", !.at = "patch", !.ids = {s},
                              !.status = strategies[s]])

-----------------------------------------------------------------------------
(* Where a call goes on once a status it does not end with is dealt with;  *)
(* one that enables ends there if an update it waited for has thrown.      *)
Resumed(call) ==
    CASE call.op = "enable" /\ call.ids # {} -> [call EXCEPT !.to = TRUE, !.at = "activate"]
      [] call.op = "enable" /\ call.ids = {} /\ call.activate ->
             [call EXCEPT !.to = TRUE, !.at = "set"]
      [] call.op = "update" -> [call EXCEPT !.at = "commit"]
      [] call.op = "delete" -> [call EXCEPT !.at = "count"]
      [] OTHER -> Idle

(* A throw ends the call; in one of the updates that Promise.all waits for *)
(* it lets the others go on, and then nothing is enabled.                  *)
Thrown(call) ==
    IF call.op = "enable" /\ ~call.to THEN Resumed([call EXCEPT !.activate = FALSE])
    ELSE Idle

(* unprotectedUpdateEnabled: the row exists, ...                           *)
FindRow(c) ==
    /\ calls[c].at = "row"
    /\ IF connected THEN Goto(c, "live") ELSE calls' = [calls EXCEPT ![c] = Thrown(@)]
    /\ UNCHANGED <<tables, announced, disturbed>>

(* ... the feature is not archived, which refuses a deletion too, its      *)
(* strategy gone by then, ...                                              *)
FindLive(c) ==
    /\ calls[c].at = "live"
    /\ IF archived THEN calls' = [calls EXCEPT ![c] = Thrown(@)]
       ELSE Goto(c, IF calls[c].to THEN "list" ELSE "set")
    /\ disturbed' = disturbed
           \cup (IF archived /\ calls[c].op = "delete" THEN {"refused"} ELSE {})
    /\ UNCHANGED <<tables, announced>>

(* ... and to enable it, the strategies it has decide what comes first.    *)
ListStrategies(c) ==
    LET off == {s \in Present : strategies[s] = "off"}
    IN  /\ calls[c].at = "list"
        /\ \/ ~connected /\ End(c)
           \/ /\ connected /\ calls[c].activate /\ off # {}
              /\ calls' = [calls EXCEPT ![c].at = "activate", ![c].ids = Present]
           \/ /\ connected /\ off = Present /\ ~(calls[c].activate /\ off # {})
              /\ Goto(c, "default")
           \/ /\ connected /\ off # Present /\ ~(calls[c].activate /\ off # {})
              /\ Goto(c, "set")
        /\ UNCHANGED <<tables, announced, disturbed>>

(* Promise.all of updateStrategy over the strategies it saw, here one at a *)
(* time in any order and outside a transaction; for one that is gone the   *)
(* update throws.                                                          *)
Activate(c) ==
    \E s \in calls[c].ids :
        /\ calls[c].at = "activate"
        /\ IF s \in Present
           THEN /\ StrategyFree(c, s)
                /\ strategies' = [strategies EXCEPT ![s] = "on"]
                /\ calls' = [calls EXCEPT ![c].at = "check", ![c].ids = @ \ {s},
                                          ![c].to = FALSE]
           ELSE /\ calls' = [calls EXCEPT ![c] =
                                 Thrown([calls[c] EXCEPT !.ids = @ \ {s}, !.to = FALSE])]
                /\ UNCHANGED strategies
        /\ UNCHANGED <<connected, enabled, archived, default, announced, disturbed>>

(* A call ends by setting the status it was made for.                      *)
AfterStatus(call) == IF call.op = "enable" /\ call.to THEN Idle ELSE Resumed(call)

(* optionallyDisableFeature, after a strategy was updated: an archived     *)
(* feature is not found, one without a row is left alone.                  *)
CheckStrategies(c) ==
    /\ calls[c].at = "check"
    /\ \/ archived /\ calls' = [calls EXCEPT ![c] = Thrown(@)]
       \/ /\ ~archived /\ connected /\ NoneOn(Seen(calls[c]))
          /\ Goto(c, "row")
       \/ /\ ~archived /\ ~(connected /\ NoneOn(Seen(calls[c])))
          /\ calls' = [calls EXCEPT ![c] = Resumed(@)]
    /\ UNCHANGED <<tables, announced, disturbed>>

(* The default strategy of the project, or a flexibleRollout that is on.   *)
ReadDefault(c) ==
    /\ calls[c].at = "default"
    /\ calls' = [calls EXCEPT ![c].at = "insert",
                              ![c].status = IF default = "none" THEN "on" ELSE default]
    /\ UNCHANGED <<tables, announced, disturbed>>

(* unprotectedCreateStrategy, of its own or to enable the feature.         *)
InsertStrategy(c) ==
    \E s \in Strategies :
        /\ calls[c].at = "insert"
        /\ Fresh(s)
        /\ strategies' = [strategies EXCEPT ![s] = calls[c].status]
        /\ IF calls[c].op = "enable" THEN Goto(c, "set") ELSE End(c)
        /\ UNCHANGED <<connected, enabled, archived, default, announced, disturbed>>

(* Whether the UPDATE of setEnvironmentEnabledStatus finds a row.          *)
Changes(to) == connected /\ enabled # to

(* setEnvironmentEnabledStatus: the event is stored only if a row changed; *)
(* in a transaction both wait for the commit.                              *)
SetStatus(c) ==
    LET call == calls[c]
    IN  /\ call.at = "set"
        /\ IF Changes(call.to)
           THEN /\ RowFree(c)
                /\ enabled' = IF InTransaction(call) THEN enabled ELSE call.to
                /\ calls' = [calls EXCEPT
                                 ![c].at = IF InTransaction(call) THEN "commit" ELSE "tell",
                                 ![c].changed = InTransaction(call)]
           ELSE /\ calls' = [calls EXCEPT ![c] = AfterStatus(@)]
                /\ UNCHANGED enabled
        /\ UNCHANGED <<connected, archived, strategies, default, announced, disturbed>>

TellStatus(c) ==
    /\ calls[c].at = "tell"
    /\ announced' = calls[c].to
    /\ calls' = [calls EXCEPT ![c] = AfterStatus(@)]
    /\ UNCHANGED <<tables, disturbed>>

-----------------------------------------------------------------------------
(* unprotectedDeleteStrategy, not in a transaction: the strategy goes, ... *)
RemoveStrategy(c) ==
    \E s \in calls[c].ids :
        /\ calls[c].at = "remove"
        /\ StrategyFree(c, s)
        /\ strategies' = [strategies EXCEPT ![s] = "none"]
        /\ Goto(c, "left")
        /\ UNCHANGED <<connected, enabled, archived, default, announced, disturbed>>

(* Seeded fault: only a feature with no strategy at all is disabled.       *)
ListLeftEmpty(c) ==
    /\ calls[c].at = "left"
    /\ Goto(c, IF Present = {} THEN "row" ELSE "count")
    /\ UNCHANGED <<tables, announced, disturbed>>

(* Seeded fault: the sweep is trusted with a feature that has none.        *)
ListLeftToSweep(c) ==
    /\ calls[c].at = "left"
    /\ Goto(c, IF NoneOn(strategies) /\ Present # {} THEN "row" ELSE "count")
    /\ UNCHANGED <<tables, announced, disturbed>>

(* ... if none that is on is left the feature is disabled, ...             *)
ListLeft(c) ==
    /\ calls[c].at = "left"
    /\ Goto(c, IF NoneOn(strategies) THEN "row" ELSE "count")
    /\ UNCHANGED <<tables, announced, disturbed>>

(* ... and disableEnvironmentIfNoStrategies looks once more and disables   *)
(* it without an event.                                                    *)
CountStrategies(c) ==
    /\ calls[c].at = "count"
    /\ IF Present = {} THEN Goto(c, "sweep") ELSE End(c)
    /\ UNCHANGED <<tables, announced, disturbed>>

Sweep(c) ==
    /\ calls[c].at = "sweep"
    /\ RowFree(c)
    /\ enabled' = FALSE
    /\ End(c)
    /\ UNCHANGED <<connected, archived, strategies, default, announced, disturbed>>

(* unprotectedUpdateStrategy inside its transaction: the UPDATE locks the  *)
(* strategy, and one that is gone throws.                                  *)
WriteStrategy(c) ==
    \E s \in calls[c].ids :
        /\ calls[c].at = "write"
        /\ StrategyFree(c, s)
        /\ IF s \in Present THEN Goto(c, "check") ELSE End(c)
        /\ UNCHANGED <<tables, announced, disturbed>>

CommitUpdate(c) ==
    LET call == calls[c]
    IN  /\ call.at = "commit"
        /\ strategies' = Seen(call)
        /\ enabled' = (enabled /\ ~call.changed)
        /\ announced' = (announced /\ ~call.changed)
        /\ End(c)
        /\ UNCHANGED <<connected, archived, default, disturbed>>

(* updateStrategyParameter writes the whole strategy back as it read it,   *)
(* and does not ask whether one that is on is left.                        *)
PatchStrategy(c) ==
    \E s \in calls[c].ids :
        /\ calls[c].at = "patch"
        /\ StrategyFree(c, s)
        /\ strategies' = [strategies EXCEPT ![s] = IF s \in Present THEN calls[c].status ELSE @]
        /\ End(c)
        /\ UNCHANGED <<connected, enabled, archived, default, announced, disturbed>>

(* A query fails, or the server stops: a transaction leaves nothing, any   *)
(* other call leaves what it has done.                                     *)
GiveUp(c) ==
    LET call == calls[c]
    IN  /\ CutShort /\ c \in Active
        /\ disturbed' = disturbed
               \cup (IF call.op = "delete" /\ call.at # "remove" THEN {"status"} ELSE {})
               \cup (IF call.at = "tell" THEN {"event"} ELSE {})
        /\ End(c)
        /\ UNCHANGED <<tables, announced>>

-----------------------------------------------------------------------------
(* What changes the same rows in one commit.  Removing the environment and *)
(* reviving are told by events of their own, which a call that is about to *)
(* tell a status may overtake.                                             *)
Telling == \E c \in Callers : calls[c].at = "tell"
Overtaken == disturbed' = disturbed \cup (IF Telling THEN {"event"} ELSE {})

Archive ==
    /\ ~archived
    /\ archived' = TRUE
    /\ UNCHANGED <<connected, enabled, strategies, default, announced, calls, disturbed>>

(* reviveFeature: disabled in every environment.                           *)
Revive ==
    /\ \A c \in Callers : ~(InTransaction(calls[c]) /\ calls[c].changed)
    /\ archived' = FALSE
    /\ enabled' = FALSE
    /\ announced' = FALSE
    /\ Overtaken
    /\ UNCHANGED <<connected, strategies, default, calls>>

(* updateFeatureToggle, and what writes a feature back as it was read:     *)
(* archived or not as the body says, and nothing is disabled.  A deletion  *)
(* that was refused to disable the archived feature has left its row on    *)
(* without a strategy.                                                     *)
UpdateFeature ==
    \E to \in BOOLEAN :
        /\ archived' = to
        /\ disturbed' = disturbed
               \cup (IF archived /\ ~to /\ enabled /\ "refused" \in disturbed
                     THEN {"status"} ELSE {})
        /\ UNCHANGED <<connected, enabled, strategies, default, announced, calls>>

(* Seeded fault: the row goes but is still said to be enabled.             *)
RemoveEnvironmentOnly ==
    /\ connected
    /\ connected' = FALSE
    /\ default' = "none"
    /\ announced' = FALSE
    /\ Overtaken
    /\ UNCHANGED <<enabled, archived, strategies, calls>>

(* removeEnvironmentFromProject: disconnectFeatures deletes the row; its   *)
(* statement for the strategies has no del(), so they stay.                *)
RemoveEnvironment ==
    /\ connected
    /\ \A c \in Callers : ~(InTransaction(calls[c]) /\ calls[c].changed)
    /\ connected' = FALSE
    /\ enabled' = FALSE
    /\ default' = "none"
    /\ announced' = FALSE
    /\ Overtaken
    /\ UNCHANGED <<archived, strategies, calls>>

AddEnvironment ==
    /\ ~connected
    /\ connected' = TRUE
    /\ UNCHANGED <<enabled, archived, strategies, default, announced, calls, disturbed>>

SetDefault ==
    /\ connected
    /\ default' \in Defaults \ {"none"}
    /\ UNCHANGED <<connected, enabled, archived, strategies, announced, calls, disturbed>>

Start(c) ==
    \/ StartEnable(c) \/ StartDisable(c) \/ StartCreate(c)
    \/ StartDelete(c) \/ StartUpdate(c) \/ StartParameter(c)

Status(c) ==
    \/ FindRow(c) \/ FindLive(c) \/ ListStrategies(c) \/ Activate(c) \/ CheckStrategies(c)
    \/ ReadDefault(c) \/ InsertStrategy(c) \/ SetStatus(c) \/ TellStatus(c)

Step(c) ==
    \/ RemoveStrategy(c) \/ ListLeft(c) \/ CountStrategies(c) \/ Sweep(c)
    \/ WriteStrategy(c) \/ CommitUpdate(c) \/ PatchStrategy(c) \/ GiveUp(c)

Next ==
    \/ \E c \in Callers : Start(c) \/ Status(c) \/ Step(c)
    \/ Archive \/ Revive \/ UpdateFeature \/ RemoveEnvironment \/ AddEnvironment \/ SetDefault

Spec == Init /\ [][Next]_vars

-----------------------------------------------------------------------------
AtRest == Active = {}

(* A live feature that is enabled has a strategy that is on: without one   *)
(* the SDKs get it with no strategies and turn it on for everyone.         *)
HasStrategyOn == connected /\ enabled /\ ~archived => ~NoneOn(strategies)

(* Whatever calls came one after another, or overlapped without crossing,  *)
(* an enabled feature is left with a strategy that is on (the check in     *)
(* unprotectedDeleteStrategy and in optionallyDisableFeature).  Named      *)
(* besides crossing calls and deletions cut short: updateFeatureToggle     *)
(* reviving an enabled feature after a deletion was refused to disable it. *)
LapsesOnlyIfDisturbed == AtRest /\ "status" \notin disturbed => HasStrategyOn

(* The last event about the status tells what the row says: the SDK caches *)
(* and the addons follow the events, not the row.                          *)
EventsTellStatus == AtRest /\ "event" \notin disturbed => announced = enabled

(* The comment in unprotectedDeleteStrategy: the feature is disabled in an *)
(* environment where it only has disabled strategies.                      *)
OnlyOffMeansDisabled == AtRest => HasStrategyOn
=============================================================================
