--------------------------- MODULE RevisionService ---------------------------
(***************************************************************************)
(* ConfigurationRevisionService of one Unleash node: the number that       *)
(* stands for "the configuration as of event id n".  It is read by every   *)
(* SDK request (the ETag) and its UPDATE_REVISION event reloads the        *)
(* frontend caches.                                                        *)
(*                                                                         *)
(* A call of updateMaxRevisionId has three steps that other work may       *)
(* separate: it reads this.revisionId and sends the query; the database    *)
(* answers from what is visible at that moment; the continuation after the *)
(* await compares with the revisionId of THAT moment and assigns.  The     *)
(* scheduler runs one call at a time; getMaxRevisionId adds a call of its  *)
(* own for every request that arrives while revisionId is 0.               *)
(***************************************************************************)
EXTENDS ConfigStore

CONSTANTS
    Scheduler,  \* the job 'updateMaxRevisionId', every second
    Requests,   \* the requests that may call getMaxRevisionId
    KillSwitch  \* whether the flag disableUpdateMaxRevisionId may be touched

Callers == Requests \cup {Scheduler}

ASSUME CallersAssumption ==
    /\ Scheduler \notin Requests
    /\ KillSwitch \in BOOLEAN

VARIABLES
    revisionId,     \* this.revisionId
    calls,          \* the updateMaxRevisionId call each caller is in
    updateDisabled  \* the flag disableUpdateMaxRevisionId

revisionVars == <<revisionId, calls, updateDisabled>>

NoCall == [phase |-> "idle", largerThan |-> 0, answer |-> 0]

Call == [phase : {"idle", "asked", "answered"}, largerThan : Nat, answer : Nat]

RevisionTypeOK ==
    /\ revisionId \in Nat
    /\ calls \in [Callers -> Call]
    /\ updateDisabled \in BOOLEAN

RevisionInit ==
    /\ revisionId = 0
    /\ calls = [c \in Callers |-> NoCall]
    /\ updateDisabled = FALSE

-----------------------------------------------------------------------------
(* updateMaxRevisionId up to its await.  The scheduled job never overlaps  *)
(* itself (executingSchedulers); a request gets here from getMaxRevisionId *)
(* only while revisionId is 0.  Behind the kill switch the call returns 0  *)
(* without asking the database.                                            *)
StartUpdate(c) ==
    /\ calls[c].phase = "idle"
    /\ ~updateDisabled
    /\ c = Scheduler \/ revisionId = 0
    /\ calls' = [calls EXCEPT ![c] =
           [phase |-> "asked", largerThan |-> revisionId, answer |-> 0]]
    /\ UNCHANGED <<revisionId, updateDisabled>>

(* Seeded fault: the MAX of no rows is taken for -1.                       *)
AnswerUpdateMinusOne(c) ==
    /\ calls[c].phase = "asked"
    /\ \E r \in {0 - 1} \cup {eventId[w] : w \in events} :
           /\ IF events = {} THEN r = 0 - 1 ELSE IsMaxRevision(calls[c].largerThan, r)
           /\ calls' = [calls EXCEPT ![c] =
                  [phase |-> "answered", largerThan |-> @.largerThan, answer |-> r]]
    /\ UNCHANGED <<revisionId, updateDisabled>>

(* The database evaluates the query of a call.                             *)
AnswerUpdate(c) ==
    /\ calls[c].phase = "asked"
    /\ \E r \in {0} \cup {eventId[w] : w \in events} :
           /\ IsMaxRevision(calls[c].largerThan, r)
           /\ calls' = [calls EXCEPT ![c] =
                  [phase |-> "answered", largerThan |-> @.largerThan, answer |-> r]]
    /\ UNCHANGED <<revisionId, updateDisabled>>

(* The query fails: the scheduler logs it, the request ends in a 500.      *)
FailUpdate(c) ==
    /\ calls[c].phase = "asked"
    /\ calls' = [calls EXCEPT ![c] = NoCall]
    /\ UNCHANGED <<revisionId, updateDisabled>>

(* After the await: UPDATE_REVISION is emitted and the answer assigned if  *)
(* it differs from the current revisionId, larger or not.                  *)
EmitsUpdate(c) == calls[c].answer # revisionId

FinishUpdate(c) ==
    /\ calls[c].phase = "answered"
    /\ revisionId' = IF EmitsUpdate(c) THEN calls[c].answer ELSE revisionId
    /\ calls' = [calls EXCEPT ![c] = NoCall]
    /\ UNCHANGED updateDisabled

(* An operator flips the kill switch.                                      *)
ToggleKillSwitch ==
    /\ KillSwitch
    /\ updateDisabled' = ~updateDisabled
    /\ UNCHANGED <<revisionId, calls>>
=============================================================================
