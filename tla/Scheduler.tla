----------------------------- MODULE Scheduler -----------------------------
(***************************************************************************)
(* SchedulerService on one node, with the jobs scheduleServices gives it.  *)
(* Every timer, the first run's too, asks for maintenance mode before it   *)
(* runs its job, so what the memo of Maintenance does decides what runs.   *)
(* A passage is one call of a job's timer callback; a job whose callback is*)
(* still waiting when its interval fires again has two under way.          *)
(***************************************************************************)
EXTENDS Maintenance

CONSTANTS
    Jobs,       \* the ids given to schedule
    Jittered,   \* those whose first run waits for a jitter
    Awaited,    \* those whose function returns the promise of its work
    Passages,   \* bound: the passages of their callbacks, each <<job, slot>>
    FirstSlot   \* the slot of the passage that schedule itself begins

ASSUME JobsAssumption ==
    /\ Jittered \subseteq Jobs
    /\ Awaited \subseteq Jobs
    /\ \A r \in Passages : r[1] \in Jobs

VARIABLES
    runs,       \* where each passage of each job is
    executing,  \* executingSchedulers
    node        \* the life of the process

schedulerVars == <<runs, executing, node>>
vars == <<maintenanceVars, schedulerVars>>

(* waits: the query whose answer a check waits for.  first: begun by       *)
(* schedule, not by the interval.  detached: work that the function left   *)
(* behind without returning its promise.                                   *)
Idle == [phase |-> "idle", first |-> FALSE, waits |-> "none"]

TypeOK ==
    /\ MaintenanceTypeOK
    /\ runs \in [Passages ->
           [phase : {"idle", "check", "jitter", "run", "detached"},
            first : BOOLEAN, waits : Lookups \cup {"none"}]]
    /\ executing \subseteq Jobs
    /\ node \in {"up", "stopped", "crashed"}

JobOf(r) == r[1]
At(phase) == {r \in Passages : runs[r].phase = phase}

(* scheduleServices: every job's first check is under way.                 *)
Init == \E l \in Lookups :
    /\ MaintenanceInit(l)
    /\ node = "up"
    /\ executing = {}
    /\ runs = [r \in Passages |->
           IF r[2] = FirstSlot THEN [phase |-> "check", first |-> TRUE, waits |-> l]
           ELSE Idle]

Working(j) == {r \in At("run") \cup At("detached") : JobOf(r) = j}
Running(j) == Working(j) # {}
Waiting(l) == {r \in At("check") : runs[r].waits = l}

(* Seeded fault: a stop that leaves the intervals set.                     *)
TimersForever == node # "crashed"

(* The intervals are set, and clearInterval has not come.                  *)
TimersSet == node = "up"

-----------------------------------------------------------------------------
(* A passage whose job's function is called: one that returns its promise  *)
(* runs until it settles; one that returns none is over at once, with its  *)
(* work still to do.                                                       *)
Began(r) == [runs[r] EXCEPT !.waits = "none",
                 !.phase = IF JobOf(r) \in Awaited THEN "run" ELSE "detached"]

(* Seeded faults: executingSchedulers keyed by the passage, not looked at. *)
AddPassage(S) == executing \cup S
NeverHeldOff(r) == FALSE

AddExecuting(S) == executing \cup ({JobOf(r) : r \in S} \cap Awaited)
HeldOff(r) == JobOf(r) \in executing

(* Which of the passages told "not in maintenance" call their job: one per *)
(* job that is not executing; the others return.                           *)
Beginners(told) ==
    LET able == {r \in told : ~HeldOff(r)}
    IN  {S \in SUBSET able :
            \A r \in able : \E s \in S :
                /\ JobOf(s) = JobOf(r)
                /\ \A t \in S : JobOf(t) = JobOf(r) => t = s}

(* The passages in told learn the mode.  A first run with a jitter sets its*)
(* timer instead of running.                                               *)
Decide(told, mode) ==
    LET later == IF mode THEN {} ELSE {r \in told : runs[r].first /\ JobOf(r) \in Jittered}
    IN  \E begin \in IF mode THEN {{}} ELSE Beginners(told \ later) :
            /\ executing' = AddExecuting(begin)
            /\ runs' = [r \in Passages |->
                   CASE r \in begin                    -> Began(r)
                     [] r \in later                    -> [runs[r] EXCEPT !.phase = "jitter",
                                                                          !.waits = "none"]
                     [] r \in told \ (begin \cup later) -> Idle
                     [] OTHER                          -> runs[r]]

-----------------------------------------------------------------------------
(* An interval fires: the mode is memoised and the callback goes on at     *)
(* once, or it waits for the query.                                        *)
TickKnown(r) ==
    /\ memo.state = "held"
    /\ Decide({r}, memo.value)
    /\ UNCHANGED <<maintenanceVars, node>>

TickWaits(r) ==
    \E l \in Lookups :
        /\ IF memo.state = "pending"
           THEN memo.lookup = l /\ UNCHANGED <<lookups, memo>>
           ELSE Ask(l)
        /\ runs' = [runs EXCEPT ![r] = [phase |-> "check", first |-> FALSE, waits |-> l]]
        /\ UNCHANGED <<setting, dbUp, toggle, executing, node>>

Tick(r) ==
    /\ TimersSet
    /\ runs[r] = Idle
    /\ TickKnown(r) \/ TickWaits(r)

(* maintenanceMiddleware asks too, before a request that writes.           *)
RequestAsks ==
    /\ node = "up"
    /\ \E l \in Lookups : Ask(l)
    /\ UNCHANGED <<setting, dbUp, toggle, schedulerVars>>

DatabaseAnswers(l) ==
    /\ Answer(l)
    /\ UNCHANGED <<setting, dbUp, toggle, schedulerVars>>

LookupResolves(l) ==
    /\ Resolve(l)
    /\ Decide(Waiting(l), lookups[l].read)
    /\ UNCHANGED <<setting, dbUp, toggle, node>>

(* isMaintenanceMode catches the error and says FALSE: the jobs run.       *)
LookupRejected(l) ==
    /\ Reject(l)
    /\ Decide(Waiting(l), FALSE)
    /\ UNCHANGED <<setting, dbUp, toggle, node>>

(* The jitter is over.  Maintenance mode is not looked at again.           *)
JitterFires(r) ==
    /\ runs[r].phase = "jitter"
    /\ runs' = [runs EXCEPT ![r] = IF HeldOff(r) THEN Idle ELSE Began(r)]
    /\ executing' = IF HeldOff(r) THEN executing ELSE AddExecuting({r})
    /\ UNCHANGED <<maintenanceVars, node>>

(* Seeded fault: the id taken out on success alone.                        *)
JobEndsNoFinally(r) ==
    /\ r \in Working(JobOf(r))
    /\ runs' = [runs EXCEPT ![r] = Idle]
    /\ executing' \in {executing, executing \ {JobOf(r)}}
    /\ UNCHANGED <<maintenanceVars, node>>

(* The work is done or has failed; finally takes the id out.               *)
JobEnds(r) ==
    /\ r \in Working(JobOf(r))
    /\ runs' = [runs EXCEPT ![r] = Idle]
    /\ executing' = IF runs[r].phase = "run" THEN executing \ {JobOf(r)} ELSE executing
    /\ UNCHANGED <<maintenanceVars, node>>

(* The promise of a first run behind a jitter is handed to setTimeout, and *)
(* nobody handles its rejection: the process ends (Node 18 to 20).         *)
FirstRunFails(r) ==
    /\ runs[r].phase = "run"
    /\ runs[r].first /\ JobOf(r) \in Jittered
    /\ node' = "crashed"
    /\ runs' = [p \in Passages |-> Idle]
    /\ executing' = {}
    /\ lookups' = [l \in Lookups |-> Free]
    /\ memo' = NoMemo
    /\ toggle' = NoToggle
    /\ UNCHANGED <<setting, dbUp>>

(* stop: clearInterval of the intervals and of the jitters set so far, and *)
(* executingSchedulers forgotten.                                          *)
Stop ==
    /\ node = "up"
    /\ node' = "stopped"
    /\ runs' = [r \in Passages |-> IF runs[r].phase = "jitter" THEN Idle ELSE runs[r]]
    /\ executing' = {}
    /\ UNCHANGED maintenanceVars

ToggleStep ==
    /\ \/ node = "up" /\ \E to \in BOOLEAN : ClearMemo(to)
       \/ InsertSetting
    /\ UNCHANGED schedulerVars

MemoExpires == Expire /\ UNCHANGED schedulerVars

Environment == (ToggledElsewhere \/ Outage) /\ UNCHANGED schedulerVars

Next ==
    \/ \E r \in Passages : Tick(r) \/ JitterFires(r) \/ JobEnds(r) \/ FirstRunFails(r)
    \/ \E l \in Lookups : DatabaseAnswers(l) \/ LookupResolves(l) \/ LookupRejected(l)
    \/ RequestAsks \/ ToggleStep \/ MemoExpires \/ Environment \/ Stop

Spec == Init /\ [][Next]_vars

(* Fairness: queries answer or reject, jitters and jobs end, and intervals *)
(* fire (SF, because a tick here may find all of Lookups busy).  Nothing is*)
(* assumed of toggles, outages, requests or stop.                          *)
Fairness ==
    /\ WF_vars(MemoExpires)
    /\ \A l \in Lookups :
           WF_vars(DatabaseAnswers(l) \/ LookupResolves(l) \/ LookupRejected(l))
    /\ \A r \in Passages : WF_vars(JitterFires(r) \/ JobEnds(r))
    /\ \A j \in Jobs : SF_vars(\E r \in Passages : JobOf(r) = j /\ Tick(r))

FairSpec == Spec /\ Fairness

-----------------------------------------------------------------------------
(* A job that returns its promise never overlaps with itself, until stop   *)
(* forgets which jobs are executing: a check still under way may then start*)
(* a second run of a job that goes on.                                     *)
NoOverlap ==
    TimersSet => \A j \in Awaited : \A r, s \in Working(j) : r = s

(* Once maintenance mode stays on and the database answers, the jobs come  *)
(* to rest, whatever the memo held when it was switched on.                *)
JobsHeld == <>[](dbUp /\ setting) => <>[](\A j \in Jobs : ~Running(j))

(* Once it stays off, every job of a node that is up runs again and again. *)
JobsRun ==
    \A j \in Jobs : <>[](dbUp /\ ~setting /\ node = "up") => []<>Running(j)

(* A stopped scheduler comes to rest: no check, no timer, no job.          *)
StopRests == <>[](node = "stopped" => \A r \in Passages : runs[r] = Idle)

(* A job that fails is logged, and the scheduler goes on (the tests "Can   *)
(* handle crash of a async job" and "of a sync job").                      *)
FailureSurvived == node # "crashed"
=============================================================================
