-------------------------- MODULE Scheduler_proofs --------------------------
(***************************************************************************)
(* For every set of jobs, passages and queries: the memo of maintenance    *)
(* mode is wrong only where another node, or a reader between the clear and*)
(* the insert, made it so; and a job that returns its promise never        *)
(* overlaps with itself while its node is up.                              *)
(***************************************************************************)
EXTENDS Scheduler, TLAPS

(* What the memo holds, or is about to hold, and the row: unless something *)
(* crossed, the memo and its query carry the row's value.                  *)
MemoOK ==
    /\ IF memo.state = "pending"
       THEN memo.lookup \in Lookups /\ lookups[memo.lookup].phase # "free"
       ELSE memo.lookup = "none"
    /\ toggle.phase = "cleared" /\ memo.state # "empty" => memo.crossed
    /\ memo.state = "pending" /\ lookups[memo.lookup].phase = "answered" /\ ~memo.crossed
           => lookups[memo.lookup].read = setting
    /\ OwnToggleSeen

MemoInv == MaintenanceTypeOK /\ MemoOK

(* A run of a job is in executing for as long as the node is up, and only a*)
(* job that returns no promise leaves work behind.                         *)
RunsOK ==
    \A r \in Passages :
        /\ runs[r].phase = "run" =>
               /\ JobOf(r) \in Awaited
               /\ node = "up" => JobOf(r) \in executing
        /\ runs[r].phase = "detached" => JobOf(r) \notin Awaited

SchedulerTypeOK ==
    /\ runs \in [Passages ->
           [phase : {"idle", "check", "jitter", "run", "detached"},
            first : BOOLEAN, waits : Lookups \cup {"none"}]]
    /\ executing \subseteq Jobs
    /\ node \in {"up", "stopped", "crashed"}

RunInv == SchedulerTypeOK /\ RunsOK /\ NoOverlap

-----------------------------------------------------------------------------
(* Maintenance's own operations keep the memo's invariant.                 *)
LEMMA AskKeeps ==
    ASSUME MemoInv, NEW l \in Lookups, Ask(l), UNCHANGED <<setting, dbUp, toggle>>
    PROVE  MemoInv'
BY LookupsAssumption
   DEF MemoInv, MemoOK, MaintenanceTypeOK, OwnToggleSeen, Ask, Free, NoMemo

LEMMA LookupKeeps ==
    ASSUME MemoInv, NEW l \in Lookups, Answer(l) \/ Resolve(l) \/ Reject(l),
           UNCHANGED <<setting, dbUp, toggle>>
    PROVE  MemoInv'
<1> USE LookupsAssumption DEF MemoInv, MemoOK, MaintenanceTypeOK, OwnToggleSeen
<1>1. CASE Answer(l)  BY <1>1 DEF Answer
<1>2. CASE Resolve(l)
  <2>1. CASE memo.lookup = l  BY <1>2, <2>1 DEF Resolve, Free
  <2>2. CASE memo.lookup # l  BY <1>2, <2>2 DEF Resolve, Free
  <2> QED  BY <2>1, <2>2
<1>3. CASE Reject(l)  BY <1>3 DEF Reject, Free, NoMemo
<1> QED  BY <1>1, <1>2, <1>3

LEMMA RowKeeps ==
    ASSUME MemoInv,
           \/ \E to \in BOOLEAN : ClearMemo(to)
           \/ InsertSetting \/ Expire \/ ToggledElsewhere \/ Outage
    PROVE  MemoInv'
<1> USE LookupsAssumption DEF MemoInv, MemoOK, MaintenanceTypeOK, OwnToggleSeen, NoMemo
<1>1. ASSUME NEW to \in BOOLEAN, ClearMemo(to)  PROVE MemoInv'  BY <1>1 DEF ClearMemo
<1>2. CASE InsertSetting  BY <1>2 DEF InsertSetting, NoToggle
<1>3. CASE Expire  BY <1>3 DEF Expire
<1>4. CASE ToggledElsewhere  BY <1>4 DEF ToggledElsewhere
<1>5. CASE Outage  BY <1>5 DEF Outage
<1> QED  BY <1>1, <1>2, <1>3, <1>4, <1>5

-----------------------------------------------------------------------------
(* A passage that begins runs or leaves its work behind, as its job does.  *)
LEMMA BeganIs ==
    ASSUME SchedulerTypeOK, NEW r \in Passages
    PROVE  /\ Began(r) \in [phase : {"run", "detached"}, first : BOOLEAN,
                             waits : Lookups \cup {"none"}]
           /\ Began(r).phase = IF JobOf(r) \in Awaited THEN "run" ELSE "detached"
<1>1. CASE JobOf(r) \in Awaited
  <2>1. Began(r) = [runs[r] EXCEPT !.waits = "none", !.phase = "run"]
    BY <1>1 DEF Began
  <2>2. runs[r] \in [phase : {"idle", "check", "jitter", "run", "detached"},
                     first : BOOLEAN, waits : Lookups \cup {"none"}]
    BY DEF SchedulerTypeOK
  <2>3. Began(r).phase = "run"  BY <2>1, <2>2
  <2>4. Began(r) \in [phase : {"run", "detached"}, first : BOOLEAN,
                      waits : Lookups \cup {"none"}]
    BY <2>1, <2>2
  <2> QED  BY <1>1, <2>3, <2>4
<1>2. CASE JobOf(r) \notin Awaited
  <2>1. Began(r) = [runs[r] EXCEPT !.waits = "none", !.phase = "detached"]
    BY <1>2 DEF Began
  <2>2. runs[r] \in [phase : {"idle", "check", "jitter", "run", "detached"},
                     first : BOOLEAN, waits : Lookups \cup {"none"}]
    BY DEF SchedulerTypeOK
  <2>3. Began(r).phase = "detached"  BY <2>1, <2>2
  <2>4. Began(r) \in [phase : {"run", "detached"}, first : BOOLEAN,
                      waits : Lookups \cup {"none"}]
    BY <2>1, <2>2
  <2> QED  BY <1>2, <2>3, <2>4
<1> QED  BY <1>1, <1>2

(* A decision starts at most one passage of a job, and none of a job that  *)
(* is executing, so runs stay apart.                                       *)
LEMMA DecideKeeps ==
    ASSUME RunInv, NEW told \in SUBSET Passages, NEW mode \in BOOLEAN,
           \A r \in told : runs[r].phase \in {"idle", "check"},
           Decide(told, mode), UNCHANGED node
    PROVE  RunInv'
<1> USE DEF RunInv, SchedulerTypeOK, RunsOK
<1> DEFINE later == IF mode THEN {} ELSE {r \in told : runs[r].first /\ JobOf(r) \in Jittered}
<1>1. PICK begin \in IF mode THEN {{}} ELSE Beginners(told \ later) :
          /\ executing' = AddExecuting(begin)
          /\ runs' = [r \in Passages |->
                 CASE r \in begin                    -> Began(r)
                   [] r \in later                    -> [runs[r] EXCEPT !.phase = "jitter",
                                                                        !.waits = "none"]
                   [] r \in told \ (begin \cup later) -> Idle
                   [] OTHER                          -> runs[r]]
  BY DEF Decide
<1>2. /\ begin \subseteq told \ later
      /\ later \subseteq told
      /\ \A r \in begin : JobOf(r) \notin executing
      /\ \A r, s \in begin : JobOf(r) = JobOf(s) => r = s
  <2>1. CASE mode  BY <1>1, <2>1
  <2>2. CASE ~mode
    <3>1. begin \in Beginners(told \ later)  BY <1>1, <2>2
    <3>2. begin \subseteq {r \in told \ later : ~HeldOff(r)}  BY <3>1 DEF Beginners
    <3>3. \A r \in begin : \E s \in begin : 
              JobOf(s) = JobOf(r) /\ \A t \in begin : JobOf(t) = JobOf(r) => t = s
      BY <3>1, <3>2 DEF Beginners
    <3> QED  BY <3>2, <3>3 DEF HeldOff
  <2> QED  BY <2>1, <2>2
<1>3. ASSUME NEW r \in Passages
      PROVE  /\ r \in begin => runs'[r] = Began(r)
             /\ r \notin begin /\ r \in told => runs'[r].phase \in {"idle", "jitter"}
             /\ r \notin told => runs'[r] = runs[r]
             /\ runs'[r] \in [phase : {"idle", "check", "jitter", "run", "detached"},
                              first : BOOLEAN, waits : Lookups \cup {"none"}]
  <2>1. CASE r \in begin
    <3>1. runs'[r] = Began(r)  BY <1>1, <1>2, <2>1
    <3> QED  BY <1>2, <2>1, <3>1, BeganIs
  <2>2. CASE r \notin begin /\ r \in later
    <3>1. runs'[r] = [runs[r] EXCEPT !.phase = "jitter", !.waits = "none"]
      BY <1>1, <2>2
    <3> QED  BY <1>2, <2>2, <3>1
  <2>3. CASE r \in told \ (begin \cup later)
    <3>1. runs'[r] = Idle  BY <1>1, <2>3
    <3> QED  BY <2>3, <3>1 DEF Idle
  <2>4. CASE r \notin told
    <3>1. runs'[r] = runs[r]  BY <1>1, <1>2, <2>4
    <3> QED  BY <1>2, <2>4, <3>1
  <2> QED  BY <2>1, <2>2, <2>3, <2>4
<1>4. /\ executing' \subseteq Jobs
      /\ executing \subseteq executing'
      /\ \A r \in begin : JobOf(r) \in Awaited => JobOf(r) \in executing'
  <2>1. executing' = executing \cup ({JobOf(r) : r \in begin} \cap Awaited)
    BY <1>1 DEF AddExecuting
  <2> QED  BY <2>1, JobsAssumption
<1>5. SchedulerTypeOK' /\ RunsOK'
  <2>1. SchedulerTypeOK'  BY <1>1, <1>3, <1>4
  <2>2. ASSUME NEW r \in Passages
        PROVE  /\ runs'[r].phase = "run" =>
                      /\ JobOf(r) \in Awaited
                      /\ node' = "up" => JobOf(r) \in executing'
               /\ runs'[r].phase = "detached" => JobOf(r) \notin Awaited
    <3>1. CASE r \in begin
      <4>1. runs'[r].phase = IF JobOf(r) \in Awaited THEN "run" ELSE "detached"
        BY <1>3, <3>1, BeganIs
      <4> QED  BY <1>4, <3>1, <4>1
    <3>2. CASE r \notin begin /\ r \in told  BY <1>3, <3>2
    <3>3. CASE r \notin told  BY <1>2, <1>3, <1>4, <3>3
    <3> QED  BY <3>1, <3>2, <3>3
  <2> QED  BY <2>1, <2>2 DEF JobOf
<1>6. NoOverlap'
  <2> SUFFICES ASSUME TimersSet, NEW j \in Awaited,
                      NEW r \in Working(j)', NEW s \in Working(j)'
               PROVE  r = s
    BY DEF NoOverlap, TimersSet
  <2>1. /\ r \in Passages /\ JobOf(r) = j /\ runs'[r].phase = "run"
        /\ s \in Passages /\ JobOf(s) = j /\ runs'[s].phase = "run"
    BY <1>5 DEF Working, At
  <2>2. \A p \in Passages : p \notin begin /\ runs'[p].phase = "run" => runs[p].phase = "run"
    BY <1>3
  <2>3. \A p \in Passages : runs[p].phase = "run" => JobOf(p) \in executing
    BY DEF TimersSet
  <2>4. CASE r \in begin \/ s \in begin  BY <1>2, <2>1, <2>2, <2>3, <2>4
  <2>5. CASE r \notin begin /\ s \notin begin
    BY <2>1, <2>2, <2>5 DEF NoOverlap, Working, At
  <2> QED  BY <2>4, <2>5
<1> QED  BY <1>5, <1>6

(* Every other step of the scheduler keeps the runs' invariant.            *)
LEMMA PassageKeeps ==
    ASSUME RunInv, NEW r \in Passages,
           (TickWaits(r) /\ runs[r] = Idle) \/ JitterFires(r) \/ JobEnds(r) \/ FirstRunFails(r)
    PROVE  RunInv'
<1> USE DEF RunInv, SchedulerTypeOK, RunsOK, NoOverlap, TimersSet, Working, At
<1>1. CASE TickWaits(r) /\ runs[r] = Idle
  BY <1>1 DEF TickWaits
<1>2. CASE JitterFires(r)
  <2>1. CASE HeldOff(r)  BY <1>2, <2>1 DEF JitterFires, Idle
  <2>2. CASE ~HeldOff(r)
    <3>1. /\ runs' = [runs EXCEPT ![r] = Began(r)]
          /\ node' = node
          /\ JobOf(r) \notin executing
          /\ executing' = executing \cup ({JobOf(r)} \cap Awaited)
      BY <1>2, <2>2 DEF JitterFires, HeldOff, AddExecuting
    <3>2. JobOf(r) \in Jobs  BY JobsAssumption DEF JobOf
    <3> HIDE DEF RunInv
    <3>3. RunInv => SchedulerTypeOK  BY DEF RunInv
    <3>4. /\ Began(r) \in [phase : {"run", "detached"}, first : BOOLEAN,
                            waits : Lookups \cup {"none"}]
          /\ Began(r).phase = IF JobOf(r) \in Awaited THEN "run" ELSE "detached"
      BY <3>3, BeganIs
    <3> USE DEF RunInv
    <3>5. SchedulerTypeOK' /\ RunsOK'  BY <3>1, <3>2, <3>4 DEF JobOf
    <3>6. NoOverlap'  BY <3>1, <3>4 DEF JobOf
    <3> QED  BY <3>5, <3>6
  <2> QED  BY <2>1, <2>2
<1>3. CASE JobEnds(r)
  <2>1. CASE runs[r].phase = "run"
    BY <1>3, <2>1 DEF JobEnds, Idle
  <2>2. CASE runs[r].phase # "run"
    BY <1>3, <2>2 DEF JobEnds, Idle
  <2> QED  BY <2>1, <2>2
<1>4. CASE FirstRunFails(r)
  BY <1>4 DEF FirstRunFails, Idle
<1> QED  BY <1>1, <1>2, <1>3, <1>4

LEMMA StopKeeps ==
    ASSUME RunInv, Stop
    PROVE  RunInv'
BY DEF RunInv, SchedulerTypeOK, RunsOK, NoOverlap, TimersSet, Stop, Idle

-----------------------------------------------------------------------------
Inv == MemoInv /\ RunInv

(* What scheduleServices sets up.                                          *)
LEMMA Initially == Init => Inv
<1> SUFFICES ASSUME Init PROVE Inv  OBVIOUS
<1>1. PICK l \in Lookups :
          /\ MaintenanceInit(l)
          /\ node = "up"
          /\ executing = {}
          /\ runs = [r \in Passages |->
                 IF r[2] = FirstSlot THEN [phase |-> "check", first |-> TRUE, waits |-> l]
                 ELSE Idle]
  BY DEF Init
<1>2. MemoInv
  BY <1>1, LookupsAssumption
     DEF MaintenanceInit, MemoInv, MemoOK, MaintenanceTypeOK, OwnToggleSeen, NoMemo, NoToggle, Free
<1>3. \A r \in Passages :
          /\ runs[r] \in [phase : {"idle", "check"}, first : BOOLEAN,
                          waits : Lookups \cup {"none"}]
          /\ runs[r].phase \notin {"run", "detached"}
  BY <1>1 DEF Idle
<1>4. RunInv
  BY <1>1, <1>3 DEF RunInv, SchedulerTypeOK, RunsOK, NoOverlap, Working, At
<1> QED  BY <1>2, <1>4 DEF Inv

(* One step per action: the memo's half by Maintenance's lemmas, the runs' *)
(* by the scheduler's.                                                     *)
LEMMA Inductive == Inv /\ [Next]_vars => Inv'
<1> SUFFICES ASSUME Inv, [Next]_vars PROVE Inv'  OBVIOUS
<1>0. MemoInv /\ RunInv  BY DEF Inv
<1>a. ASSUME UNCHANGED maintenanceVars PROVE MemoInv'
  BY <1>0, <1>a DEF maintenanceVars, MemoInv, MemoOK, MaintenanceTypeOK, OwnToggleSeen
<1>b. ASSUME UNCHANGED schedulerVars PROVE RunInv'
  BY <1>0, <1>b DEF schedulerVars, RunInv, SchedulerTypeOK, RunsOK, NoOverlap, TimersSet,
                    Working, At
<1>c. ASSUME NEW told \in SUBSET Passages, NEW mode \in BOOLEAN,
             \A r \in told : runs[r].phase \in {"idle", "check"},
             Decide(told, mode), UNCHANGED node
      PROVE  RunInv'
  BY <1>0, <1>c, DecideKeeps
<1>1. ASSUME NEW r \in Passages, Tick(r)  PROVE Inv'
  <2>1. runs[r] = Idle  BY <1>1 DEF Tick
  <2>2. CASE TickKnown(r)
    <3>1. memo.value \in BOOLEAN  BY <1>0 DEF MemoInv, MaintenanceTypeOK
    <3>2. RunInv'  BY <1>c, <2>1, <2>2, <3>1 DEF TickKnown, Idle
    <3> QED  BY <1>a, <2>2, <3>2 DEF TickKnown, Inv
  <2>3. CASE TickWaits(r)
    <3>1. RunInv'  BY <1>0, <2>1, <2>3, PassageKeeps
    <3>2. MemoInv'
      <4>1. PICK l \in Lookups :
                /\ \/ UNCHANGED <<lookups, memo>>
                   \/ Ask(l)
                /\ UNCHANGED <<setting, dbUp, toggle>>
        BY <2>3 DEF TickWaits
      <4> QED  BY <1>0, <1>a, <4>1, AskKeeps DEF maintenanceVars
    <3> QED  BY <3>1, <3>2 DEF Inv
  <2> QED  BY <1>1, <2>2, <2>3 DEF Tick
<1>2. ASSUME NEW r \in Passages, JitterFires(r) \/ JobEnds(r)  PROVE Inv'
  <2>1. RunInv'  BY <1>0, <1>2, PassageKeeps
  <2> QED  BY <1>a, <1>2, <2>1 DEF JitterFires, JobEnds, Inv
<1>3. ASSUME NEW r \in Passages, FirstRunFails(r)  PROVE Inv'
  <2>1. RunInv'  BY <1>0, <1>3, PassageKeeps
  <2>2. MemoInv'
    BY <1>0, <1>3 DEF FirstRunFails, MemoInv, MemoOK, MaintenanceTypeOK, OwnToggleSeen,
                      NoMemo, NoToggle, Free
  <2> QED  BY <2>1, <2>2 DEF Inv
<1>4. ASSUME NEW l \in Lookups,
             DatabaseAnswers(l) \/ LookupResolves(l) \/ LookupRejected(l)
      PROVE  Inv'
  <2>1. MemoInv'
    BY <1>0, <1>4, LookupKeeps DEF DatabaseAnswers, LookupResolves, LookupRejected
  <2>2. Waiting(l) \in SUBSET Passages /\ \A r \in Waiting(l) : runs[r].phase = "check"
    BY DEF Waiting, At
  <2>3. lookups[l].read \in BOOLEAN  BY <1>0 DEF MemoInv, MaintenanceTypeOK
  <2>4. CASE DatabaseAnswers(l)  BY <1>b, <2>1, <2>4 DEF DatabaseAnswers, Inv
  <2>5. CASE LookupResolves(l)
    BY <1>c, <2>1, <2>2, <2>3, <2>5 DEF LookupResolves, Inv
  <2>6. CASE LookupRejected(l)  BY <1>c, <2>1, <2>2, <2>6 DEF LookupRejected, Inv
  <2> QED  BY <1>4, <2>4, <2>5, <2>6
<1>5. CASE RequestAsks
  BY <1>0, <1>b, <1>5, AskKeeps DEF RequestAsks, Inv
<1>6. CASE ToggleStep \/ MemoExpires \/ Environment
  <2>1. MemoInv'  BY <1>0, <1>6, RowKeeps DEF ToggleStep, MemoExpires, Environment
  <2> QED  BY <1>b, <1>6, <2>1 DEF ToggleStep, MemoExpires, Environment, Inv
<1>7. CASE Stop
  BY <1>0, <1>a, <1>7, StopKeeps DEF Stop, Inv
<1>8. CASE UNCHANGED vars
  BY <1>a, <1>b, <1>8 DEF vars, Inv
<1> QED  BY <1>1, <1>2, <1>3, <1>4, <1>5, <1>6, <1>7, <1>8 DEF Next

-----------------------------------------------------------------------------
(* SchedulerService and MaintenanceService keep their state well formed.   *)
THEOREM SchedulerStateTypeOK == Spec => []TypeOK
<1>1. Inv => TypeOK
  BY DEF Inv, MemoInv, RunInv, SchedulerTypeOK, TypeOK
<1> QED  BY <1>1, Initially, Inductive, PTL DEF Spec

(* A node that toggles maintenance mode never goes on with a memo of the   *)
(* old mode, unless another node toggled it or somebody asked while its own*)
(* insert was under way (maintenance-service.ts, toggleMaintenanceMode).   *)
THEOREM OwnTogglesAreSeen == Spec => []OwnToggleSeen
<1>1. Inv => OwnToggleSeen  BY DEF Inv, MemoInv, MemoOK
<1> QED  BY <1>1, Initially, Inductive, PTL DEF Spec

(* executingSchedulers keeps the runs of a job apart for as long as the    *)
(* scheduler has not been stopped, however checks and intervals cross.     *)
THEOREM JobsDoNotOverlap == Spec => []NoOverlap
<1>1. Inv => NoOverlap  BY DEF Inv, RunInv
<1> QED  BY <1>1, Initially, Inductive, PTL DEF Spec

=============================================================================
