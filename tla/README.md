# Unleash in TLA+

Specifications, model checks and proofs of the parts of the Unleash server where
order matters: how a change of configuration travels from the database to the
SDKs and the frontend caches, how the rules for archived and dependent features
survive the calls that change them, how a feature that is enabled keeps a
strategy to apply, how a project keeps its owner and its environments, and how
the jobs, the caches of tokens and clients, and the buffers of usage inside a
node behave when calls overlap, fail or stop.

Every definition is translated from the source (`src/lib` of this repository);
`PROJECT.json` maps each one to its file and lines, lists the runs, the mutants
that show each property can fail, the theorems, and the hazards of the code.

## 1. The system

Unleash is an Express server over Postgres. Several nodes share one database and
nothing else; inside a node everything runs on one event loop, so code is atomic
between two `await`s and only there. Most services autocommit each statement;
those called through `.transactional()` or `startTransaction` run in one
transaction at READ COMMITTED.

| Component | State it keeps | Operations | What makes it hard |
|---|---|---|---|
| Event store, configuration writes | tables, `events`, its id sequence | every admin operation: change rows, append an event | rows and event become visible in different orders; ids commit out of order; a lost INSERT is only logged |
| Configuration revision | `revisionId` per node | `updateMaxRevisionId` every second, `getMaxRevisionId` per request | assignment after an await, overlapping calls, kill switch |
| Client features API | memo of lookups by ETag | `GET /api/client/features` | shared lookups, expiry, failure, 304 |
| Global frontend cache | features, segments, status | refresh on `UPDATE_REVISION` | overlapping and torn refreshes, no timer |
| Per-token proxy repository | features, segments, timer, running | start, stop, poll, refresh | subscription after the first load, self-arming timer |
| Dependent features | `dependent_features` | add, delete, clone, cascade | checks at READ COMMITTED, DELETE + INSERT |
| Feature lifecycle | `features`, `feature_environments` | create, clone, PUT, PATCH, archive, delete, revive, move, enable; batches | a row is read and written back whole; parents and children in one batch |
| Strategies, variants | `feature_strategies`, `feature_environments` | create, update, delete, sort, enable, disable, weights | enabled without a strategy, status and event in two commits; rounding of weights |
| Environments of projects | `project_environments`, `environments.enabled` | link, unlink, enable, the override of a starting node | the last environment, counted before it is removed |
| Projects | `projects` | create, delete, move features in and out | a creation in five commits, a deletion that is not awaited |
| Project roles | `role_user`, `group_role` | grant, replace, remove | the last owner, counted in two queries over users and groups |
| Scheduler, maintenance | `executingSchedulers`, a memo of the setting | run a job, stop; toggle | a stop while a job runs, a memo cleared before the write |
| Database lock | advisory lock | run a migration under it | a timeout releases the lock while the work goes on |
| API tokens | active tokens, last-seen set | fetch, insert, query, delete, flush | overlapping fetches overwrite the list |
| Frontend API clients | a map of promises of clients | get or create, destroy | requests and deletions that wait for one promise |
| Last seen, client metrics | buffers | add, flush | swap before write, two commits, row locks taken in order |
| Client instances | a buffer | add, flush | swap before write |
| Event announcer, addons | `events.announced` | mark, emit | a crash between the two |
| Permissions, users, groups, segments, tags, settings, export and import, playground, search, statistics | tables | row operations, queries, pure evaluation | little order to get wrong; not modelled |

## 2. The modules

Propagation of configuration:

    ConfigStore <- RevisionService <- ClientFeatures         (SDKs)
                                   <- GlobalFrontendApiCache (uses CacheLoader)
                                   <- ProxyRepository        (uses CacheLoader)

Features and their dependencies:

    FeatureTables <- DependentFeatures   one call at a time (abstract)
                  <- DependencyCalls     query by query, implements DependentFeatures

One feature in one environment:

    FeatureEnvironment                   query by query

Inside a node:

    Maintenance <- Scheduler
    ApiTokens   <- FrontendClients
    ClientMetrics                        several nodes, one database

One project:

    ProjectTables <- ProjectAccess        <- Projects     query by query
                  <- ProjectEnvironments  <-

`MC*` modules give the constants values, `*_proofs` hold the theorems.

**ConfigStore** is the database as far as propagation is concerned. A *write* is
one admin operation; it is characterised by the half of the client configuration
it changes and by the order in which its rows and its event become visible:
`data_first` (`updateFeatureToggle` and most others), `event_first`
(`saveVariantsOnEnv`, `setVariantsOnEnvs`), `transaction`, and `silent` (the
revision query does not count its event, or there is none). `InsertEvent` draws
an id from the sequence, `Commit` makes it visible; between the two another
event may overtake, which the history variable `late` records. `Abandon` is a
crash, a rollback, or an INSERT whose failure `EventStore.store` swallows.
Configurations and caches are sets of writes: the content of a row never matters,
only which changes a reader has seen.

**RevisionService** is `ConfigurationRevisionService`. A call is three steps
(send the query with the current `revisionId`, the database answers, compare and
assign), because other work runs between them. `Scheduler` has one call at a
time (`executingSchedulers`); each of `Requests` may be in one of its own.

**ClientFeatures** is `GET /api/client/features` with the SDKs that poll it: the
ETag, the 304, the memo (at most one lookup per ETag, shared by requests that
miss together, dropped when it fails or expires) and its two queries. One query
hash is modelled, so an ETag is its revision; the memo's entries for different
hashes never meet. Caching is on, as by default; switched off it is an entry
that expires at once.

**CacheLoader** is the refresh that both frontend caches perform: two awaits,
two assignments, no exclusion. **GlobalFrontendApiCache** starts one on every
`UPDATE_REVISION`, in the same step as the emission because the emitter is
synchronous. **ProxyRepository** adds start, the late subscription, the timer
that is armed again before the load, and stop.

**FeatureTables** holds the tables and the read models (`ChildrenOf`,
`OrphanParents`, ...), and states the rules. One environment stands for all.
**DependentFeatures** has one atomic action per operation with all its checks,
foreign keys and cascades included. PUT and PATCH can set `archived` past every
check (see the findings); the constant `UpdateMoves` says whether callers do so,
in both modules, which lets the rules be stated for the rest of the code.
**DependencyCalls** runs the same operations as the server does: a call is a
queue of queries in the order of the code, each evaluated on what is committed at
that moment, then the write. A transaction's statements are one commit; the
rows its DELETE can see are fixed when it runs (`childRows`). `cloneFeature` is
two commits and a pair of autocommitted statements. Calls may fail at any point.

**FeatureEnvironment** is one feature in one environment: its row in
`feature_environments`, its strategies (`on`, `off` for disabled, or no row), the
default strategy of the project, and calls that create, update, patch and delete
strategies or enable and disable the feature. Clients get the strategies that
are not disabled, and evaluate an enabled feature without strategies as on for
everyone (`isFeatureEnabled`), so what must never be lost is "enabled means a
strategy is on". Each call is at the label of its next query. Only
`updateStrategy` is in a transaction: `Seen` is what it sees, `StrategyFree` and
`RowFree` are the row locks others wait for, and `commit` publishes. A feature
leaves the archive by `Revive` (`reviveFeature`, which disables it everywhere) or by
`UpdateFeature`: a PUT or PATCH writes `archived_at` from its body, and `changeProject`
from the row it read, and neither disables anything. The history
variable `disturbed` records that two calls crossed in one of the pairs
`CrossStatus` or `CrossEvents`, or that one was cut short; these pairs are as few
as can be: with any one of them taken out, the run finds a violation. It also
records one sequence of calls that needs no crossing: deleting the last strategy of
an archived feature deletes it and then throws `ArchivedFeatureError` instead of
disabling the row (`"refused"`), and if `UpdateFeature` then brings the feature back
while the row is on, it is live, enabled and without a strategy. Without this
exception the run finds that violation, with one caller, too.
`Promise.all` over the strategies that enabling activates is taken one strategy
at a time, in any order; when one of these updates throws the others go on, and
nothing is enabled (`Thrown`).

**Maintenance** is the memo of the maintenance setting: empty, pending on a
query, or held for a minute; `ClearMemo` and `InsertSetting` are the two halves
of `toggleMaintenanceMode`. `crossed` is history: the row changed on another
node, or a reader asked between the two halves. The `maintenanceMode` flag is
off, as by default; on, every check answers TRUE without asking.
**Scheduler** is every timer that `schedule` sets, on top of it. A *passage* is
one call of a timer's callback, because a callback that still waits for the memo
does not hold off the next tick. A job in `Awaited` returns the promise of its
work, and `executingSchedulers` covers it; one that does not (`bulkAddMetrics`,
`clearMetrics` and others of `schedule-services.ts`) leaves `detached` work
behind that nothing holds off. `FirstRunFails` is a first run behind a jitter
that rejects: its promise is given to `setTimeout`, and Node ends the process.

**ApiTokens** is the list `activeTokens` against the rows. It is the variant with
the `useMemoizedActiveTokens` fetches on top of the fetch of the constructor:
`Early` is whichever of these is under way, `Job` the scheduled one.
**FrontendClients** adds `FrontendApiService.clients`, a map from token to the
promise of a client: `starting` and `running` are the promise before and after
it resolves, `undestroyed` counts the clients of a token that still poll,
whether or not the map names them. Requests and the delete handlers each stop at
every await. A continuation on a promise that resolves is one step for all who
wait for it, since nothing runs between them.

**ProjectTables** holds one project's rows and the calls; **ProjectAccess**,
**ProjectEnvironments** and **Projects** add the calls on roles, on environments,
and the creation and deletion, each at the label of its next query, with every
other call free to run in between. Two starting nodes are two callers in an
`override`. A *sweep* is the `deleteFeatures` that `deleteProject` starts and does
not await. `disturbed` is history: it records per rule that two calls crossed in
one of the pairs `CrossOwner`, `CrossEnvironment` and `CrossFeature`, or that a
step did by itself what the rule forbids (an override with nothing to enable, a
call cut short, an owner's account deleted).

**ClientMetrics** is the usage that SDKs report, on several nodes over one
database. Reports carry the features they name in some order; a row is a feature
(with application and environment) in an hour. `LockRow` locks the rows of an
upsert one by one, in the order of the sorted batch, which is what Postgres does;
`WaitsFor` is its wait graph. A call of `bulkAdd` writes two tables in two
commits. `lost` and `unseen` are history: what was dropped with a failed
statement or a stopped node.

## 3. What is checked

All runs finish without deadlock: requests and ticks keep coming, so no system
here stops.

| Run | Instance | Shows |
|---|---|---|
| `SdkSafety` | two writes (one autocommitted, one transaction), two SDKs, kill switch flipping | `EtagSound`: an SDK that holds ETag *n* has every in-order write up to *n*. `MemoSound`: so does every memoised lookup for the half it has read. `LookupsShared`: nobody waits on a lookup that is gone, never two lookups of one key. `RevisionGoesBackOnlyByOverlap` |
| `SdkLiveness` | the same writes, one SDK | every in-order write reaches the SDK; every poll ends |
| `GlobalCache` | two loads, two callers | `LagsOnlyIfDisturbed`: only overlapping or failed refreshes leave the cache behind its revision |
| `ProxyLiveness` | three loads, writes no revision vouches for | `Heals`: the timer repairs whatever was missed; `StoppedRests`: after stop everything comes to rest |
| `DependencyRules` | four features, two projects, batches of any size | foreign keys, one parent, one level, one project, active parents, revived features disabled |
| `CallsApart` | all fourteen operations, three features, two callers, updates that archive and revive | `FollowsRules`: if calls that share a feature do not overlap, every commit is one operation of `DependentFeatures`, so the rules of that module carry over |
| `StrategyRules` | three strategies, two callers, calls cut short anywhere, the feature archived, revived and updated, environment and default strategy changed | `LapsesOnlyIfDisturbed`: an enabled feature has a strategy that is on, unless calls crossed or were cut short, or an update revived a feature that a deletion was refused to disable. `EventsTellStatus`: the last event tells what the row says, likewise |
| `Jobs` | one awaited job with jitter and two passages, one that is not awaited, two queries of the setting, outages, toggles here and elsewhere, stop | `NoOverlap`: an awaited job never overlaps itself before a stop. `OwnToggleSeen`: a node sees its own toggle, unless somebody asked between clear and insert. `JobsHeld`: jobs rest once maintenance mode stays on. `JobsRun`: each runs again and again once it stays off, after any failure or outage. `StopRests`: a stopped scheduler comes to rest |
| `Tokens` | one token, two requests, two deletions, two fetches, creation, expiry and deletion elsewhere | `OneClient`: one polling client per token and none outside the map. `Orphans`: a deletion takes the client with it, even one that is starting. `CallsReturn`: every request and deletion ends. `LiveKnown`, `DeletedForgotten`: the list of tokens is only ever late |
| `ProjectRules` | a user, a group, two roles, two environments, one feature, two callers | `HasEnvironment`, `LastOwnerStays`, `FeaturesHaveProject`: each rule holds unless one of the named pairs crossed or a call was cut short |
| `Metrics` | two nodes with two calls each, two features, two reports, one hour | `CountedOnce`: each table counts each report once, or it is on its way, or it was lost. `NoDeadlock`: no circle of calls that wait for each other's rows. `ReportsSettle`, `UseIsSeen`: in the end every report is counted or lost, and so is the use |
| `MetricsDeadlock` | two nodes, one feature, two hours, four reports | counterexample to "Sort the rows to avoid deadlocks": the rows are not sorted by their hour |

**Further counterexamples**, each a configuration beside the modules that TLC
violates, with what the repository says:

| Configuration (module) | Property | What TLC finds | What is said |
|---|---|---|---|
| `SdkEventFirst` (`MCClientFeatures`) | `ChangesPropagate` | variants are stored after their event: an SDK that fetches in between never gets them | `website/docs/understanding-unleash/unleash-overview.md:5` "until it is fully propagated to your application" |
| `SdkOvertaken` (`MCClientFeatures`) | `ChangesPropagate` | an event whose id is overtaken before its commit is never noticed | the same |
| `UpdateRevives` (`MCDependentFeatures`) | `RevivedDisabled` | a PUT without `archived` revives a feature with its environments enabled | `website/docs/reference/archived-toggles.md:22` "Revived toggles will be in the disabled state" |
| `CallsTwoParents` (`MCDependencyCalls`) | `SingleParent` | two overlapping calls leave a child with two parents | `website/docs/reference/dependent-features.md:13` "can have only one parent dependency" |
| `EnableOffDefault` (`MCFeatureEnvironment`) | `OnlyOffMeansDisabled` | enabling adds the disabled default strategy and leaves the feature enabled with nothing that applies | `feature-toggle-service.ts:911` "Disable the feature in the environment if it only has disabled strategies" |
| `JobCrash` (`MCScheduler`) | `FailureSurvived` | the first run of a job with a jitter fails and nobody handles it | `scheduler-service.test.ts:166` "Can handle crash of a async job" |
| `ProjectEmptied` (`MCProjects`) | `OneActiveEnvironment` | a starting node whose ENABLED_ENVIRONMENTS names environments that are enabled already unlinks a project from all it has | `environment-service.ts:275` "You must always have one active environment" |

Variants of these, made by changing constants and the invariant:

- `UpdateRevives.cfg` with `OnlyArchive` and `ParentsActive`: a PUT or PATCH with `archived: true`
  archives a parent that has children.
- `CallsTwoParents.cfg` with `AddingAndArchiving` and `ParentsActive` (a parent is
  archived between the check and the insert), `OnlyAdding` and `SingleLevel` (two
  calls build a chain), `AddingAndMoving` and `SameProject` (one end moves to, or
  is created in, another project), `ArchivingAndMoving` and `RevivedDisabled`
  (`changeProject` writes back a row it read before an archive).
- `EnableOffDefault.cfg` with `DefaultsOn`: the last strategy of an archived feature
  that is enabled is deleted, the disabling is refused, and a PUT or PATCH revives
  the feature, one call after another.
- `EnableOffDefault.cfg` with `DefaultsOn` and `CutShort = TRUE`: a deletion that is
  cut short after it removed the last strategy; with `DefaultsOn` and `TwoCallers`:
  an activation undone by `updateStrategyParameter`, two updates that each disable
  one of two strategies (write skew), and the other pairs of `CrossStatus`.

**Bounds.** Each write happens once: a second change of the same row is another
write. Two writes suffice for an overtaken id, and for a lookup that reads one
half before and one half after; one SDK shows every order of one client, two are
needed only for shared lookups. Two loads overlap, the third of `ProxyRepository`
is the first one, which `start` awaits. Dependencies need three features for a
chain and for a replaced parent, four for two families and batches across them.
Two callers are enough for a check and a write to be separated by a whole other
call. Three strategies let a call enable, or two delete, with one left over.
Two passages of a job are a run and the tick that may overlap it; two queries of
the setting are one that was cleared away and its successor. A token's list
entry, row and client do not depend on other tokens, so one is enough; two
requests and two deletions are two who wait for one promise. A project with a
user and a group has every way to count two owners, two environments are one
to remove and one to keep, and one feature can be created, archived and swept.
Two features are the least that can be locked in two orders, and two calls on
each of two nodes give circles within a node, between nodes, and longer ones.
The variables that could grow (`nextId`, `revisionId`, `counted`) are bounded by
the number of writes and reports. Symmetry is used only where no liveness is checked.

`ProjectRules` stops at `Undisturbed`: once a rule may be broken, TLC does not go
on, and a history that disturbs one rule is not followed to the others. The
theorems about `Projects` have no such constraint.

**Fairness.** Weak fairness for steps the event loop takes by itself: timers
(`setInterval`, the self-arming `setTimeout`), continuations after an answer,
jobs that end, polls of SDKs. Strong fairness for the answers of the database,
because a query may fail and be tried again: it says that no query fails every
time; in `Jobs` the database may be down for any time, and the properties speak of
what comes after. An interval gets strong fairness in `Jobs`, since with both
`Lookups` in use its tick has no room in the model. A client's start always
resolves, because `loadDataForToken` catches every error. Nothing is assumed of
writes, of the kill switch, of toggles, outages, reports or stops, or of tokens
ever being used or deleted.

## 4. What is proved

Eight modules prove with TLAPS, for every value of the constants that their
assumptions allow. The invariants of the database and of `updateMaxRevisionId`
that two of them share are in `RevisionInvariants`, and the lemmas about them in
`GlobalFrontendApiCache_proofs`, which `ClientFeatures_proofs` instantiates: a
write's step in the database never makes visible, below a revision that is
vouched for, a write that counts as in order, and a call of
`updateMaxRevisionId` only ever takes over revisions that are vouched for.

`ClientFeatures_proofs`: `TypeCorrect`, `EtagsSound`, `MemoisedLookupsSound`,
`LookupsAreShared`, `RevisionMonotoneOnItsOwn`. `EtagSound` is not inductive: it
needs that ids are distinct and below `nextId`, that an in-order event has its
rows visible (so every later snapshot has them), that a visible event outside
`late` had no higher visible id when it committed, and that an answer, a
revision, a memo key and a request's ETag each only claim events that were
visible when it was taken. The strengthened invariant says the same of every
place a revision can sit on its way to a client. `LookupsShared` needs the types
alone.

`GlobalFrontendApiCache_proofs`: `CacheLagsOnlyIfDisturbed`. While loads neither
overlapped nor failed there is one load at most, and the invariant says for each
of its phases which half it has read since the revision it was started for; with
no load under way both halves hold every write the revision vouches for.

`DependencyCalls_proofs`, first query by query: `DependencyCallsTypeOK` holds however calls overlap,
because a write checks no query again but the tables cascade. `CallsFollowRules`
is the refinement, step by step: with `Overlap = FALSE` every commit is one
operation of `DependentFeatures`, and every other step a stutter. The abstract
operation evaluates all its checks at the moment it writes, the call evaluated
them one by one before, so the invariant (`Kept`) says that whatever a call has
asked is still true. No step of its own makes it false; a step of another call
writes only rows of the features which that call names (`Confined`), which are
none of its own (`Disjoint`). For `changeProject` and `patchFeature` it says that
the row which they write back is the row as it is; for the DELETE of a
transaction that the rows it sees are those there are; for `cloneFeatureToggle`,
which is two commits and a pair of statements, that nobody has made a child of
the clone in between. With `Overlap = TRUE` only `Disjoint` goes, and
`CallsTwoParents.cfg` with its variants shows each rule fall.

Then one call at a time, about the abstract specification itself (the instance
`OneAtATime`): `ForeignKeysHold`, `ChildrenHaveOneParent`,
`DependenciesAreOneLevelDeep`, `DependenciesStayInOneProject` are inductive
together and hold for any `UpdateMoves`. `ParentsStayActive` assumes that no
update archives, `RevivedFeaturesDisabled` that no update revives: the two
assumptions are exactly what `UpdateRevives.cfg` and its variant violate. Through
the refinement `CallsKeepRules`, `CallsKeepParentsActive` and
`CallsReviveDisabled` carry them over to calls that interleave query by query.

`FeatureEnvironment_proofs`: `FeatureEnvironmentTypeOK`,
`FeaturesLapseOnlyIfDisturbed`, `LastEventTellsStatus`. `CallsOK`: types, and what
an operation carries at which label. `Apart`: two calls under way that form a
pair that crosses are in `disturbed`. Then, only while the rule is undisturbed,
`StatusInv` says that a feature which has lapsed is owed a disabling by a deletion
past its DELETE, or is archived and a deletion was refused (it lapses for good only
when an update revives it, which is a disturbance), and what each call may rely on: what enabling has seen on
stays on, an update that leaves nothing on has set the row to disabled before
it commits, and a strategy is still as `updateStrategyParameter` read it. `EventInv`
says that a call tells what the row says, and that the sweep of a deletion finds
the feature disabled already. That default strategies are on is assumed of
`FeaturesLapseOnlyIfDisturbed` alone; it is exactly what `EnableOffDefault.cfg`
violates. Strategies and callers are any sets.

`Scheduler_proofs`: `SchedulerStateTypeOK`, `OwnTogglesAreSeen`,
`JobsDoNotOverlap`. For the memo, the invariant follows the value from the query
to the memo (`MemoOK`): a query that the memo holds and that was answered read
the row as it is, unless something crossed, and a memo that fills during a toggle
is crossed. For the jobs (`RunsOK`): a running passage has its job in
`executingSchedulers` while the node is up, and only jobs that are not awaited
leave work behind.

`FrontendClients_proofs`: `FrontendClientsTypeOK`, `AtMostOneClient`,
`DeletedTokensLoseTheirClient`. The types are not inductive without `OneClient`:
that the count of clients stays a natural number when one is destroyed is the
invariant itself. A call that is under way has a token (`HaveTokens`).

`Projects_proofs`: `ProjectsTypeOK`, `ProjectRulesInvariant` and, from it,
`ProjectsKeepAnEnvironment`, `DeletedProjectsLeaveNoFeature`,
`ProjectsKeepTheirLastOwner`. The invariant has five parts. `Typed`: types, and
which operation can be at which label. `Apart`: two calls under way that form a
pair that crosses have been noted in `disturbed`. Then, per rule and only while it
is undisturbed, what each call still owes: a project linked to nothing has a call
that will link it, and a removal leaves a link other than its own (`LinkInv`);
during a deletion no feature is live, and what is archived is in the hands of a
sweep (`FeatureInv`); what a call counted is still so when it writes, so an owner
other than the one it removes is there (`OwnerInv`). Users and groups are assumed
finite and disjoint.

`ClientMetrics_proofs`: `ClientMetricsTypeOK`, `ReportsCountedOnce`,
`BatchesNeverDeadlock`. `CountedOnce` adds up cardinalities; the invariant says
instead where a report can be, per table: in memory of one node, under way in one
call, counted once, or lost, never in two of these, and in one if it arrived
(`OnePlace`). `NoDeadlock` needs two facts about every batch (`RowsInv`): it has no
row twice, which collapsing the counters gives, and it is sorted, which the
statement does. A call that is waited for and waits itself then waits for a row of
a later feature than those it holds, so in a circle no feature is the last. The
step from "not the same row" to "not the same feature" needs that all rows are of
one hour, the only assumption: without it the theorem is false, as
`MetricsDeadlock` shows. Nodes, calls, features and reports are any number.

Only model-checked: liveness and fairness, which TLAPS 1.4.5 does not prove, and
with it `ProxyRepository`, which has no other property.

The type invariants of `GlobalFrontendApiCache`, `ProxyRepository`,
`DependencyCalls` and `ClientMetrics` are stated in the modules and are not part of a run;
add `TypeOK` to the configuration to check them (those of `DependencyCalls` and
`ClientMetrics` are proved).

## 5. What the models leave out

- Which features a token may see, and the payload.
- Several nodes, except in `Projects` and `ClientMetrics`: elsewhere one is
  observed, the others act on it as writes.
- The jobs' work inside `Scheduler`: it starts, ends or fails. Conversely the
  modules of the components take their job for granted and do not stop it in
  maintenance mode.
- The second map of `FrontendApiService`, `newClients`: it is used behind a flag,
  and no code takes a client out of it.
- `stopAll` of the frontend clients, and clients at a stopping node.
- In `Projects`: the default project, which cannot be deleted; several projects
  (no call modelled here relates two, except that features move); what a starting
  node does to the rows of `feature_environments`.
- In `ClientMetrics`: the foreign keys and validation that drop a row, and
  `clearMetrics`, which deletes old rows.
- `archiveToggle` without a project, `updateStale`, and the role changes
  `changeRole` and `changeGroupRole` of `ProjectService`, which no route reaches.
- A batch DELETE of a parent and its child may be refused by the foreign key,
  depending on the order in which Postgres visits the rows: the model allows it
  to succeed and never forces it to.
- Cloning copies one dependency; the rules say there is no more.
- In `FeatureEnvironment`: bulk enabling (one transaction around several calls),
  a move of the feature to another project (its strategies follow in a statement
  of their own).
- The components listed as `not_modelled` in `PROJECT.json`, with the reason.
  Most are row operations, queries or pure evaluation, where order does not matter,
  and the admin interface, the website and the generated API clients, which make
  up most of the repository, have no state of this kind at all.

## 6. Plan

Done: propagation, frontend caches, dependencies, strategies, scheduler with
maintenance mode, tokens and clients, projects, client metrics.
Next, by importance:

1. `VariantWeights`: the weights add up to 1000, as operators over bounded inputs.
2. `DbLock` and the event announcer.
3. `newClients` and the clients of a stopping node.
