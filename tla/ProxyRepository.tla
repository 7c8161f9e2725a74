--------------------------- MODULE ProxyRepository ---------------------------
(***************************************************************************)
(* ProxyRepository: the per-token cache behind the frontend API (the one   *)
(* the global cache is to replace), with its owner FrontendApiService.  It *)
(* loads when its client starts, on every UPDATE_REVISION once it has      *)
(* started, and by a timer that rearms itself.                             *)
(***************************************************************************)
EXTENDS RevisionService

CONSTANTS
    Loads,      \* bound: loadDataForToken calls under way at once
    FirstLoad   \* the one that ProxyRepository.start waits for

ASSUME LoadsAssumption == FirstLoad \in Loads

VARIABLES
    loads, features, segments,      \* loadDataForToken calls, what they filled
    proxy,                          \* the life of the repository
    timer                           \* whether dataPolling's timer is set

cacheVars == <<loads, features, segments, proxy, timer>>
vars == <<storeVars, revisionVars, cacheVars>>

INSTANCE CacheLoader

TypeOK ==
    /\ StoreTypeOK
    /\ RevisionTypeOK
    /\ LoaderTypeOK
    /\ proxy \in {"absent", "starting", "running", "stopped"}
    /\ timer \in BOOLEAN

(* No request with this token has come yet.                                *)
Init ==
    /\ StoreInit
    /\ RevisionInit
    /\ LoaderInit({})
    /\ proxy = "absent"
    /\ timer = FALSE

(* this.running, and the subscription to UPDATE_REVISION.                  *)
Running == proxy \in {"starting", "running"}
Listening == proxy = "running"

-----------------------------------------------------------------------------
(* The first request of the token creates the client: start sets the timer *)
(* and begins a load; requests that come meanwhile wait on the same promise*)
ProxyStart ==
    /\ proxy = "absent"
    /\ Start(FirstLoad)
    /\ proxy' = "starting"
    /\ timer' = TRUE
    /\ UNCHANGED <<storeVars, revisionVars>>

DatabaseAnswers(l, part) ==
    /\ Answer(l, part)
    /\ UNCHANGED <<storeVars, revisionVars, proxy, timer>>

FeaturesArrive(l) ==
    /\ TakeFeatures(l)
    /\ UNCHANGED <<storeVars, revisionVars, proxy, timer>>

(* start goes on and subscribes when the load it awaits is over, however   *)
(* it ended (loadDataForToken catches and logs).                           *)
LoadEnds(l) ==
    /\ TakeSegments(l) \/ Fail(l)
    /\ proxy' = IF l = FirstLoad THEN "running" ELSE proxy
    /\ UNCHANGED <<storeVars, revisionVars, timer>>

Reload == \E l \in Loads \ {FirstLoad} : Start(l)

(* Seeded faults: a timer that is not set again, and one that ignores stop.*)
TimerFiresOnce ==
    /\ timer
    /\ timer' = FALSE
    /\ IF Running THEN Reload ELSE UNCHANGED <<loads, features, segments>>
    /\ UNCHANGED <<storeVars, revisionVars, proxy>>

TimerFiresForever ==
    /\ timer
    /\ Reload
    /\ UNCHANGED <<storeVars, revisionVars, proxy, timer>>

(* dataPolling's timer: rearm and load, or notice that stop was called.    *)
TimerFires ==
    /\ timer
    /\ timer' = Running
    /\ IF Running THEN Reload ELSE UNCHANGED <<loads, features, segments>>
    /\ UNCHANGED <<storeVars, revisionVars, proxy>>

(* stop, through FrontendApiService.deleteClientForFrontendApiToken, which *)
(* first waits until the client has started.                               *)
ProxyStop ==
    /\ proxy = "running"
    /\ proxy' = "stopped"
    /\ UNCHANGED <<storeVars, revisionVars, loads, features, segments, timer>>

OnUpdateRevision ==
    /\ IF Listening THEN Reload ELSE UNCHANGED <<loads, features, segments>>
    /\ UNCHANGED <<proxy, timer>>

UpdateArrives(c) ==
    /\ FinishUpdate(c)
    /\ IF EmitsUpdate(c) THEN OnUpdateRevision ELSE UNCHANGED cacheVars
    /\ UNCHANGED storeVars

RevisionStep(c) ==
    /\ StartUpdate(c) \/ AnswerUpdate(c) \/ FailUpdate(c)
    /\ UNCHANGED <<storeVars, cacheVars>>

Write == StoreNext /\ UNCHANGED <<revisionVars, cacheVars>>

Next ==
    \/ Write
    \/ \E c \in Callers : RevisionStep(c) \/ UpdateArrives(c)
    \/ \E l \in Loads : \/ \E part \in Parts : DatabaseAnswers(l, part)
                        \/ FeaturesArrive(l) \/ LoadEnds(l)
    \/ ProxyStart \/ TimerFires \/ ProxyStop

Spec == Init /\ [][Next]_vars

(* Fairness: the timer keeps firing, answers arrive, and no query fails    *)
(* every time it is sent (SF).  Nothing is assumed of the scheduler, of    *)
(* the writes, or of the token ever being used or deleted.                 *)
Fairness ==
    /\ WF_vars(TimerFires)
    /\ \A l \in Loads :
           /\ WF_vars(FeaturesArrive(l)) /\ WF_vars(LoadEnds(l))
           /\ \A part \in Parts : SF_vars(DatabaseAnswers(l, part))

FairSpec == Spec /\ Fairness

-----------------------------------------------------------------------------
(* A running repository heals whatever it missed: revisions emitted before *)
(* it listened, loads that failed or finished out of order, writes that no *)
(* revision counts.  It does so by its timer alone, which is set again     *)
(* before the load it starts can fail or hang.                             *)
Heals == <>[](Running => UpToDate)

(* A deleted token's repository comes to rest: no timer, no load, and no   *)
(* UPDATE_REVISION wakes it up.                                            *)
StoppedRests == proxy = "stopped" ~> [](~timer /\ InFlight = {})
=============================================================================
