----------------------- MODULE GlobalFrontendApiCache -----------------------
(***************************************************************************)
(* GlobalFrontendApiCache: the cache from which a node evaluates the       *)
(* frontend requests of all tokens.  It loads when it is built and again   *)
(* on every UPDATE_REVISION, never on a timer.  UPDATE_REVISION is emitted *)
(* synchronously, so a load starts in the very step that ends an           *)
(* updateMaxRevisionId call.                                               *)
(***************************************************************************)
EXTENDS RevisionService

CONSTANT Loads      \* bound: refreshData calls under way at once

VARIABLES
    loads, features, segments,      \* refreshData calls and what they filled
    status,                         \* this.status
    disturbed                       \* history: two loads overlapped, or one failed

cacheVars == <<loads, features, segments, status, disturbed>>
vars == <<storeVars, revisionVars, cacheVars>>

INSTANCE CacheLoader

TypeOK ==
    /\ StoreTypeOK
    /\ RevisionTypeOK
    /\ LoaderTypeOK
    /\ status \in {"starting", "ready", "updated"}
    /\ disturbed \in BOOLEAN

(* The constructor has called refreshData and subscribed.                  *)
Init ==
    /\ StoreInit
    /\ RevisionInit
    /\ \E l \in Loads : LoaderInit({l})
    /\ status = "starting"
    /\ disturbed = FALSE

-----------------------------------------------------------------------------
(* Seeded fault: no second refresh while one is under way.                 *)
OnUpdateRevisionOnce ==
    IF InFlight # {} THEN UNCHANGED cacheVars
    ELSE /\ \E l \in Loads : Start(l)
         /\ UNCHANGED <<status, disturbed>>

(* onUpdateRevisionEvent calls refreshData, whatever is under way.         *)
OnUpdateRevision ==
    /\ \E l \in Loads : Start(l)
    /\ disturbed' = (disturbed \/ InFlight # {})
    /\ UNCHANGED status

(* updateMaxRevisionId ends and emits, or ends.                            *)
UpdateArrives(c) ==
    /\ FinishUpdate(c)
    /\ IF EmitsUpdate(c) THEN OnUpdateRevision ELSE UNCHANGED cacheVars
    /\ UNCHANGED storeVars

(* Where refreshData stands still between its awaits ...                   *)
DatabaseAnswers(l) ==
    /\ \E part \in Parts : Answer(l, part)
    /\ UNCHANGED <<storeVars, revisionVars, status, disturbed>>

FeaturesArrive(l) ==
    /\ TakeFeatures(l)
    /\ UNCHANGED <<storeVars, revisionVars, status, disturbed>>

(* ... and where it is over: 'ready' the first time, then 'updated'; a     *)
(* failed one leaves the status alone.                                     *)
RefreshEnds(l) ==
    /\ TakeSegments(l)
    /\ status' = IF status = "starting" THEN "ready" ELSE "updated"
    /\ UNCHANGED <<storeVars, revisionVars, disturbed>>

RefreshFails(l) ==
    /\ Fail(l)
    /\ disturbed' = TRUE
    /\ UNCHANGED <<storeVars, revisionVars, status>>

RevisionStep(c) ==
    /\ StartUpdate(c) \/ AnswerUpdate(c) \/ FailUpdate(c)
    /\ UNCHANGED <<storeVars, cacheVars>>

Write == StoreNext /\ UNCHANGED <<revisionVars, cacheVars>>

Next ==
    \/ Write
    \/ \E c \in Callers : RevisionStep(c) \/ UpdateArrives(c)
    \/ \E l \in Loads : \/ DatabaseAnswers(l) \/ FeaturesArrive(l)
                        \/ RefreshEnds(l) \/ RefreshFails(l)

Spec == Init /\ [][Next]_vars

-----------------------------------------------------------------------------
(* As long as the loads neither overlapped nor failed, a cache at rest     *)
(* shows every write its revision vouches for: every change of the         *)
(* revision, the first one and one that goes back included, has started a  *)
(* load, and the load reads the rows after the event was seen.  It says no *)
(* more than that: after a disturbed load nothing but the next revision    *)
(* makes the cache current.                                                *)
LagsOnlyIfDisturbed ==
    ~disturbed /\ InFlight = {} =>
        \A w \in Writes :
            InOrder(w) /\ eventId[w] <= revisionId => w \in features \cup segments
=============================================================================
