----------------------------- MODULE CacheLoader -----------------------------
(***************************************************************************)
(* A cache that a node fills from the database with two awaits, as         *)
(* GlobalFrontendApiCache.refreshData and ProxyRepository.loadDataForToken *)
(* both do:                                                                *)
(*                                                                         *)
(*     this.features = await ...;  this.segments = await ...;              *)
(*                                                                         *)
(* Nothing keeps two loads apart: each takes its own snapshots and assigns *)
(* whenever its answers arrive, so an older load may finish last, and the  *)
(* two halves may come from different loads.  Loads is the bound on how    *)
(* many may be under way at once.                                          *)
(***************************************************************************)
CONSTANTS Writes, Part, Loads

VARIABLES
    data,       \* the rows visible in the database (ConfigStore)
    loads,      \* where each load is, and the answer it has not assigned yet
    features,   \* the half of the cache filled first
    segments    \* the half filled second

loaderVars == <<loads, features, segments>>

Idle == [phase |-> "idle", answer |-> {}]

Phases == {"idle", "features", "featuresRead", "segments", "segmentsRead"}

LoaderTypeOK ==
    /\ loads \in [Loads -> [phase : Phases, answer : SUBSET Writes]]
    /\ features \subseteq Writes
    /\ segments \subseteq Writes

LoaderInit(started) ==
    /\ loads = [l \in Loads |->
           IF l \in started THEN [Idle EXCEPT !.phase = "features"] ELSE Idle]
    /\ features = {}
    /\ segments = {}

InFlight == {l \in Loads : loads[l].phase # "idle"}

Fresh(part) == {w \in data : Part[w] = part}

UpToDate == features = Fresh("features") /\ segments = Fresh("segments")

-----------------------------------------------------------------------------
Start(l) ==
    /\ loads[l].phase = "idle"
    /\ loads' = [loads EXCEPT ![l].phase = "features"]
    /\ UNCHANGED <<features, segments>>

(* The database evaluates the first or the second query of a load.         *)
Answer(l, part) ==
    /\ loads[l].phase = part
    /\ loads' = [loads EXCEPT ![l] =
           [phase  |-> IF part = "features" THEN "featuresRead" ELSE "segmentsRead",
            answer |-> Fresh(part)]]
    /\ UNCHANGED <<features, segments>>

(* The first await returns: assign, and send the second query.             *)
TakeFeatures(l) ==
    /\ loads[l].phase = "featuresRead"
    /\ features' = loads[l].answer
    /\ loads' = [loads EXCEPT ![l] = [Idle EXCEPT !.phase = "segments"]]
    /\ UNCHANGED segments

TakeSegments(l) ==
    /\ loads[l].phase = "segmentsRead"
    /\ segments' = loads[l].answer
    /\ loads' = [loads EXCEPT ![l] = Idle]
    /\ UNCHANGED features

(* A query fails: the error is logged and the load is over, with whatever  *)
(* it had assigned so far.                                                 *)
Fail(l) ==
    /\ loads[l].phase \in {"features", "segments"}
    /\ loads' = [loads EXCEPT ![l] = Idle]
    /\ UNCHANGED <<features, segments>>

Ends(l) == TakeSegments(l) \/ Fail(l)
=============================================================================
