-------------------- MODULE GlobalFrontendApiCache_proofs --------------------
(***************************************************************************)
(* For any writes, callers and bound on the loads: the global frontend     *)
(* cache lacks a write its revision vouches for only after loads that      *)
(* overlapped or failed.  What is inductive says of each phase of the one  *)
(* load under way which halves it has already read since the revision it   *)
(* was started for.                                                        *)
(***************************************************************************)
EXTENDS GlobalFrontendApiCache, RevisionInvariants, TLAPS

-----------------------------------------------------------------------------
(* The database and the revision, whoever reads them: ClientFeatures_proofs*)
(* cites StoreStep and CallStep too.                                       *)

(* A write's steps keep the types.                                         *)
LEMMA StoreTypes ==
    ASSUME StoreTypeOK, NEW w \in Writes,
           WriteData(w) \/ InsertEvent(w) \/ Commit(w) \/ Abandon(w)
    PROVE  StoreTypeOK'
<1> USE DEF StoreTypeOK
<1>1. CASE WriteData(w)  BY <1>1 DEF WriteData
<1>2. CASE InsertEvent(w)  BY <1>2 DEF InsertEvent
<1>3. CASE Commit(w)  BY <1>3 DEF Commit
<1>4. CASE Abandon(w)  BY <1>4 DEF Abandon
<1> QED BY <1>1, <1>2, <1>3, <1>4

(* So do the steps of a call of updateMaxRevisionId.                       *)
LEMMA CallTypes ==
    ASSUME StoreTypeOK, RevisionTypeOK, NEW c \in Callers,
           StartUpdate(c) \/ AnswerUpdate(c) \/ FailUpdate(c) \/ FinishUpdate(c)
    PROVE  RevisionTypeOK'
<1> USE DEF RevisionTypeOK, Call, NoCall
<1>1. CASE StartUpdate(c)  BY <1>1 DEF StartUpdate
<1>2. CASE AnswerUpdate(c)
  <2>1. PICK r \in {0} \cup {eventId[w] : w \in events} :
            calls' = [calls EXCEPT ![c] =
                [phase |-> "answered", largerThan |-> @.largerThan, answer |-> r]]
    BY <1>2 DEF AnswerUpdate
  <2>2. r \in Nat  BY DEF StoreTypeOK
  <2> QED BY <1>2, <2>1, <2>2 DEF AnswerUpdate
<1>3. CASE FailUpdate(c)  BY <1>3 DEF FailUpdate
<1>4. CASE FinishUpdate(c)  BY <1>4 DEF FinishUpdate
<1> QED BY <1>1, <1>2, <1>3, <1>4

(* Before the first write nothing is vouched for but 0.                    *)
LEMMA RevisionStarts ==
    ASSUME StoreInit, RevisionInit
    PROVE  StoreTypeOK /\ RevisionTypeOK /\ StoreInv /\ RevisionInv
<1>1. StoreTypeOK  BY DEF StoreInit, StoreTypeOK
<1>2. RevisionTypeOK  BY DEF RevisionInit, RevisionTypeOK, NoCall, Call
<1>3. StoreInv  BY DEF StoreInit, StoreInv
<1>4. RevisionInv
  <2>1. Vouched(0)  BY <1>1 DEF StoreInit, StoreTypeOK, Vouched
  <2> QED BY <2>1 DEF RevisionInit, RevisionInv, NoCall
<1> QED BY <1>1, <1>2, <1>3, <1>4

-----------------------------------------------------------------------------
(* A write's step in the database keeps the order of ids and rows, never   *)
(* takes a visible event away, and never makes visible, below a number     *)
(* that is vouched for, a write that counts as in order.                   *)
LEMMA StoreStep ==
    ASSUME StoreTypeOK, StoreInv, NEW w \in Writes,
           WriteData(w) \/ InsertEvent(w) \/ Commit(w) \/ Abandon(w)
    PROVE  /\ StoreInv'
           /\ \A r \in Nat : Vouched(r) => Vouched(r)'
           /\ \A r \in Nat, v \in Writes :
                  Vouched(r) /\ InOrder(v)' /\ eventId'[v] <= r
                      => InOrder(v) /\ eventId'[v] = eventId[v]
<1>0. \A a, b, q \in Nat : a >= q /\ b <= q /\ a # b => a > b
  OBVIOUS
<1> USE DEF StoreTypeOK, Vouched, StoreInv, InOrder
<1>1. CASE WriteData(w)
  BY <1>1 DEF WriteData
<1>2. CASE InsertEvent(w)
  <2>1. /\ w \notin events
        /\ eventId[w] = 0
        /\ \A v \in Writes : eventId'[v] = IF v = w THEN nextId ELSE eventId[v]
        /\ nextId' = nextId + 1
        /\ UNCHANGED <<data, events, gone, late>>
    BY <1>2 DEF InsertEvent
  <2>2. Kind[w] = "data_first" => w \in data
    BY <1>2 DEF InsertEvent
  <2>3. StoreInv'
    BY <2>1, <2>2
  <2> QED BY <2>1, <2>3
<1>3. CASE Commit(w)
  <2>1. /\ w \notin events
        /\ eventId[w] # 0
        /\ events' = events \cup {w}
        /\ data \subseteq data'
        /\ Kind[w] = "transaction" => w \in data'
        /\ late' = IF \E v \in events : eventId[v] > eventId[w]
                    THEN late \cup {w} ELSE late
        /\ UNCHANGED <<eventId, nextId, gone>>
    BY <1>3 DEF Commit
  <2>2. StoreInv'
    BY <2>1
  <2>3. \A r \in Nat : Vouched(r) => Vouched(r)'
    BY <2>1
  <2>4. ASSUME NEW r \in Nat, NEW v \in Writes, Vouched(r), InOrder(v)', eventId'[v] <= r
        PROVE  InOrder(v) /\ eventId'[v] = eventId[v]
    <3>1. v # w
      <4> SUFFICES ASSUME v = w PROVE FALSE
        OBVIOUS
      <4>1. r # 0
        BY <2>1, <2>4
      <4>2. PICK u \in events : eventId[u] >= r
        BY <2>4, <4>1
      <4>3. u # w /\ eventId[u] # eventId[w]
        BY <2>1, <4>2
      <4>4. eventId[u] > eventId[w]
        <5>1. eventId[u] \in Nat /\ eventId[w] \in Nat /\ eventId[w] <= r
          BY <2>1, <2>4
        <5>2. r \in Nat /\ eventId[u] # eventId[w] /\ eventId[u] >= r
          BY <2>4, <4>2, <4>3
        <5> QED BY <1>0, <5>1, <5>2
      <4> QED BY <2>1, <2>4, <4>4
    <3> QED BY <2>1, <2>4, <3>1
  <2> QED BY <2>2, <2>3, <2>4
<1>4. CASE Abandon(w)
  BY <1>4 DEF Abandon
<1> QED BY <1>1, <1>2, <1>3, <1>4

(* What the database answers to getMaxRevisionId is vouched for, and not   *)
(* below the number the caller asked with.                                 *)
LEMMA AnswerVouched ==
    ASSUME StoreTypeOK, NEW l \in Nat, Vouched(l),
           NEW r \in {0} \cup {eventId[w] : w \in events}, IsMaxRevision(l, r)
    PROVE  Vouched(r) /\ r >= l
BY DEF StoreTypeOK, Vouched, IsMaxRevision

(* The calls of updateMaxRevisionId handle vouched numbers only.           *)
LEMMA CallStep ==
    ASSUME StoreTypeOK, RevisionTypeOK, RevisionInv, NEW c \in Callers,
           StartUpdate(c) \/ AnswerUpdate(c) \/ FailUpdate(c) \/ FinishUpdate(c),
           UNCHANGED storeVars
    PROVE  RevisionInv'
<1> USE DEF RevisionTypeOK
<1>0. \A r : Vouched(r) <=> Vouched(r)'
  BY DEF Vouched, storeVars
<1>n. Vouched(0)
  BY DEF Vouched
<1>1. CASE StartUpdate(c)
  BY <1>0, <1>1, <1>n DEF StartUpdate, RevisionInv, Vouched, storeVars, Call
<1>2. CASE AnswerUpdate(c)
  <2>1. PICK r \in {0} \cup {eventId[w] : w \in events} :
            /\ IsMaxRevision(calls[c].largerThan, r)
            /\ calls' = [calls EXCEPT ![c] =
                  [phase |-> "answered", largerThan |-> @.largerThan, answer |-> r]]
    BY <1>2 DEF AnswerUpdate
  <2>2. calls[c].largerThan \in Nat /\ Vouched(calls[c].largerThan)
    BY DEF RevisionInv, Call
  <2>3. Vouched(r) /\ r >= calls[c].largerThan
    BY <2>1, <2>2, AnswerVouched
  <2> QED BY <1>0, <1>2, <2>1, <2>2, <2>3 DEF AnswerUpdate, RevisionInv, Vouched, storeVars
<1>3. CASE FailUpdate(c)
  BY <1>0, <1>3, <1>n DEF FailUpdate, RevisionInv, Vouched, storeVars, NoCall
<1>4. CASE FinishUpdate(c)
  BY <1>0, <1>4, <1>n DEF FinishUpdate, RevisionInv, Vouched, storeVars, NoCall
<1> QED BY <1>1, <1>2, <1>3, <1>4

-----------------------------------------------------------------------------
(* The rows hold every write of the half that the revision vouches for.    *)
Holds(rows, part) ==
    \A w \in Writes :
        InOrder(w) /\ eventId[w] <= revisionId /\ Part[w] = part => w \in rows

CacheRules ==
    /\ \A l, k \in InFlight : l = k
    /\ \A l \in Loads :
           /\ loads[l].phase = "featuresRead" => Holds(loads[l].answer, "features")
           /\ loads[l].phase \in {"segments", "segmentsRead"} => Holds(features, "features")
           /\ loads[l].phase = "segmentsRead" => Holds(loads[l].answer, "segments")
    /\ InFlight = {} => Holds(features, "features") /\ Holds(segments, "segments")

CacheInv == ~disturbed => CacheRules

Inv == TypeOK /\ StoreInv /\ RevisionInv /\ CacheInv

-----------------------------------------------------------------------------
(* The snapshot of a half holds everything visible; what held every vouched*)
(* write keeps doing so while the revision stays.                          *)
LEMMA FreshHolds ==
    ASSUME StoreInv, NEW part \in Parts
    PROVE  Holds(Fresh(part), part)
BY DEF StoreInv, Holds, Fresh, InOrder

LEMMA StillHolds ==
    ASSUME TypeOK, StoreInv, RevisionInv, NEW w \in Writes,
           WriteData(w) \/ InsertEvent(w) \/ Commit(w) \/ Abandon(w),
           revisionId' = revisionId, NEW rows, NEW part, Holds(rows, part)
    PROVE  Holds(rows, part)'
<1>1. revisionId \in Nat /\ Vouched(revisionId)
  BY DEF TypeOK, RevisionTypeOK, RevisionInv
<1>2. \A v \in Writes : InOrder(v)' /\ eventId'[v] <= revisionId
                            => InOrder(v) /\ eventId'[v] = eventId[v]
  BY <1>1, StoreStep DEF TypeOK
<1> QED BY <1>2 DEF Holds

LEMMA SameHolds ==
    ASSUME UNCHANGED <<storeVars, revisionId>>, NEW rows, NEW part, Holds(rows, part)
    PROVE  Holds(rows, part)'
BY DEF Holds, InOrder, storeVars

-----------------------------------------------------------------------------
(* What the constructor leaves.                                            *)
LEMMA Initially == Init => Inv
<1> SUFFICES ASSUME Init  PROVE Inv  OBVIOUS
<1>1. StoreTypeOK /\ RevisionTypeOK /\ StoreInv /\ RevisionInv
  BY RevisionStarts DEF Init
<1>2. PICK l \in Loads : LoaderInit({l})  BY DEF Init
<1>3. LoaderTypeOK  BY <1>2 DEF LoaderInit, LoaderTypeOK, Idle, Phases
<1>4. CacheRules
  BY <1>2 DEF LoaderInit, CacheRules, InFlight, Idle
<1> QED BY <1>1, <1>3, <1>4 DEF Init, Inv, TypeOK, CacheInv

(* A write changes the rows under a cache that stays as it is.             *)
LEMMA WriteKeeps == Inv /\ Write => Inv'
<1> SUFFICES ASSUME Inv, Write  PROVE Inv'  OBVIOUS
<1>1. PICK w \in Writes : WriteData(w) \/ InsertEvent(w) \/ Commit(w) \/ Abandon(w)
  BY DEF Write, StoreNext
<1>2. UNCHANGED <<revisionVars, cacheVars>>  BY DEF Write
<1>3. StoreTypeOK' /\ StoreInv' /\ \A r \in Nat : Vouched(r) => Vouched(r)'
  BY <1>1, StoreTypes, StoreStep DEF Inv, TypeOK
<1>4. RevisionInv'
  BY <1>2, <1>3 DEF Inv, TypeOK, RevisionTypeOK, RevisionInv, revisionVars, Call
<1>5. TypeOK'
  BY <1>2, <1>3 DEF Inv, TypeOK, RevisionTypeOK, LoaderTypeOK, revisionVars, cacheVars
<1>6. CacheInv'
  <2> SUFFICES ASSUME ~disturbed'  PROVE CacheRules'  BY DEF CacheInv
  <2>1. CacheRules  BY <1>2 DEF Inv, CacheInv, cacheVars
  <2>2. \A rows, part : Holds(rows, part) => Holds(rows, part)'
    BY <1>1, <1>2, StillHolds DEF Inv, revisionVars
  <2> QED BY <1>2, <2>1, <2>2 DEF CacheRules, InFlight, cacheVars
<1> QED BY <1>3, <1>4, <1>5, <1>6 DEF Inv

(* A call of updateMaxRevisionId that does not end leaves the revision.    *)
LEMMA RevisionKeeps ==
    ASSUME Inv, NEW c \in Callers, RevisionStep(c)
    PROVE  Inv'
<1>1. UNCHANGED <<storeVars, cacheVars, revisionId>>
  BY DEF RevisionStep, StartUpdate, AnswerUpdate, FailUpdate
<1>2. RevisionTypeOK' /\ RevisionInv'
  BY <1>1, CallTypes, CallStep DEF RevisionStep, Inv, TypeOK
<1>3. TypeOK' /\ StoreInv'
  BY <1>1, <1>2
     DEF Inv, TypeOK, StoreTypeOK, LoaderTypeOK, StoreInv, storeVars, cacheVars
<1>4. CacheInv'
  <2>1. \A rows, part : Holds(rows, part) => Holds(rows, part)'
    BY <1>1, SameHolds
  <2> QED BY <1>1, <2>1 DEF Inv, CacheInv, CacheRules, InFlight, cacheVars
<1> QED BY <1>2, <1>3, <1>4 DEF Inv

(* One that ends with another revision starts a load, which owes nothing   *)
(* yet, and is the only one unless the loads are disturbed.                *)
LEMMA UpdateKeeps ==
    ASSUME Inv, NEW c \in Callers, UpdateArrives(c)
    PROVE  Inv'
<1>1. UNCHANGED storeVars /\ FinishUpdate(c)  BY DEF UpdateArrives
<1>2. RevisionTypeOK' /\ RevisionInv'
  BY <1>1, CallTypes, CallStep DEF Inv, TypeOK
<1>3. StoreTypeOK' /\ StoreInv'
  BY <1>1 DEF Inv, TypeOK, StoreTypeOK, StoreInv, storeVars
<1>4. CASE EmitsUpdate(c)
  <2>1. OnUpdateRevision  BY <1>4 DEF UpdateArrives
  <2>2. PICK l \in Loads : Start(l)  BY <2>1 DEF OnUpdateRevision
  <2>3. LoaderTypeOK'
    BY <2>2 DEF Start, LoaderTypeOK, Phases, Inv, TypeOK
  <2>4. TypeOK'
    BY <1>2, <1>3, <2>1, <2>3 DEF OnUpdateRevision, Inv, TypeOK
  <2>5. CacheInv'
    <3> SUFFICES ASSUME ~disturbed'  PROVE CacheRules'  BY DEF CacheInv
    <3>1. InFlight = {}  BY <2>1 DEF OnUpdateRevision
    <3>2. \A k \in Loads : loads'[k].phase = IF k = l THEN "features" ELSE "idle"
      BY <2>2, <3>1 DEF Start, InFlight, Inv, TypeOK, LoaderTypeOK
    <3> QED BY <3>2 DEF CacheRules, InFlight
  <2> QED BY <1>2, <1>3, <2>4, <2>5 DEF Inv
<1>5. CASE ~EmitsUpdate(c)
  <2>1. UNCHANGED <<storeVars, cacheVars, revisionId>>
    BY <1>1, <1>5 DEF UpdateArrives, FinishUpdate
  <2>2. TypeOK'
    BY <1>2, <1>3, <2>1 DEF Inv, TypeOK, LoaderTypeOK, cacheVars
  <2>3. \A rows, part : Holds(rows, part) => Holds(rows, part)'
    BY <2>1, SameHolds
  <2>4. CacheInv'
    BY <2>1, <2>3 DEF Inv, CacheInv, CacheRules, InFlight, cacheVars
  <2> QED BY <1>2, <1>3, <2>2, <2>4 DEF Inv
<1> QED BY <1>4, <1>5

-----------------------------------------------------------------------------
(* A load goes on: what it reads and assigns holds what it must.           *)
LEMMA LoadKeeps ==
    ASSUME Inv, NEW l \in Loads,
           DatabaseAnswers(l) \/ FeaturesArrive(l) \/ RefreshEnds(l) \/ RefreshFails(l)
    PROVE  Inv'
<1>1. UNCHANGED <<storeVars, revisionVars>>
  BY DEF DatabaseAnswers, FeaturesArrive, RefreshEnds, RefreshFails
<1>2. StoreTypeOK' /\ RevisionTypeOK' /\ StoreInv' /\ RevisionInv'
  BY <1>1 DEF Inv, TypeOK, StoreTypeOK, RevisionTypeOK, StoreInv, RevisionInv, Vouched,
              storeVars, revisionVars
<1>h. \A rows, part : Holds(rows, part) => Holds(rows, part)'
  BY <1>1, SameHolds DEF revisionVars
<1>t. loads \in [Loads -> [phase : Phases, answer : SUBSET Writes]]
  BY DEF Inv, TypeOK, LoaderTypeOK
<1>3. LoaderTypeOK' /\ status' \in {"starting", "ready", "updated"} /\ disturbed' \in BOOLEAN
  <2> USE DEF Inv, TypeOK, LoaderTypeOK, Phases, Idle
  <2>1. CASE DatabaseAnswers(l)
    <3>1. PICK part \in Parts : Answer(l, part)  BY <2>1 DEF DatabaseAnswers
    <3>2. Fresh(part) \subseteq Writes  BY DEF Fresh, StoreTypeOK
    <3> QED BY <2>1, <3>1, <3>2 DEF DatabaseAnswers, Answer
  <2>2. CASE FeaturesArrive(l)  BY <2>2 DEF FeaturesArrive, TakeFeatures
  <2>3. CASE RefreshEnds(l)  BY <2>3 DEF RefreshEnds, TakeSegments
  <2>4. CASE RefreshFails(l)  BY <2>4 DEF RefreshFails, Fail
  <2> QED BY <2>1, <2>2, <2>3, <2>4
<1>4. CacheInv'
  <2> SUFFICES ASSUME ~disturbed'  PROVE CacheRules'  BY DEF CacheInv
  <2>0. ~RefreshFails(l) /\ ~disturbed
    BY DEF RefreshFails, DatabaseAnswers, FeaturesArrive, RefreshEnds
  <2>r. CacheRules  BY <2>0 DEF Inv, CacheInv
  <2>1. CASE DatabaseAnswers(l)
    <3>1. PICK part \in Parts : Answer(l, part)  BY <2>1 DEF DatabaseAnswers
    <3>2. Holds(Fresh(part), part)  BY FreshHolds DEF Inv
    <3>3. PICK rows : rows = Fresh(part)  OBVIOUS
    <3>5. Holds(rows, part)'  BY <1>h, <3>2, <3>3
    <3>4. /\ loads'[l].answer = rows
          /\ loads'[l].phase = IF part = "features" THEN "featuresRead" ELSE "segmentsRead"
          /\ loads[l].phase = part
          /\ \A k \in Loads \ {l} : loads'[k] = loads[k]
          /\ UNCHANGED <<features, segments>>
      BY <1>t, <3>1, <3>3 DEF Answer
    <3> QED BY <1>h, <2>r, <3>4, <3>5 DEF CacheRules, InFlight, Parts
  <2>2. CASE FeaturesArrive(l)
    <3>1. /\ loads[l].phase = "featuresRead" /\ loads'[l].phase = "segments"
          /\ \A k \in Loads \ {l} : loads'[k] = loads[k]
          /\ features' = loads[l].answer /\ segments' = segments
      BY <1>t, <2>2 DEF FeaturesArrive, TakeFeatures, Idle
    <3> QED BY <1>h, <2>r, <3>1 DEF CacheRules, InFlight
  <2>3. CASE RefreshEnds(l)
    <3>1. /\ loads[l].phase = "segmentsRead" /\ loads'[l].phase = "idle"
          /\ \A k \in Loads \ {l} : loads'[k] = loads[k]
          /\ segments' = loads[l].answer /\ features' = features
      BY <1>t, <2>3 DEF RefreshEnds, TakeSegments, Idle
    <3>2. \A k \in Loads : loads'[k].phase = "idle"
      BY <2>r, <3>1 DEF CacheRules, InFlight
    <3> QED BY <1>h, <2>r, <3>1, <3>2 DEF CacheRules, InFlight
  <2> QED BY <2>0, <2>1, <2>2, <2>3
<1> QED BY <1>2, <1>3, <1>4 DEF Inv, TypeOK

LEMMA Unmoved == Inv /\ UNCHANGED vars => Inv'
<1> SUFFICES ASSUME Inv, UNCHANGED vars  PROVE Inv'  OBVIOUS
<1>1. \A rows, part : Holds(rows, part) => Holds(rows, part)'
  BY SameHolds DEF vars, revisionVars
<1>2. CacheInv'
  BY <1>1 DEF Inv, CacheInv, CacheRules, InFlight, vars, cacheVars
<1>3. StoreInv' /\ RevisionInv'
  BY DEF Inv, StoreInv, RevisionInv, Vouched, vars, storeVars, revisionVars
<1>4. TypeOK'
  BY DEF Inv, TypeOK, StoreTypeOK, RevisionTypeOK, LoaderTypeOK, vars, storeVars,
         revisionVars, cacheVars
<1> QED BY <1>2, <1>3, <1>4 DEF Inv

(* A cache at rest shows every write its revision vouches for, unless loads*)
(* overlapped or failed.                                                   *)
THEOREM CacheLagsOnlyIfDisturbed == Spec => []LagsOnlyIfDisturbed
<1>1. Inv /\ [Next]_vars => Inv'
  BY WriteKeeps, RevisionKeeps, UpdateKeeps, LoadKeeps, Unmoved DEF Next
<1>2. Inv => LagsOnlyIfDisturbed
  BY WritesAssumption
     DEF Inv, CacheInv, CacheRules, Holds, LagsOnlyIfDisturbed, Parts
<1> QED BY Initially, <1>1, <1>2, PTL DEF Spec
=============================================================================
