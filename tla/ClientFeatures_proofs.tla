------------------------ MODULE ClientFeatures_proofs ------------------------
(***************************************************************************)
(* Proofs about ClientFeatures, for any set of writes and of clients.      *)
(*                                                                         *)
(* EtagSound is not inductive.  What makes it so is that every revision on *)
(* its way to a client is vouched for (RevisionInvariants): a write        *)
(* that commits later below such a number has been overtaken, and one that *)
(* committed before it is in every snapshot taken since.                   *)
(***************************************************************************)
EXTENDS ClientFeatures, RevisionInvariants, TLAPS

-----------------------------------------------------------------------------
(* What GlobalFrontendApiCache_proofs shows of the database and of a call  *)
(* of updateMaxRevisionId does not depend on the cache.                    *)
Cache == INSTANCE GlobalFrontendApiCache_proofs
    WITH Loads <- {}, loads <- <<>>, features <- {}, segments <- {}, status <- "ready",
         disturbed <- FALSE

(* A write's step takes no visible event away, and makes no write visible, *)
(* below a number that is vouched for, that counts as in order.            *)
LEMMA StoreStep ==
    ASSUME StoreTypeOK, StoreInv, NEW w \in Writes,
           WriteData(w) \/ InsertEvent(w) \/ Commit(w) \/ Abandon(w)
    PROVE  /\ StoreInv'
           /\ \A r \in Nat : Vouched(r) => Vouched(r)'
           /\ \A r \in Nat, v \in Writes :
                  Vouched(r) /\ InOrder(v)' /\ eventId'[v] <= r
                      => InOrder(v) /\ eventId'[v] = eventId[v]
<1>1. Cache!StoreTypeOK /\ Cache!StoreInv
  BY DEF StoreTypeOK, Cache!StoreTypeOK, StoreInv, Cache!StoreInv
<1>2. Cache!WriteData(w) \/ Cache!InsertEvent(w) \/ Cache!Commit(w) \/ Cache!Abandon(w)
  BY DEF WriteData, Cache!WriteData, InsertEvent, Cache!InsertEvent, Commit,
         Cache!Commit, Abandon, Cache!Abandon,
         RowsFirst, Cache!RowsFirst, RowsAfterEvent, Cache!RowsAfterEvent,
         RowsSilently, Cache!RowsSilently
<1>3. /\ Cache!StoreInv'
      /\ \A r \in Nat : Cache!Vouched(r) => Cache!Vouched(r)'
      /\ \A r \in Nat, v \in Writes :
             Cache!Vouched(r) /\ Cache!InOrder(v)' /\ eventId'[v] <= r
                 => Cache!InOrder(v) /\ eventId'[v] = eventId[v]
  BY <1>1, <1>2, WritesAssumption, CallersAssumption, Cache!StoreStep
     DEF Kinds, Cache!Kinds, Parts, Cache!Parts, Callers, Cache!Callers
<1> QED BY <1>3 DEF StoreInv, Cache!StoreInv, Vouched, Cache!Vouched, InOrder, Cache!InOrder

(* The calls of updateMaxRevisionId handle vouched numbers only.           *)
LEMMA CallStep ==
    ASSUME StoreTypeOK, RevisionTypeOK, RevisionInv, NEW c \in Callers,
           StartUpdate(c) \/ AnswerUpdate(c) \/ FailUpdate(c) \/ FinishUpdate(c),
           UNCHANGED storeVars
    PROVE  RevisionInv'
<1>1. Cache!StoreTypeOK
  BY DEF StoreTypeOK, Cache!StoreTypeOK
<1>2. Cache!RevisionTypeOK
  BY DEF RevisionTypeOK, Cache!RevisionTypeOK, Call, Cache!Call, Callers, Cache!Callers
<1>3. Cache!RevisionInv
  BY DEF RevisionInv, Cache!RevisionInv, Vouched, Cache!Vouched, Callers, Cache!Callers
<1>4. Cache!StartUpdate(c) \/ Cache!AnswerUpdate(c) \/ Cache!FailUpdate(c) \/ Cache!FinishUpdate(c)
  BY DEF StartUpdate, Cache!StartUpdate, AnswerUpdate, Cache!AnswerUpdate, FailUpdate,
         Cache!FailUpdate, FinishUpdate, Cache!FinishUpdate, NoCall, Cache!NoCall,
         IsMaxRevision, Cache!IsMaxRevision,
         EmitsUpdate, Cache!EmitsUpdate
<1>5. UNCHANGED Cache!storeVars /\ c \in Cache!Callers
  BY DEF storeVars, Cache!storeVars, Callers, Cache!Callers
<1>6. Cache!RevisionInv'
  BY <1>1, <1>2, <1>3, <1>4, <1>5, WritesAssumption, CallersAssumption, Cache!CallStep
     DEF Kinds, Cache!Kinds, Parts, Cache!Parts, Callers, Cache!Callers
<1> QED BY <1>6 DEF RevisionInv, Cache!RevisionInv, Vouched, Cache!Vouched, Callers, Cache!Callers

-----------------------------------------------------------------------------
(* Every ETag that a client or the memo holds is vouched for.              *)
TagInv ==
    /\ \A c \in Clients : Vouched(request[c].etag) /\ Vouched(client[c].etag)
    /\ \A m \in memo : Vouched(m.etag)

Inv == TypeOK /\ StoreInv /\ RevisionInv /\ TagInv /\ MemoSound /\ EtagSound

-----------------------------------------------------------------------------
(* A step is one of these; what they leave alone is in the definitions.    *)
LEMMA NextCases ==
    ASSUME Next
    PROVE  \/ \E w \in Writes : (WriteData(w) \/ InsertEvent(w) \/ Commit(w) \/ Abandon(w))
                                  /\ UNCHANGED <<revisionVars, clientVars>>
           \/ \E c \in Callers : AnswerUpdate(c) /\ UNCHANGED <<storeVars, clientVars>>
           \/ ScheduledUpdate
           \/ FlipSwitch
           \/ \E c \in Clients : ClientStep(c)
           \/ \E m \in memo : LookupStep(m)
BY DEF Next, Write, StoreNext, DatabaseAnswers

(* The state a node starts in has its types.                               *)
LEMMA TypeInit == Init => TypeOK
<1> SUFFICES ASSUME Init PROVE TypeOK
  OBVIOUS
<1>1. StoreTypeOK
  BY DEF Init, StoreInit, StoreTypeOK
<1>2. RevisionTypeOK
  BY DEF Init, RevisionInit, RevisionTypeOK, NoCall, Call
<1>3. /\ request \in [Clients -> [phase : {"idle", "meta", "waiting"}, etag : Nat]]
      /\ memo \subseteq Lookup
  BY DEF Init, NoRequest
<1>4. client \in [Clients -> [fetched : BOOLEAN, etag : Nat, config : SUBSET Writes]]
  BY DEF Init
<1> QED BY <1>1, <1>2, <1>3, <1>4 DEF TypeOK

(* Every step of the store, the revision, the memo and the clients keeps   *)
(* the types.                                                              *)
LEMMA TypeStep == TypeOK /\ [Next]_vars => TypeOK'
<1> SUFFICES ASSUME TypeOK, [Next]_vars PROVE TypeOK'
  OBVIOUS
<1> USE DEF TypeOK, StoreTypeOK, RevisionTypeOK
<1>1. CASE \E w \in Writes : (WriteData(w) \/ InsertEvent(w) \/ Commit(w) \/ Abandon(w))
                                /\ UNCHANGED <<revisionVars, clientVars>>
  <2> PICK w \in Writes : /\ WriteData(w) \/ InsertEvent(w) \/ Commit(w) \/ Abandon(w)
                          /\ UNCHANGED <<revisionVars, clientVars>>
    BY <1>1
  <2>1. CASE WriteData(w)
    BY <2>1 DEF WriteData, revisionVars, clientVars
  <2>2. CASE InsertEvent(w)
    BY <2>2 DEF InsertEvent, revisionVars, clientVars
  <2>3. CASE Commit(w)
    BY <2>3 DEF Commit, revisionVars, clientVars
  <2>4. CASE Abandon(w)
    BY <2>4 DEF Abandon, revisionVars, clientVars
  <2> QED BY <2>1, <2>2, <2>3, <2>4
<1>2. CASE \E c \in Callers : AnswerUpdate(c) /\ UNCHANGED <<storeVars, clientVars>>
  <2>1. PICK c \in Callers : AnswerUpdate(c) /\ UNCHANGED <<storeVars, clientVars>>
    BY <1>2
  <2>2. PICK r \in {0} \cup {eventId[w] : w \in events} :
            calls' = [calls EXCEPT ![c] =
                [phase |-> "answered", largerThan |-> @.largerThan, answer |-> r]]
    BY <2>1 DEF AnswerUpdate
  <2>3. r \in Nat /\ calls[c] \in Call
    OBVIOUS
  <2>4. calls' \in [Callers -> Call]
    BY <2>2, <2>3 DEF Call
  <2> QED BY <2>1, <2>4 DEF AnswerUpdate, storeVars, clientVars
<1>3. CASE ScheduledUpdate
  <2> Scheduler \in Callers
    BY DEF Callers
  <2> USE DEF NoCall, Call, storeVars, clientVars
  <2>1. CASE StartUpdate(Scheduler)
    BY <1>3, <2>1 DEF ScheduledUpdate, StartUpdate
  <2>2. CASE FailUpdate(Scheduler)
    BY <1>3, <2>2 DEF ScheduledUpdate, FailUpdate
  <2>3. CASE FinishUpdate(Scheduler)
    BY <1>3, <2>3 DEF ScheduledUpdate, FinishUpdate
  <2> QED BY <1>3, <2>1, <2>2, <2>3 DEF ScheduledUpdate
<1>4. CASE FlipSwitch
  BY <1>4 DEF FlipSwitch, ToggleKillSwitch, storeVars, clientVars
<1>5. ASSUME NEW c \in Clients, ClientStep(c) PROVE TypeOK'
  <2> c \in Callers
    BY DEF Callers, Clients
  <2> USE DEF Lookup, Call, NoCall, NoRequest
  <2>1. ASSUME NEW r \in Nat, GetAll(c, r)
        PROVE  /\ request' \in [Clients -> [phase : {"idle", "meta", "waiting"}, etag : Nat]]
               /\ memo' \subseteq Lookup
               /\ client' \in [Clients -> [fetched : BOOLEAN, etag : Nat, config : SUBSET Writes]]
    <3>1. CASE NotModified(c, r)
      BY <3>1 DEF NotModified
    <3>2. CASE FeaturesAndSegments(c, r)
      <4>1. [etag |-> r, read |-> {}, rows |-> {}] \in Lookup
        OBVIOUS
      <4>2. memo' \subseteq Lookup
        BY <3>2, <4>1 DEF FeaturesAndSegments
      <4>3. request' \in [Clients -> [phase : {"idle", "meta", "waiting"}, etag : Nat]]
        BY <3>2 DEF FeaturesAndSegments
      <4> QED BY <3>2, <4>2, <4>3 DEF FeaturesAndSegments
    <3> QED BY <2>1, <3>1, <3>2 DEF GetAll
  <2>2. CASE Poll(c)
    BY <2>1, <2>2 DEF Poll, storeVars, revisionVars
  <2>3. CASE PollUnknownRevision(c)
    BY <2>3 DEF PollUnknownRevision, StartUpdate, storeVars
  <2>4. CASE MetaArrives(c)
    <3>1. /\ revisionId' \in Nat
          /\ calls' \in [Callers -> Call]
          /\ updateDisabled' = updateDisabled
      BY <2>4 DEF MetaArrives, FinishUpdate
    <3> QED BY <2>1, <2>4, <3>1 DEF MetaArrives, storeVars
  <2>5. CASE MetaFails(c)
    BY <2>5 DEF MetaFails, FailUpdate, storeVars
  <2>6. CASE Respond(c)
    BY <2>6 DEF Respond, storeVars, revisionVars
  <2> QED BY <1>5, <2>2, <2>3, <2>4, <2>5, <2>6 DEF ClientStep
<1>6. ASSUME NEW m \in memo, LookupStep(m) PROVE TypeOK'
  <2> USE DEF Lookup, NoRequest, storeVars, revisionVars
  <2>1. ASSUME NEW part \in Parts, ReadPart(m, part) PROVE TypeOK'
    <3>1. m \in Lookup
      OBVIOUS
    <3>2. [m EXCEPT !.read = @ \cup {part}, !.rows = @ \cup Snapshot(part)] \in Lookup
      BY <3>1 DEF Snapshot
    <3> QED BY <2>1, <3>2 DEF ReadPart
  <2>2. CASE LookupFails(m)
    BY <2>2 DEF LookupFails
  <2>3. CASE Expire(m)
    BY <2>3 DEF Expire
  <2> QED BY <1>6, <2>1, <2>2, <2>3 DEF LookupStep
<1>7. CASE UNCHANGED vars
  BY <1>7 DEF vars, storeVars, revisionVars, clientVars
<1> QED BY <1>1, <1>2, <1>3, <1>4, <1>5, <1>6, <1>7, NextCases

(* TypeOK of a run, for every set of writes and of clients.                *)
THEOREM TypeCorrect == Spec => []TypeOK
BY TypeInit, TypeStep, PTL DEF Spec


-----------------------------------------------------------------------------
(* The end of a request's handling, for a vouched revision.                *)
LEMMA GetAllStep ==
    ASSUME Inv, NEW c \in Clients, NEW r \in Nat, Vouched(r), GetAll(c, r),
           UNCHANGED storeVars
    PROVE  TagInv' /\ MemoSound' /\ EtagSound'
<1> USE DEF Inv, TypeOK
<1>0. /\ \A q : Vouched(q) <=> Vouched(q)'
      /\ \A w : InOrder(w) <=> InOrder(w)'
      /\ eventId' = eventId
  BY DEF Vouched, InOrder, storeVars
<1>n. Vouched(0)
  BY DEF Vouched
<1>1. CASE NotModified(c, r)
  BY <1>0, <1>1, <1>n DEF NotModified, TagInv, MemoSound, EtagSound, Vouched, InOrder, storeVars, NoRequest
<1>2. CASE FeaturesAndSegments(c, r)
  <2>1. \A m \in memo' : m \in memo \/ m = [etag |-> r, read |-> {}, rows |-> {}]
    BY <1>2 DEF FeaturesAndSegments
  <2>2. /\ request' = [request EXCEPT ![c] = [phase |-> "waiting", etag |-> r]]
        /\ client' = client
    BY <1>2 DEF FeaturesAndSegments
  <2>3. TagInv'
    BY <1>0, <2>1, <2>2 DEF TagInv, Vouched, storeVars
  <2>4. MemoSound'
    BY <1>0, <2>1 DEF MemoSound, InOrder, storeVars
  <2>5. EtagSound'
    BY <1>0, <2>2 DEF EtagSound, InOrder, storeVars
  <2> QED BY <2>3, <2>4, <2>5
<1> QED BY <1>1, <1>2 DEF GetAll

(* The steps that touch neither the database nor the revision.             *)
LEMMA LookupStepSound ==
    ASSUME Inv, NEW m \in memo, LookupStep(m)
    PROVE  TagInv' /\ MemoSound' /\ EtagSound'
<1> USE DEF Inv, TypeOK
<1>0. UNCHANGED <<storeVars, client>>
  BY DEF LookupStep, ReadPart, LookupFails, Expire
<1>1. /\ \A q : Vouched(q) <=> Vouched(q)'
      /\ \A w : InOrder(w) <=> InOrder(w)'
      /\ eventId' = eventId
  BY <1>0 DEF Vouched, InOrder, storeVars
<1>2. EtagSound'
  BY <1>0, <1>1 DEF EtagSound
<1>3. ASSUME NEW part \in Parts, ReadPart(m, part) PROVE TagInv' /\ MemoSound'
  <2> DEFINE n == [m EXCEPT !.read = @ \cup {part}, !.rows = @ \cup Snapshot(part)]
  <2>1. /\ memo' = (memo \ {m}) \cup {n}
        /\ request' = request
    BY <1>3 DEF ReadPart
  <2>2. m \in Lookup
    OBVIOUS
  <2>3. n.etag = m.etag /\ n.read = m.read \cup {part} /\ n.rows = m.rows \cup Snapshot(part)
    BY <2>2 DEF Lookup
  <2> HIDE DEF n
  <2>4. TagInv'
    BY <1>0, <1>1, <2>1, <2>3 DEF TagInv
  <2>5. ASSUME NEW w \in Writes, InOrder(w), eventId[w] <= n.etag, Part[w] \in n.read
        PROVE  w \in n.rows
    <3>1. w \in data
      BY <2>5 DEF InOrder, StoreInv
    <3>2. CASE Part[w] = part
      BY <2>3, <3>1, <3>2 DEF Snapshot
    <3>3. CASE Part[w] \in m.read
      BY <2>3, <2>5, <3>3 DEF MemoSound
    <3> QED BY <2>3, <2>5, <3>2, <3>3
  <2>6. MemoSound'
    BY <1>0, <1>1, <2>1, <2>5 DEF MemoSound
  <2> QED BY <2>4, <2>6
<1>4. CASE LookupFails(m)
  <2>1. memo' \subseteq memo /\ \A c \in Clients : request'[c] \in {request[c], NoRequest}
    BY <1>4 DEF LookupFails
  <2>2. Vouched(NoRequest.etag)
    BY DEF Vouched, NoRequest
  <2>3. TagInv'
    BY <1>0, <1>1, <2>1, <2>2 DEF TagInv
  <2>4. MemoSound'
    BY <1>0, <1>1, <2>1 DEF MemoSound
  <2> QED BY <1>2, <2>3, <2>4
<1>5. CASE Expire(m)
  <2>1. memo' \subseteq memo /\ request' = request
    BY <1>5 DEF Expire
  <2>2. TagInv'
    BY <1>0, <1>1, <2>1 DEF TagInv
  <2>3. MemoSound'
    BY <1>0, <1>1, <2>1 DEF MemoSound
  <2> QED BY <1>2, <2>2, <2>3
<1> QED BY <1>2, <1>3, <1>4, <1>5 DEF LookupStep

(* Nothing has been claimed yet when a node starts.                        *)
LEMMA InvInit == Init => Inv
<1> SUFFICES ASSUME Init PROVE Inv
  OBVIOUS
<1>1. TypeOK
  BY TypeInit
<1>2. StoreInv
  BY DEF Init, StoreInit, StoreInv
<1>3. RevisionInv
  BY DEF Init, RevisionInit, RevisionInv, NoCall, Vouched
<1>4. TagInv /\ MemoSound
  BY DEF Init, TagInv, MemoSound, NoRequest, Vouched
<1>5. EtagSound
  BY DEF Init, StoreInit, EtagSound, InOrder
<1> QED BY <1>1, <1>2, <1>3, <1>4, <1>5 DEF Inv

(* Every revision on its way to a client stays vouched for, and what was   *)
(* read under it holds the in-order writes it claims.                      *)
LEMMA InvStep == Inv /\ [Next]_vars => Inv'
<1> SUFFICES ASSUME Inv, [Next]_vars PROVE Inv'
  OBVIOUS
<1>t. TypeOK /\ TypeOK'
  BY TypeStep DEF Inv
<1>s. ASSUME UNCHANGED storeVars
      PROVE  /\ \A q : Vouched(q) <=> Vouched(q)'
             /\ \A w : InOrder(w) <=> InOrder(w)'
             /\ eventId' = eventId
             /\ StoreInv'
  BY <1>s DEF Vouched, InOrder, StoreInv, storeVars, Inv
<1>r. ASSUME UNCHANGED <<storeVars, revisionVars>> PROVE RevisionInv'
  BY <1>r, <1>s DEF RevisionInv, revisionVars, Inv
<1>c. ASSUME UNCHANGED <<storeVars, clientVars>> PROVE TagInv' /\ MemoSound' /\ EtagSound'
  <2>1. TagInv'
    BY <1>c, <1>s DEF TagInv, clientVars, Inv
  <2>2. MemoSound'
    BY <1>c, <1>s DEF MemoSound, clientVars, Inv
  <2>3. EtagSound'
    BY <1>c, <1>s DEF EtagSound, clientVars, Inv
  <2> QED BY <2>1, <2>2, <2>3
<1>1. ASSUME NEW w \in Writes, WriteData(w) \/ InsertEvent(w) \/ Commit(w) \/ Abandon(w),
             UNCHANGED <<revisionVars, clientVars>>
      PROVE  Inv'
  <2>1. /\ StoreInv'
        /\ \A r \in Nat : Vouched(r) => Vouched(r)'
        /\ \A r \in Nat, v \in Writes :
               Vouched(r) /\ InOrder(v)' /\ eventId'[v] <= r
                   => InOrder(v) /\ eventId'[v] = eventId[v]
    BY <1>1, <1>t, StoreStep DEF Inv, TypeOK
  <2>2. RevisionInv'
    BY <1>1, <1>t, <2>1 DEF RevisionInv, revisionVars, Inv, TypeOK, RevisionTypeOK, Call
  <2>3. TagInv'
    BY <1>1, <1>t, <2>1 DEF TagInv, clientVars, Inv, TypeOK, Lookup
  <2>4. MemoSound'
    <3>1. \A m \in memo : m.etag \in Nat /\ Vouched(m.etag)
      BY <1>t DEF TypeOK, Lookup, TagInv, Inv
    <3> QED BY <1>1, <2>1, <3>1 DEF MemoSound, clientVars, Inv
  <2>5. EtagSound'
    <3>1. \A c \in Clients : client[c].etag \in Nat /\ Vouched(client[c].etag)
      BY <1>t DEF TypeOK, TagInv, Inv
    <3> QED BY <1>1, <2>1, <3>1 DEF EtagSound, clientVars, Inv
  <2> QED BY <1>t, <2>1, <2>2, <2>3, <2>4, <2>5 DEF Inv
<1>2. ASSUME NEW c \in Callers, AnswerUpdate(c), UNCHANGED <<storeVars, clientVars>> PROVE Inv'
  BY <1>2, <1>t, <1>s, <1>c, CallStep DEF TypeOK, Inv
<1>3. CASE ScheduledUpdate
  <2>1. Scheduler \in Callers
    BY DEF Callers
  <2> QED BY <1>3, <1>t, <1>s, <1>c, <2>1, CallStep DEF TypeOK, Inv, ScheduledUpdate
<1>4. CASE FlipSwitch
  <2>1. RevisionInv'
    BY <1>4, <1>s DEF FlipSwitch, ToggleKillSwitch, RevisionInv, Inv
  <2> QED BY <1>4, <1>t, <1>s, <1>c, <2>1 DEF Inv, FlipSwitch
<1>5. ASSUME NEW c \in Clients, ClientStep(c) PROVE Inv'
  <2>0. c \in Callers /\ UNCHANGED storeVars
    BY <1>5 DEF Callers, Clients, ClientStep, Poll, PollUnknownRevision, MetaArrives, MetaFails, Respond
  <2>1. CASE Poll(c)
    <3>1. revisionId \in Nat /\ Vouched(revisionId)
      BY <1>t DEF TypeOK, RevisionTypeOK, RevisionInv, Inv
    <3> QED BY <1>t, <1>s, <1>r, <2>0, <2>1, <3>1, GetAllStep DEF Poll, Inv
  <2>2. CASE PollUnknownRevision(c)
    <3>1. RevisionInv'
      BY <1>t, <2>0, <2>2, CallStep DEF TypeOK, PollUnknownRevision, Inv
    <3>2. TagInv'
      BY <1>s, <1>t, <2>0, <2>2 DEF PollUnknownRevision, TagInv, Inv, TypeOK
    <3>3. MemoSound' /\ EtagSound'
      BY <1>s, <2>0, <2>2 DEF PollUnknownRevision, MemoSound, EtagSound, Inv
    <3> QED BY <1>t, <1>s, <2>0, <3>1, <3>2, <3>3 DEF Inv
  <2>3. CASE MetaArrives(c)
    <3>1. RevisionInv'
      BY <1>t, <2>0, <2>3, CallStep DEF TypeOK, MetaArrives, Inv
    <3>2. revisionId' \in Nat /\ Vouched(revisionId')
      BY <1>t, <1>s, <2>0, <3>1 DEF TypeOK, RevisionTypeOK, RevisionInv, Vouched, storeVars
    <3> QED BY <1>t, <1>s, <2>0, <2>3, <3>1, <3>2, GetAllStep DEF MetaArrives, Inv
  <2>4. CASE MetaFails(c)
    <3>1. RevisionInv'
      BY <1>t, <2>0, <2>4, CallStep DEF TypeOK, MetaFails, Inv
    <3>2. TagInv'
      BY <1>s, <1>t, <2>0, <2>4 DEF MetaFails, TagInv, Inv, TypeOK, NoRequest, Vouched
    <3>3. MemoSound' /\ EtagSound'
      BY <1>s, <2>0, <2>4 DEF MetaFails, MemoSound, EtagSound, Inv
    <3> QED BY <1>t, <1>s, <2>0, <3>1, <3>2, <3>3 DEF Inv
  <2>5. CASE Respond(c)
    <3>1. PICK m \in memo :
              /\ Resolved(m)
              /\ client' = [client EXCEPT ![c] =
                     [fetched |-> TRUE, etag |-> m.etag, config |-> m.rows]]
      BY <2>5 DEF Respond
    <3>2. \A w \in Writes : InOrder(w) /\ eventId[w] <= m.etag => w \in m.rows
      BY <3>1, WritesAssumption DEF Resolved, MemoSound, Inv
    <3>3. EtagSound'
      BY <1>s, <1>t, <2>0, <3>1, <3>2 DEF EtagSound, Inv, TypeOK
    <3>4. Vouched(m.etag) /\ Vouched(0)
      BY DEF TagInv, Inv, Vouched
    <3>5. TagInv'
      BY <1>s, <1>t, <2>0, <2>5, <3>1, <3>4 DEF Respond, TagInv, Inv, TypeOK, NoRequest
    <3>6. MemoSound' /\ RevisionInv'
      BY <1>s, <1>r, <2>0, <2>5 DEF Respond, MemoSound, Inv
    <3> QED BY <1>t, <1>s, <2>0, <3>3, <3>5, <3>6 DEF Inv
  <2> QED BY <1>5, <2>1, <2>2, <2>3, <2>4, <2>5 DEF ClientStep
<1>6. ASSUME NEW m \in memo, LookupStep(m) PROVE Inv'
  <2>1. UNCHANGED <<storeVars, revisionVars>>
    BY <1>6 DEF LookupStep, ReadPart, LookupFails, Expire
  <2> QED BY <1>6, <1>t, <1>s, <1>r, <2>1, LookupStepSound DEF Inv
<1>7. CASE UNCHANGED vars
  BY <1>7, <1>t, <1>s, <1>r, <1>c DEF vars, Inv
<1> QED BY <1>1, <1>2, <1>3, <1>4, <1>5, <1>6, <1>7, NextCases

(* An ETag is a promise, whatever order the writes, the revision's calls   *)
(* and the lookups come in.                                                *)
THEOREM EtagsSound == Spec => []EtagSound
<1>1. Inv => EtagSound
  BY DEF Inv
<1> QED BY <1>1, InvInit, InvStep, PTL DEF Spec

(* What the endpoint memoises under an ETag is never older than the ETag.  *)
THEOREM MemoisedLookupsSound == Spec => []MemoSound
<1>1. Inv => MemoSound
  BY DEF Inv
<1> QED BY <1>1, InvInit, InvStep, PTL DEF Spec

-----------------------------------------------------------------------------
(* Joining or starting the lookup of r keeps one lookup per ETag, and one  *)
(* for each client that waits.                                             *)
LEMMA GetAllShares ==
    ASSUME TypeOK, LookupsShared, NEW c \in Clients, NEW r, GetAll(c, r)
    PROVE  LookupsShared'
<1>0. request \in [Clients -> [phase : {"idle", "meta", "waiting"}, etag : Nat]]
  BY DEF TypeOK
<1>1. CASE NotModified(c, r)
  BY <1>0, <1>1 DEF NotModified, LookupsShared, NoRequest
<1>2. CASE FeaturesAndSegments(c, r)
  <2>1. /\ request'[c] = [phase |-> "waiting", etag |-> r]
        /\ \A d \in Clients \ {c} : request'[d] = request[d]
    BY <1>0, <1>2 DEF FeaturesAndSegments
  <2>2. CASE \E m \in memo : m.etag = r
    <3>1. memo' = memo  BY <1>2, <2>2 DEF FeaturesAndSegments
    <3> QED BY <2>1, <2>2, <3>1 DEF LookupsShared
  <2>3. CASE ~\E m \in memo : m.etag = r
    <3> DEFINE n == [etag |-> r, read |-> {}, rows |-> {}]
    <3>1. memo' = memo \cup {n} /\ n.etag = r
      BY <1>2, <2>3 DEF FeaturesAndSegments
    <3> HIDE DEF n
    <3>2. \A d \in Clients : request'[d].phase = "waiting" =>
              \E m \in memo' : m.etag = request'[d].etag
      <4> SUFFICES ASSUME NEW d \in Clients, request'[d].phase = "waiting"
                   PROVE  \E m \in memo' : m.etag = request'[d].etag
        OBVIOUS
      <4>1. CASE d = c  BY <2>1, <3>1, <4>1
      <4>2. CASE d # c  BY <2>1, <3>1, <4>2 DEF LookupsShared
      <4> QED BY <4>1, <4>2
    <3>3. \A m, k \in memo' : m.etag = k.etag => m = k
      BY <2>3, <3>1 DEF LookupsShared
    <3> QED BY <3>2, <3>3 DEF LookupsShared
  <2> QED BY <2>2, <2>3
<1> QED BY <1>1, <1>2 DEF GetAll

LEMMA SharedStep == TypeOK /\ LookupsShared /\ [Next]_vars => LookupsShared'
<1> SUFFICES ASSUME TypeOK, LookupsShared, [Next]_vars
             PROVE  LookupsShared'
  OBVIOUS
<1>0. request \in [Clients -> [phase : {"idle", "meta", "waiting"}, etag : Nat]]
  BY DEF TypeOK
<1>u. ASSUME UNCHANGED <<request, memo>>  PROVE LookupsShared'
  BY <1>u DEF LookupsShared
<1>e. ASSUME NEW c \in Clients, UNCHANGED memo,
             \/ request' = [request EXCEPT ![c] = NoRequest]
             \/ request' = [request EXCEPT ![c].phase = "meta"]
      PROVE  LookupsShared'
  <2>1. request'[c].phase # "waiting" /\ \A d \in Clients \ {c} : request'[d] = request[d]
    BY <1>0, <1>e DEF NoRequest
  <2> QED BY <1>e, <2>1 DEF LookupsShared
<1>1. CASE Write \/ ScheduledUpdate \/ DatabaseAnswers \/ FlipSwitch \/ UNCHANGED vars
  BY <1>1, <1>u DEF Write, ScheduledUpdate, DatabaseAnswers, FlipSwitch, clientVars, vars
<1>2. ASSUME NEW c \in Clients, ClientStep(c)  PROVE LookupsShared'
  <2>1. CASE Poll(c) \/ MetaArrives(c)
    BY <2>1, GetAllShares DEF Poll, MetaArrives
  <2>2. CASE PollUnknownRevision(c) \/ MetaFails(c) \/ Respond(c)
    BY <2>2, <1>e DEF PollUnknownRevision, MetaFails, Respond
  <2> QED BY <1>2, <2>1, <2>2 DEF ClientStep
<1>3. ASSUME NEW m \in memo, LookupStep(m)  PROVE LookupsShared'
  <2>1. ASSUME NEW part \in Parts, ReadPart(m, part)  PROVE LookupsShared'
    <3> DEFINE n == [m EXCEPT !.read = @ \cup {part}, !.rows = @ \cup Snapshot(part)]
    <3>1. memo' = (memo \ {m}) \cup {n} /\ request' = request  BY <2>1 DEF ReadPart
    <3>2. m \in Lookup  BY DEF TypeOK
    <3>3. n.etag = m.etag  BY <3>2 DEF Lookup
    <3> HIDE DEF n
    <3> QED BY <3>1, <3>3 DEF LookupsShared
  <2>2. CASE LookupFails(m)
    <3>1. \A c \in Clients : request'[c].phase = "waiting" =>
              request'[c] = request[c] /\ request[c].etag # m.etag
      BY <2>2 DEF LookupFails, Waiting, NoRequest
    <3>2. memo' = memo \ {m}  BY <2>2 DEF LookupFails
    <3> QED BY <3>1, <3>2 DEF LookupsShared
  <2>3. CASE Expire(m)
    BY <2>3 DEF Expire, Waiting, LookupsShared
  <2> QED BY <1>3, <2>1, <2>2, <2>3 DEF LookupStep
<1> QED BY <1>1, <1>2, <1>3 DEF Next

(* No lookup that fails or expires leaves a client waiting, and no two     *)
(* lookups are under way for one ETag.                                     *)
THEOREM LookupsAreShared == Spec => []LookupsShared
<1>1. Init => LookupsShared
  BY DEF Init, LookupsShared, NoRequest
<1>2. Init => TypeOK
  BY TypeInit
<1> QED BY <1>1, <1>2, TypeStep, SharedStep, PTL DEF Spec

-----------------------------------------------------------------------------
(* The revision goes back only by overlapping calls.                       *)
THEOREM RevisionMonotoneOnItsOwn == Spec => RevisionGoesBackOnlyByOverlap
<1> DEFINE Back == revisionId' < revisionId =>
        \E c \in Callers : /\ calls[c].phase = "answered"
                            /\ calls[c].largerThan < revisionId
                            /\ calls'[c].phase = "idle"
<1>1. Inv /\ [Next]_vars => [Back]_vars
  <2> SUFFICES ASSUME Inv, Next, revisionId' < revisionId
               PROVE  \E c \in Callers : /\ calls[c].phase = "answered"
                                          /\ calls[c].largerThan < revisionId
                                          /\ calls'[c].phase = "idle"
    BY DEF vars
  <2>1. PICK c \in Callers : FinishUpdate(c)
    <3>1. revisionId \in Nat
      BY DEF Inv, TypeOK, RevisionTypeOK
    <3>2. revisionId' # revisionId
      BY <3>1
    <3> QED BY <3>2 DEF Next, Write, ScheduledUpdate, DatabaseAnswers, FlipSwitch, ClientStep,
           LookupStep, StartUpdate, AnswerUpdate, FailUpdate, ToggleKillSwitch, Poll,
           PollUnknownRevision, MetaArrives, MetaFails, Respond, ReadPart, LookupFails, Expire,
           revisionVars, Callers, Clients
  <2>2. /\ calls[c].phase = "answered"
        /\ revisionId' = calls[c].answer
        /\ calls'[c].phase = "idle"
    BY <2>1 DEF FinishUpdate, EmitsUpdate, NoCall, Inv, TypeOK, RevisionTypeOK
  <2>3. calls[c].answer >= calls[c].largerThan
    BY <2>2 DEF Inv, RevisionInv
  <2>4. calls[c].answer \in Nat /\ calls[c].largerThan \in Nat /\ revisionId \in Nat
    BY DEF Inv, TypeOK, RevisionTypeOK, Call
  <2> QED BY <2>2, <2>3, <2>4
<1> QED BY <1>1, InvInit, InvStep, PTL DEF Spec, RevisionGoesBackOnlyByOverlap
=============================================================================
