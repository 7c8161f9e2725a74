---------------------------- MODULE ClientFeatures ----------------------------
(***************************************************************************)
(* GET /api/client/features: how an SDK gets its configuration.  The       *)
(* endpoint computes the ETag from the revision, answers 304 when it is    *)
(* the one the client sent, and otherwise returns the features and the     *)
(* segments from a cache that is keyed by the ETag alone (memoizee with    *)
(* promise: true, so that requests which miss together share one lookup).  *)
(*                                                                         *)
(* A client is an SDK that polls with the query of one token, one request  *)
(* at a time; the query hash in the ETag is the same for all of them, so   *)
(* an ETag is its revision.  Composed with the writes of ConfigStore and   *)
(* the revision of RevisionService.                                        *)
(***************************************************************************)
EXTENDS RevisionService

VARIABLES
    request,    \* where each client's request is, and the ETag computed for it
    memo,       \* the memoised lookups, at most one per ETag
    client      \* what each SDK holds: its last ETag and configuration

clientVars == <<request, memo, client>>
vars == <<storeVars, revisionVars, clientVars>>

Clients == Requests

Lookup == [etag : Nat, read : SUBSET Parts, rows : SUBSET Writes]

TypeOK ==
    /\ StoreTypeOK
    /\ RevisionTypeOK
    /\ request \in [Clients ->
           [phase : {"idle", "meta", "waiting"}, etag : Nat]]
    /\ memo \subseteq Lookup
    /\ client \in [Clients ->
           [fetched : BOOLEAN, etag : Nat, config : SUBSET Writes]]

NoRequest == [phase |-> "idle", etag |-> 0]

Init ==
    /\ StoreInit
    /\ RevisionInit
    /\ request = [c \in Clients |-> NoRequest]
    /\ memo = {}
    /\ client = [c \in Clients |-> [fetched |-> FALSE, etag |-> 0, config |-> {}]]

Waiting(etag) == {c \in Clients : request[c].phase = "waiting" /\ request[c].etag = etag}

Resolved(m) == m.read = Parts

-----------------------------------------------------------------------------
(* The rest of getAll once the revision r is known: 304 if the client sent *)
(* this very ETag, otherwise join the memoised lookup or start one.        *)
NotModified(c, r) ==
    /\ client[c].fetched /\ client[c].etag = r
    /\ request' = [request EXCEPT ![c] = NoRequest]
    /\ UNCHANGED <<memo, client>>

FeaturesAndSegments(c, r) ==
    /\ ~(client[c].fetched /\ client[c].etag = r)
    /\ request' = [request EXCEPT ![c] = [phase |-> "waiting", etag |-> r]]
    /\ memo' = IF \E m \in memo : m.etag = r THEN memo
             ELSE memo \cup {[etag |-> r, read |-> {}, rows |-> {}]}
    /\ UNCHANGED client

(* Seeded fault: compares the query hashes of the ETags only.              *)
GetAllSameQuery(c, r) ==
    IF client[c].fetched
    THEN request' = [request EXCEPT ![c] = NoRequest] /\ UNCHANGED <<memo, client>>
    ELSE FeaturesAndSegments(c, r)

GetAll(c, r) == NotModified(c, r) \/ FeaturesAndSegments(c, r)

(* A poll that finds the revision known (or its update switched off) goes  *)
(* on at once; otherwise getMaxRevisionId asks the database first.         *)
Poll(c) ==
    /\ request[c].phase = "idle"
    /\ revisionId > 0 \/ updateDisabled
    /\ GetAll(c, revisionId)
    /\ UNCHANGED <<storeVars, revisionVars>>

PollUnknownRevision(c) ==
    /\ request[c].phase = "idle"
    /\ revisionId = 0
    /\ StartUpdate(c)
    /\ request' = [request EXCEPT ![c].phase = "meta"]
    /\ UNCHANGED <<storeVars, memo, client>>

MetaArrives(c) ==
    /\ request[c].phase = "meta"
    /\ FinishUpdate(c)
    /\ GetAll(c, revisionId')
    /\ UNCHANGED storeVars

MetaFails(c) ==
    /\ request[c].phase = "meta"
    /\ FailUpdate(c)
    /\ request' = [request EXCEPT ![c] = NoRequest]
    /\ UNCHANGED <<storeVars, memo, client>>

(* resolveFeaturesAndSegments: two queries side by side (Promise.all).     *)
ReadPart(m, part) ==
    /\ part \notin m.read
    /\ memo' = (memo \ {m}) \cup {[m EXCEPT !.read = @ \cup {part},
                                            !.rows = @ \cup Snapshot(part)]}
    /\ UNCHANGED <<storeVars, revisionVars, request, client>>

(* Seeded fault: the rejection is forgotten but not passed on.             *)
LookupFailsSilently(m) ==
    /\ ~Resolved(m)
    /\ memo' = memo \ {m}
    /\ UNCHANGED <<storeVars, revisionVars, request, client>>

(* A query of a lookup fails: the promise rejects for everyone who waits   *)
(* on it and memoizee forgets it.                                          *)
LookupFails(m) ==
    /\ ~Resolved(m)
    /\ memo' = memo \ {m}
    /\ request' = [c \in Clients |-> IF c \in Waiting(m.etag) THEN NoRequest ELSE request[c]]
    /\ UNCHANGED <<storeVars, revisionVars, client>>

(* The response: the SDK replaces what it held and keeps the new ETag.     *)
Respond(c) ==
    /\ request[c].phase = "waiting"
    /\ \E m \in memo :
           /\ m.etag = request[c].etag
           /\ Resolved(m)
           /\ client' = [client EXCEPT ![c] = [fetched |-> TRUE, etag |-> m.etag,
                             config |-> m.rows]]
    /\ request' = [request EXCEPT ![c] = NoRequest]
    /\ UNCHANGED <<storeVars, revisionVars, memo>>

(* Seeded fault: an entry expires while it is still being filled.          *)
ExpirePending(m) ==
    /\ memo' = memo \ {m}
    /\ UNCHANGED <<storeVars, revisionVars, request, client>>

(* maxAge has passed.  A request that still waits on the entry keeps its   *)
(* promise, so it makes no difference to expire it only afterwards.        *)
Expire(m) ==
    /\ Resolved(m)
    /\ Waiting(m.etag) = {}
    /\ memo' = memo \ {m}
    /\ UNCHANGED <<storeVars, revisionVars, request, client>>

-----------------------------------------------------------------------------
Write == StoreNext /\ UNCHANGED <<revisionVars, clientVars>>

ScheduledUpdate ==
    /\ \/ StartUpdate(Scheduler)
       \/ FailUpdate(Scheduler)
       \/ FinishUpdate(Scheduler)
    /\ UNCHANGED <<storeVars, clientVars>>

DatabaseAnswers ==
    /\ \E c \in Callers : AnswerUpdate(c)
    /\ UNCHANGED <<storeVars, clientVars>>

FlipSwitch == ToggleKillSwitch /\ UNCHANGED <<storeVars, clientVars>>

ClientStep(c) ==
    Poll(c) \/ PollUnknownRevision(c) \/ MetaArrives(c) \/ MetaFails(c) \/ Respond(c)

LookupStep(m) ==
    (\E part \in Parts : ReadPart(m, part)) \/ LookupFails(m) \/ Expire(m)

Next ==
    \/ Write
    \/ ScheduledUpdate
    \/ DatabaseAnswers
    \/ FlipSwitch
    \/ \E c \in Clients : ClientStep(c)
    \/ \E m \in memo : LookupStep(m)

Spec == Init /\ [][Next]_vars

-----------------------------------------------------------------------------
(* Fairness: the scheduler keeps firing, clients keep polling, the database*)
(* answers, and no query fails every time it is tried (SF).  Nothing is    *)
(* assumed of the writes or of the kill switch.                            *)
Scheduled(A) == A /\ UNCHANGED <<storeVars, clientVars>>

FirstRead(c) == \E m \in memo, part \in Parts :
    c \in Waiting(m.etag) /\ m.read = {} /\ ReadPart(m, part)

SecondRead(c) == \E m \in memo, part \in Parts :
    c \in Waiting(m.etag) /\ m.read # {} /\ ReadPart(m, part)

Progress(c) == Poll(c) \/ PollUnknownRevision(c) \/ MetaArrives(c) \/ Respond(c)

Fairness ==
    /\ WF_vars(Scheduled(StartUpdate(Scheduler)))
    /\ WF_vars(Scheduled(FinishUpdate(Scheduler)))
    /\ \A c \in Callers : SF_vars(Scheduled(AnswerUpdate(c)))
    /\ \A c \in Clients : /\ WF_vars(Progress(c))
                          /\ SF_vars(FirstRead(c)) /\ SF_vars(SecondRead(c))

FairSpec == Spec /\ Fairness

-----------------------------------------------------------------------------
(* An ETag is a promise: a client that holds the configuration of revision *)
(* n has every write whose event id is at most n, provided the write made  *)
(* its rows visible no later than its event and no higher id overtook it.  *)
(* It relies on the order of every await in between: the revision is read  *)
(* before the rows, and a memoised lookup is never older than its key.     *)
EtagSound ==
    \A c \in Clients, w \in Writes :
        InOrder(w) /\ eventId[w] <= client[c].etag => w \in client[c].config

(* The same for what is memoised, so for every later client of the entry.  *)
MemoSound ==
    \A m \in memo, w \in Writes :
        /\ InOrder(w) /\ eventId[w] <= m.etag
        /\ Part[w] \in m.read
        => w \in m.rows

(* Whoever waits on a lookup waits on one that exists, and only one lookup *)
(* per ETag is ever under way (getAll joins it): failing and expiring      *)
(* entries leave no request behind.                                        *)
LookupsShared ==
    /\ \A c \in Clients : request[c].phase = "waiting" =>
           \E m \in memo : m.etag = request[c].etag
    /\ \A m, n \in memo : m.etag = n.etag => m = n

(* The revision of a node goes back only through a call that read an older *)
(* revisionId than the one it overwrites, that is through overlapping calls*)
(* (a request's and the scheduler's while the node starts); a call on its  *)
(* own, with `id >= largerThan', never moves it back, not even to 0.       *)
RevisionGoesBackOnlyByOverlap ==
    [][revisionId' < revisionId =>
          \E c \in Callers : /\ calls[c].phase = "answered"
                              /\ calls[c].largerThan < revisionId
                              /\ calls'[c].phase = "idle"]_vars

(* Every write that a revision vouches for reaches every polling SDK.      *)
InOrderWritesReachClients ==
    \A w \in Writes, c \in Clients :
        InOrder(w) ~> w \in client[c].config

(* No poll hangs, whatever fails: the lookup it shares, its own revision   *)
(* query, or the entry it waits on.                                        *)
PollsEnd ==
    \A c \in Clients : request[c].phase # "idle" ~> request[c].phase = "idle"

(* What the documentation says of a change of configuration: after a small *)
(* delay it "is fully propagated to your application".                     *)
ChangesPropagate ==
    \A w \in Writes, c \in Clients :
        w \in data ~> w \in client[c].config
=============================================================================
