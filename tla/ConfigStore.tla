----------------------------- MODULE ConfigStore -----------------------------
(***************************************************************************)
(* The database as the propagation of configuration sees it: every admin   *)
(* operation is a WRITE, which changes configuration rows (features,       *)
(* strategies, variants, environments, segments) and normally appends one  *)
(* row to the events table.  What decides whether the write will ever      *)
(* reach the SDKs is the order in which its data and its event become      *)
(* visible, and the id the event was given:                                *)
(*                                                                         *)
(*   data_first   FeatureToggleService.updateFeatureToggle and most other  *)
(*                operations: autocommit the rows, then store the event    *)
(*   event_first  saveVariantsOnEnv, setVariantsOnEnvs: store the event,   *)
(*                then autocommit the rows                                 *)
(*   transaction  services called through .transactional(): the event gets *)
(*                its id inside the transaction, rows and event become     *)
(*                visible together at commit                               *)
(*   silent       operations whose event the revision query does not count *)
(*                (no feature_name: PROJECT_ENVIRONMENT_ADDED / _REMOVED)  *)
(*                or that store none at all (deleteEnvironment)            *)
(*                                                                         *)
(* Event ids come from a Postgres sequence: they are given out when the    *)
(* INSERT runs and seen by others when it commits, so a lower id can       *)
(* become visible after a higher one.  `late' remembers such writes.       *)
(***************************************************************************)
EXTENDS Naturals

CONSTANTS
    Writes,     \* the admin operations that happen, each once
    Kind,       \* the way each of them reaches the database
    Part        \* the half of the client configuration each of them changes

Kinds == {"data_first", "event_first", "transaction", "silent"}
Parts == {"features", "segments"}

ASSUME WritesAssumption ==
    /\ Kind \in [Writes -> Kinds]
    /\ Part \in [Writes -> Parts]

VARIABLES
    data,       \* the writes whose rows are visible to every reader
    eventId,    \* the id of a write's event, 0 while none was inserted
    events,     \* the writes whose event is visible to every reader
    nextId,     \* the sequence behind events.id
    gone,       \* the writes that stopped halfway: crash, rollback, lost event
    late        \* history: events that became visible below a visible id

storeVars == <<data, eventId, events, nextId, gone, late>>

StoreTypeOK ==
    /\ data \subseteq Writes
    /\ eventId \in [Writes -> Nat]
    /\ events \subseteq Writes
    /\ nextId \in Nat \ {0}
    /\ gone \subseteq Writes
    /\ late \subseteq Writes

StoreInit ==
    /\ data = {}
    /\ eventId = [w \in Writes |-> 0]
    /\ events = {}
    /\ nextId = 1
    /\ gone = {}
    /\ late = {}

-----------------------------------------------------------------------------
(* When a write of each autocommitting kind may change its rows.           *)
RowsFirst(w) == Kind[w] = "data_first"
RowsAfterEvent(w) == Kind[w] = "event_first" /\ w \in events
RowsSilently(w) == Kind[w] = "silent"

(* A write's rows are autocommitted.  Inside a transaction they are not    *)
(* visible before Commit, so there is no step for them.                    *)
WriteData(w) ==
    /\ w \notin data \cup gone
    /\ RowsFirst(w) \/ RowsAfterEvent(w) \/ RowsSilently(w)
    /\ data' = data \cup {w}
    /\ UNCHANGED <<eventId, events, nextId, gone, late>>

(* Seeded fault: the event is stored before the rows are changed.          *)
InsertEventEarly(w) ==
    /\ eventId[w] = 0
    /\ w \notin gone
    /\ Kind[w] # "silent"
    /\ eventId' = [eventId EXCEPT ![w] = nextId]
    /\ nextId' = nextId + 1
    /\ UNCHANGED <<data, events, gone, late>>

(* EventStore.store: the INSERT runs and draws the next id.                *)
InsertEvent(w) ==
    /\ eventId[w] = 0
    /\ w \notin gone
    /\ \/ Kind[w] = "data_first" /\ w \in data
       \/ Kind[w] \in {"event_first", "transaction"}
    /\ eventId' = [eventId EXCEPT ![w] = nextId]
    /\ nextId' = nextId + 1
    /\ UNCHANGED <<data, events, gone, late>>

(* Seeded fault: an event store that was not built on the transaction.     *)
CommitOutsideTransaction(w) ==
    /\ eventId[w] # 0
    /\ w \notin events \cup gone
    /\ events' = events \cup {w}
    /\ late' = IF \E v \in events : eventId[v] > eventId[w]
               THEN late \cup {w} ELSE late
    /\ UNCHANGED <<data, eventId, nextId, gone>>

(* The INSERT, or the transaction around it, commits.                      *)
Commit(w) ==
    /\ eventId[w] # 0
    /\ w \notin events \cup gone
    /\ events' = events \cup {w}
    /\ data' = IF Kind[w] = "transaction" THEN data \cup {w} ELSE data
    /\ late' = IF \E v \in events : eventId[v] > eventId[w]
               THEN late \cup {w} ELSE late
    /\ UNCHANGED <<eventId, nextId, gone>>

(* The write stops halfway.  EventStore.store catches a failed INSERT and  *)
(* only logs it, so a data_first write keeps its rows without an event; a  *)
(* transaction rolls back and leaves a hole in the ids; a crash between    *)
(* the two halves of an event_first write leaves an event without rows.    *)
Abandon(w) ==
    /\ w \notin gone
    /\ \/ Kind[w] = "data_first" /\ w \in data \ events
       \/ Kind[w] = "event_first" /\ eventId[w] # 0 /\ w \notin data
       \/ Kind[w] = "transaction" /\ eventId[w] # 0 /\ w \notin events
    /\ gone' = gone \cup {w}
    /\ UNCHANGED <<data, eventId, events, nextId, late>>

StoreNext ==
    \E w \in Writes : WriteData(w) \/ InsertEvent(w) \/ Commit(w) \/ Abandon(w)

-----------------------------------------------------------------------------
(* Seeded fault: `id > largerThan'.                                        *)
IsMaxRevisionExclusive(largerThan, r) ==
    LET found == {w \in events : eventId[w] > largerThan}
    IN  \/ found = {} /\ r = 0
        \/ /\ \E w \in found : eventId[w] = r
           /\ \A w \in found : eventId[w] <= r

(* EventStore.getMaxRevisionId(largerThan): MAX(id) over the visible       *)
(* events with id >= largerThan, or 0 (`row?.max ?? 0') when there is none.*)
IsMaxRevision(largerThan, r) ==
    LET found == {w \in events : eventId[w] >= largerThan}
    IN  \/ found = {} /\ r = 0
        \/ /\ \E w \in found : eventId[w] = r
           /\ \A w \in found : eventId[w] <= r

(* The rows of one half of the client configuration, as one query reads    *)
(* them: the set of writes they show.                                      *)
Snapshot(part) == {w \in data : Part[w] = part}

(* The writes a revision vouches for: their rows are visible no later than *)
(* their event, and their event was not overtaken by a higher id.          *)
InOrder(w) ==
    /\ Kind[w] \in {"data_first", "transaction"}
    /\ w \in events \ late
=============================================================================
