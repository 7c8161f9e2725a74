----------------------------- MODULE ApiTokens -----------------------------
(***************************************************************************)
(* ApiTokenService: the list of active tokens that one node authenticates  *)
(* with, next to the rows every node writes.  The list is replaced whole by*)
(* fetchActiveTokens, with whatever its query read, and added to by the    *)
(* tokens this node creates and, with queryMissingTokens, by those it looks*)
(* up for a request.  Nothing takes a single token out of it.              *)
(***************************************************************************)
CONSTANTS
    Tokens,         \* the secrets
    Job,            \* the fetch that the scheduler repeats, one at a time
    Early           \* the one of the constructor and of getAllActiveTokens

ASSUME FetchesAssumption == Job # Early

VARIABLES
    rows,           \* the token's row: whether it is there, and has expired
    inserting,      \* tokens inserted here whose list entry is still to come
    active,         \* activeTokens, as a set
    initialized,
    fetches         \* fetchActiveTokens calls: where each is, what it read

tokenVars == <<rows, inserting, active, initialized, fetches>>

Fetches == {Job, Early}
Statuses == {"unborn", "live", "expired", "deleted"}

NotFetching == [phase |-> "idle", read |-> {}]

TokensTypeOK ==
    /\ rows \in [Tokens -> Statuses]
    /\ inserting \subseteq Tokens
    /\ active \subseteq Tokens
    /\ initialized \in BOOLEAN
    /\ fetches \in [Fetches -> [phase : {"idle", "sent", "answered"}, read : SUBSET Tokens]]

(* The constructor's fetch is under way; the rows are what earlier lives of*)
(* the nodes left.                                                         *)
TokensInit ==
    /\ rows \in [Tokens -> Statuses]
    /\ inserting = {}
    /\ active = {}
    /\ initialized = FALSE
    /\ fetches = [f \in Fetches |->
           IF f = Early THEN [NotFetching EXCEPT !.phase = "sent"] ELSE NotFetching]

Live == {k \in Tokens : rows[k] = "live"}
Stored == {k \in Tokens : rows[k] \in {"live", "expired"}}

-----------------------------------------------------------------------------
StartFetch(f) ==
    /\ fetches[f].phase = "idle"
    /\ f = Early => ~initialized
    /\ fetches' = [fetches EXCEPT ![f].phase = "sent"]
    /\ UNCHANGED <<rows, inserting, active, initialized>>

(* getAllActive leaves out what has expired.                               *)
AnswerFetch(f) ==
    /\ fetches[f].phase = "sent"
    /\ fetches' = [fetches EXCEPT ![f] = [phase |-> "answered", read |-> Live]]
    /\ UNCHANGED <<rows, inserting, active, initialized>>

(* Seeded faults: an answer added to the list, an answer taken only once.  *)
AddToList(f) == active \cup fetches[f].read
FirstAnswer(f) == IF initialized THEN active ELSE fetches[f].read

(* The list becomes what the query read, whatever happened since.          *)
NewList(f) == fetches[f].read

FinishFetch(f) ==
    /\ fetches[f].phase = "answered"
    /\ active' = NewList(f)
    /\ initialized' = TRUE
    /\ fetches' = [fetches EXCEPT ![f] = NotFetching]
    /\ UNCHANGED <<rows, inserting>>

(* The query fails, and finally returns as if nothing had happened.        *)
FailFetch(f) ==
    /\ fetches[f].phase = "sent"
    /\ fetches' = [fetches EXCEPT ![f] = NotFetching]
    /\ UNCHANGED <<rows, inserting, active, initialized>>

-----------------------------------------------------------------------------
(* insertNewApiToken: the row, and once the store has returned, the list.  *)
InsertRow(k) ==
    /\ rows[k] = "unborn"
    /\ rows' = [rows EXCEPT ![k] = "live"]
    /\ inserting' = inserting \cup {k}
    /\ UNCHANGED <<active, initialized, fetches>>

PushCreated(k) ==
    /\ k \in inserting
    /\ inserting' = inserting \ {k}
    /\ active' = active \cup {k}
    /\ UNCHANGED <<rows, initialized, fetches>>

(* getUserForToken with queryMissingTokens found the row, expired or not.  *)
PushQueried(k) ==
    /\ active' = active \cup {k}
    /\ UNCHANGED <<rows, inserting, initialized, fetches>>

(* updateExpiry, here or elsewhere, or the time itself: the list is left.  *)
ExpiryChanges(k) ==
    /\ k \in Stored
    /\ rows' = [rows EXCEPT ![k] = IF @ = "live" THEN "expired" ELSE "live"]
    /\ UNCHANGED <<inserting, active, initialized, fetches>>

(* delete, the service's part: the row alone.                              *)
DeleteRow(k) ==
    /\ rows' = [rows EXCEPT ![k] = IF k \in Stored THEN "deleted" ELSE @]
    /\ UNCHANGED <<inserting, active, initialized, fetches>>

(* Another node creates a token.                                           *)
InsertElsewhere(k) ==
    /\ rows[k] = "unborn"
    /\ rows' = [rows EXCEPT ![k] = "live"]
    /\ UNCHANGED <<inserting, active, initialized, fetches>>

-----------------------------------------------------------------------------
(* Whatever fetches overlap with it, a token that stays live comes to be   *)
(* known for good, and a deleted one comes to be unknown for good, within  *)
(* a period of the fetch job: the list is only ever late.                  *)
LiveKnown == \A k \in Tokens : <>[](k \in Live) => <>[](k \in active)
DeletedForgotten == \A k \in Tokens : <>[](rows[k] = "deleted" => k \notin active)
=============================================================================
