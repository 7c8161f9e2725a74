-------------------------- MODULE FrontendClients --------------------------
(***************************************************************************)
(* FrontendApiService's clients, one per token, each with a ProxyRepository*)
(* that polls until its client is destroyed; with the requests that create *)
(* them and the two delete handlers of API tokens, which delete the row and*)
(* then the client.  The list of ApiTokens lets requests in.               *)
(***************************************************************************)
EXTENDS ApiTokens, Naturals

CONSTANTS
    Requests,       \* bound: frontend API requests under way at once
    Deleters,       \* bound: delete requests under way at once
    QueryMissing    \* the flag queryMissingTokens

ASSUME QueryMissingAssumption == QueryMissing \in BOOLEAN
ASSUME NoneAssumption == "none" \notin Tokens

VARIABLES
    requests, deleters,     \* where each is, and its token
    clients,                \* this.clients: the entry of each token
    undestroyed,            \* how many clients of each token still poll
    late                    \* history: see Orphans

clientVars == <<requests, deleters, clients, undestroyed, late>>
vars == <<tokenVars, clientVars>>

Nobody == [phase |-> "idle", token |-> "none"]
Calls(phases) == [phase : phases, token : Tokens \cup {"none"}]

TypeOK ==
    /\ TokensTypeOK
    /\ requests \in [Requests -> Calls({"idle", "asking", "found", "admitted", "waiting"})]
    /\ deleters \in [Deleters -> Calls({"idle", "allowed", "rowGone", "waiting"})]
    /\ clients \in [Tokens -> {"none", "starting", "running"}]
    /\ undestroyed \in [Tokens -> Nat]
    /\ late \subseteq Tokens

Init ==
    /\ TokensInit
    /\ requests = [r \in Requests |-> Nobody]
    /\ deleters = [d \in Deleters |-> Nobody]
    /\ clients = [k \in Tokens |-> "none"]
    /\ undestroyed = [k \in Tokens |-> 0]
    /\ late = {}

BeingDeleted(k) == \E d \in Deleters : deleters[d].token = k

Move(r, phase, k) == requests' = [requests EXCEPT ![r] = [phase |-> phase, token |-> k]]
MoveDeleter(d, phase, k) == deleters' = [deleters EXCEPT ![d] = [phase |-> phase, token |-> k]]

-----------------------------------------------------------------------------
(* getUserForToken: the list knows the token, or the table is asked.       *)
Admit(r, k) ==
    /\ requests[r] = Nobody
    /\ k \in active
    /\ Move(r, "admitted", k)
    /\ UNCHANGED <<tokenVars, deleters, clients, undestroyed, late>>

AskTable(r, k) ==
    /\ QueryMissing
    /\ requests[r] = Nobody
    /\ k \notin active
    /\ Move(r, "asking", k)
    /\ UNCHANGED <<tokenVars, deleters, clients, undestroyed, late>>

(* Not there, or the query failed: the request is refused.                 *)
TableAnswers(r) ==
    LET k == requests[r].token IN
    /\ requests[r].phase = "asking"
    /\ \/ k \in Stored /\ Move(r, "found", k)
       \/ requests' = [requests EXCEPT ![r] = Nobody]
    /\ UNCHANGED <<tokenVars, deleters, clients, undestroyed, late>>

AdmitFound(r) ==
    /\ requests[r].phase = "found"
    /\ PushQueried(requests[r].token)
    /\ Move(r, "admitted", requests[r].token)
    /\ UNCHANGED <<deleters, clients, undestroyed, late>>

(* Seeded fault: the entry set when the client has started, not before.    *)
LateEntry(k) == [clients EXCEPT ![k] = "none"]

Entered(k) == [clients EXCEPT ![k] = "starting"]

(* clientForFrontendApiToken: the entry is set before anything is awaited, *)
(* so that the requests of one token share a client.                       *)
GetClient(r) ==
    LET k == requests[r].token IN
    /\ requests[r].phase = "admitted"
    /\ IF clients[k] = "none"
       THEN /\ clients' = Entered(k)
            /\ undestroyed' = [undestroyed EXCEPT ![k] = @ + 1]
            /\ late' = IF rows[k] = "deleted" /\ ~BeingDeleted(k) THEN late \cup {k} ELSE late
       ELSE UNCHANGED <<clients, undestroyed, late>>
    /\ IF clients[k] = "running"
       THEN requests' = [requests EXCEPT ![r] = Nobody]
       ELSE Move(r, "waiting", k)
    /\ UNCHANGED <<tokenVars, deleters>>

-----------------------------------------------------------------------------
(* A delete handler has found the token (getToken, the permission).        *)
DeleteAllowed(d, k) ==
    /\ deleters[d] = Nobody
    /\ k \in Stored
    /\ MoveDeleter(d, "allowed", k)
    /\ UNCHANGED <<tokenVars, requests, clients, undestroyed, late>>

DeleteTheRow(d) ==
    /\ deleters[d].phase = "allowed"
    /\ DeleteRow(deleters[d].token)
    /\ MoveDeleter(d, "rowGone", deleters[d].token)
    /\ UNCHANGED <<requests, clients, undestroyed, late>>

(* destroy, and the entry taken out, for a client that has started.        *)
Destroyed(k) ==
    /\ clients' = [clients EXCEPT ![k] = "none"]
    /\ undestroyed' = [undestroyed EXCEPT ![k] = @ - 1]

(* Seeded faults: the entry not looked for, and a client that has not      *)
(* started overlooked.                                                     *)
DeleteUnguarded(d) ==
    LET k == deleters[d].token IN
    /\ deleters[d].phase = "rowGone"
    /\ deleters' = [deleters EXCEPT ![d] = Nobody]
    /\ Destroyed(k)
    /\ UNCHANGED <<tokenVars, requests, late>>

DeleteStartedClient(d) ==
    LET k == deleters[d].token IN
    /\ deleters[d].phase = "rowGone"
    /\ deleters' = [deleters EXCEPT ![d] = Nobody]
    /\ IF clients[k] = "running" THEN Destroyed(k) ELSE UNCHANGED <<clients, undestroyed>>
    /\ UNCHANGED <<tokenVars, requests, late>>

(* deleteClientForFrontendApiToken: nothing to do, at once, or as soon as  *)
(* the client has started.                                                 *)
DeleteClient(d) ==
    LET k == deleters[d].token IN
    /\ deleters[d].phase = "rowGone"
    /\ IF clients[k] = "starting"
       THEN MoveDeleter(d, "waiting", k)
       ELSE deleters' = [deleters EXCEPT ![d] = Nobody]
    /\ IF clients[k] = "running" THEN Destroyed(k) ELSE UNCHANGED <<clients, undestroyed>>
    /\ UNCHANGED <<tokenVars, requests, late>>

(* start resolves: the requests that wait are answered, the deletions that *)
(* wait destroy the client.                                                *)
ClientStarts(k) ==
    LET waits(c) == c.phase = "waiting" /\ c.token = k
        doomed == \E d \in Deleters : waits(deleters[d])
    IN
    /\ clients[k] = "starting"
    /\ IF doomed
       THEN Destroyed(k)
       ELSE clients' = [clients EXCEPT ![k] = "running"] /\ UNCHANGED undestroyed
    /\ requests' = [r \in Requests |-> IF waits(requests[r]) THEN Nobody ELSE requests[r]]
    /\ deleters' = [d \in Deleters |-> IF waits(deleters[d]) THEN Nobody ELSE deleters[d]]
    /\ UNCHANGED <<tokenVars, late>>

(* A delete handler on another node: its own clients are none of ours.     *)
DeletedElsewhere(k) ==
    /\ k \in Stored
    /\ DeleteRow(k)
    /\ late' = late \cup {k}
    /\ UNCHANGED <<requests, deleters, clients, undestroyed>>

TokenStep ==
    /\ \/ \E f \in Fetches : StartFetch(f) \/ AnswerFetch(f) \/ FinishFetch(f) \/ FailFetch(f)
       \/ \E k \in Tokens : InsertRow(k) \/ PushCreated(k) \/ ExpiryChanges(k) \/ InsertElsewhere(k)
    /\ UNCHANGED clientVars

Next ==
    \/ TokenStep
    \/ \E k \in Tokens : ClientStarts(k) \/ DeletedElsewhere(k)
    \/ \E r \in Requests : \/ TableAnswers(r) \/ AdmitFound(r) \/ GetClient(r)
                           \/ \E k \in Tokens : Admit(r, k) \/ AskTable(r, k)
    \/ \E d \in Deleters : \/ DeleteTheRow(d) \/ DeleteClient(d)
                           \/ \E k \in Tokens : DeleteAllowed(d, k)

Spec == Init /\ [][Next]_vars

(* Fairness: the job repeats and does not fail for ever, answers arrive,   *)
(* handlers go on, and a client's start resolves, since loadDataForToken   *)
(* catches every error.  Nothing is assumed of requests or of writes.      *)
Fairness ==
    /\ WF_vars(StartFetch(Job) /\ UNCHANGED clientVars)
    /\ \A f \in Fetches :
           SF_vars((AnswerFetch(f) \/ FinishFetch(f)) /\ UNCHANGED clientVars)
    /\ \A k \in Tokens : /\ WF_vars(PushCreated(k) /\ UNCHANGED clientVars)
                         /\ WF_vars(ClientStarts(k))
    /\ \A r \in Requests : WF_vars(TableAnswers(r) \/ AdmitFound(r) \/ GetClient(r))
    /\ \A d \in Deleters : WF_vars(DeleteTheRow(d) \/ DeleteClient(d))

FairSpec == Spec /\ Fairness

-----------------------------------------------------------------------------
(* However requests and deletions cross, a token has at most one client    *)
(* that polls, and none that its entry does not name: a client out of the  *)
(* map is never left running (the test "multiple parallel calls to         *)
(* api/frontend should not create multiple instances").                    *)
OneClient ==
    \A k \in Tokens : undestroyed[k] = IF clients[k] = "none" THEN 0 ELSE 1

(* When a token has been deleted its client is gone, a client that was     *)
(* still starting included; unless another node deleted it, or a request   *)
(* that the list let in came after the deletion and created a client anew. *)
Orphans ==
    \A k \in Tokens :
        rows[k] = "deleted" /\ clients[k] # "none" => BeingDeleted(k) \/ k \in late

(* Every request and every deletion returns, those that wait for a client  *)
(* that another one starts or destroys included.                           *)
CallsReturn ==
    /\ \A r \in Requests : []<>(requests[r] = Nobody)
    /\ \A d \in Deleters : []<>(deleters[d] = Nobody)
=============================================================================
