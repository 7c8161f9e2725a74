----------------------- MODULE FrontendClients_proofs -----------------------
(***************************************************************************)
(* For every set of tokens, requests and delete handlers: a token has at   *)
(* most one client that polls, and a deleted token's client goes.  Both    *)
(* rest on types that are finer than TypeOK: a call that is under way has  *)
(* a token.                                                                *)
(***************************************************************************)
EXTENDS FrontendClients, TLAPS

(* A call that is under way has a token of the instance.                   *)
HaveTokens ==
    /\ \A r \in Requests : requests[r].phase # "idle" => requests[r].token \in Tokens
    /\ \A d \in Deleters : deleters[d].phase # "idle" => deleters[d].token \in Tokens

Inv == TypeOK /\ HaveTokens /\ OneClient /\ Orphans

-----------------------------------------------------------------------------
(* The steps of the token list leave clients and calls alone, and no token *)
(* is deleted by them.                                                     *)
LEMMA TokenSteps ==
    ASSUME Inv, TokenStep
    PROVE  Inv'
<1> USE DEF Inv, TypeOK, TokensTypeOK, HaveTokens, OneClient, Orphans, BeingDeleted,
            Fetches, Statuses, NotFetching, Calls
<1>c. UNCHANGED clientVars  BY DEF TokenStep
<1>1. ASSUME NEW f \in Fetches, StartFetch(f)  PROVE Inv'
  BY <1>1, <1>c DEF StartFetch, clientVars
<1>2. ASSUME NEW f \in Fetches, AnswerFetch(f)  PROVE Inv'
  BY <1>2, <1>c DEF AnswerFetch, Live, clientVars
<1>3. ASSUME NEW f \in Fetches, FinishFetch(f)  PROVE Inv'
  BY <1>3, <1>c DEF FinishFetch, NewList, clientVars
<1>4. ASSUME NEW f \in Fetches, FailFetch(f)  PROVE Inv'
  BY <1>4, <1>c DEF FailFetch, clientVars
<1>5. ASSUME NEW k \in Tokens, InsertRow(k)  PROVE Inv'
  BY <1>5, <1>c DEF InsertRow, clientVars
<1>6. ASSUME NEW k \in Tokens, PushCreated(k)  PROVE Inv'
  BY <1>6, <1>c DEF PushCreated, clientVars
<1>7. ASSUME NEW k \in Tokens, ExpiryChanges(k)  PROVE Inv'
  BY <1>7, <1>c DEF ExpiryChanges, Stored, clientVars
<1>8. ASSUME NEW k \in Tokens, InsertElsewhere(k)  PROVE Inv'
  BY <1>8, <1>c DEF InsertElsewhere, clientVars
<1> QED  BY <1>1, <1>2, <1>3, <1>4, <1>5, <1>6, <1>7, <1>8 DEF TokenStep

(* The steps of requests: only GetClient touches the clients.              *)
LEMMA RequestSteps ==
    ASSUME Inv, NEW r \in Requests,
           \/ TableAnswers(r) \/ AdmitFound(r) \/ GetClient(r)
           \/ \E k \in Tokens : Admit(r, k) \/ AskTable(r, k)
    PROVE  Inv'
<1> USE DEF Inv, TypeOK, HaveTokens, OneClient, Orphans, BeingDeleted, Calls, Nobody, Move
<1>1. CASE TableAnswers(r)
  BY <1>1 DEF TableAnswers, tokenVars, TokensTypeOK, Stored
<1>2. CASE AdmitFound(r)
  BY <1>2 DEF AdmitFound, PushQueried, TokensTypeOK
<1>3. CASE GetClient(r)
  <2> DEFINE k == requests[r].token
  <2>1. k \in Tokens  BY <1>3 DEF GetClient
  <2>2. TokensTypeOK'  BY <1>3 DEF GetClient, tokenVars, TokensTypeOK
  <2>3. requests' \in [Requests -> Calls({"idle", "asking", "found", "admitted", "waiting"})]
    BY <1>3, <2>1 DEF GetClient
  <2>4. HaveTokens'  BY <1>3, <2>1 DEF GetClient
  <2>5. CASE clients[k] = "none"
    <3>1. /\ clients' = [clients EXCEPT ![k] = "starting"]
          /\ undestroyed' = [undestroyed EXCEPT ![k] = @ + 1]
          /\ late' = IF rows[k] = "deleted" /\ ~BeingDeleted(k) THEN late \cup {k} ELSE late
      BY <1>3, <2>5 DEF GetClient, Entered
    <3>2. undestroyed[k] = 0  BY <2>1, <2>5
    <3>3. TypeOK'  BY <1>3, <2>1, <2>2, <2>3, <3>1, <3>2 DEF GetClient
    <3>4. OneClient'  BY <2>1, <3>1, <3>2
    <3>5. Orphans'  BY <1>3, <2>1, <3>1 DEF GetClient, tokenVars
    <3> QED  BY <2>4, <3>3, <3>4, <3>5
  <2>6. CASE clients[k] # "none"
    BY <1>3, <2>2, <2>3, <2>4, <2>6 DEF GetClient, tokenVars
  <2> QED  BY <2>5, <2>6
<1>4. ASSUME NEW k \in Tokens, Admit(r, k)  PROVE Inv'
  BY <1>4 DEF Admit, tokenVars, TokensTypeOK
<1>5. ASSUME NEW k \in Tokens, AskTable(r, k)  PROVE Inv'
  BY <1>5 DEF AskTable, tokenVars, TokensTypeOK
<1> QED  BY <1>1, <1>2, <1>3, <1>4, <1>5

(* The steps of a delete handler: it lets go of its token only when the    *)
(* client it has found is gone.                                            *)
LEMMA DeleterSteps ==
    ASSUME Inv, NEW d \in Deleters,
           DeleteTheRow(d) \/ DeleteClient(d) \/ \E k \in Tokens : DeleteAllowed(d, k)
    PROVE  Inv'
<1> USE DEF Inv, TypeOK, HaveTokens, OneClient, Orphans, BeingDeleted, Calls, Nobody,
            MoveDeleter
<1>1. CASE DeleteTheRow(d)
  <2>1. deleters[d].token \in Tokens  BY <1>1 DEF DeleteTheRow
  <2>2. TokensTypeOK'  BY <1>1, <2>1 DEF DeleteTheRow, DeleteRow, TokensTypeOK, Statuses
  <2> QED  BY <1>1, <2>1, <2>2 DEF DeleteTheRow, DeleteRow, Stored, TokensTypeOK
<1>2. CASE DeleteClient(d)
  <2> DEFINE k == deleters[d].token
  <2>1. k \in Tokens  BY <1>2 DEF DeleteClient
  <2>2. TokensTypeOK'  BY <1>2 DEF DeleteClient, tokenVars, TokensTypeOK
  <2>3. deleters' \in [Deleters -> Calls({"idle", "allowed", "rowGone", "waiting"})]
    BY <1>2, <2>1 DEF DeleteClient
  <2>4. HaveTokens'  BY <1>2, <2>1 DEF DeleteClient
  <2>5. CASE clients[k] = "running"
    <3>1. /\ clients' = [clients EXCEPT ![k] = "none"]
          /\ undestroyed' = [undestroyed EXCEPT ![k] = @ - 1]
      BY <1>2, <2>5 DEF DeleteClient, Destroyed
    <3>2. undestroyed[k] = 1  BY <2>1, <2>5
    <3>3. TypeOK'  BY <1>2, <2>1, <2>2, <2>3, <3>1, <3>2 DEF DeleteClient
    <3>4. OneClient'  BY <2>1, <3>1, <3>2
    <3>5. Orphans'  BY <1>2, <2>1, <2>5, <3>1 DEF DeleteClient, tokenVars
    <3> QED  BY <2>4, <3>3, <3>4, <3>5
  <2>6. CASE clients[k] # "running"
    <3>1. UNCHANGED <<clients, undestroyed, late, tokenVars, requests>>
      BY <1>2, <2>6 DEF DeleteClient
    <3>2. TypeOK' /\ OneClient'  BY <2>2, <2>3, <3>1
    <3>3. ASSUME NEW j \in Tokens, rows[j] = "deleted", clients[j] # "none"
          PROVE  BeingDeleted(j)' \/ j \in late
      <4>1. CASE j \in late  BY <4>1
      <4>2. CASE j = k
        BY <1>2, <2>1, <2>6, <3>3, <4>2 DEF DeleteClient
      <4>3. CASE j # k /\ j \notin late
        <5>1. PICK e \in Deleters : deleters[e].token = j  BY <3>3, <4>3
        <5> QED  BY <1>2, <4>3, <5>1 DEF DeleteClient
      <4> QED  BY <4>1, <4>2, <4>3
    <3> QED  BY <2>4, <3>1, <3>2, <3>3 DEF tokenVars
  <2> QED  BY <2>5, <2>6
<1>3. ASSUME NEW k \in Tokens, DeleteAllowed(d, k)  PROVE Inv'
  <2>1. deleters' = [deleters EXCEPT ![d] = [phase |-> "allowed", token |-> k]]
    BY <1>3 DEF DeleteAllowed
  <2>2. UNCHANGED <<tokenVars, requests, clients, undestroyed, late>>
    BY <1>3 DEF DeleteAllowed
  <2>3. deleters' \in [Deleters -> Calls({"idle", "allowed", "rowGone", "waiting"})]
    BY <2>1
  <2>4. TypeOK'  BY <2>2, <2>3 DEF tokenVars, TokensTypeOK
  <2>5. HaveTokens' /\ OneClient'  BY <2>1, <2>2
  <2>6. ASSUME NEW j \in Tokens, BeingDeleted(j)  PROVE BeingDeleted(j)'
    <3>1. PICK e \in Deleters : deleters[e].token = j  BY <2>6
    <3>2. e # d  BY <1>3, <3>1, NoneAssumption DEF DeleteAllowed
    <3> QED  BY <2>1, <3>1, <3>2
  <2>7. Orphans'
    <3> SUFFICES ASSUME NEW j \in Tokens, rows[j] = "deleted", clients[j] # "none"
                 PROVE  BeingDeleted(j)' \/ j \in late
      BY <2>2 DEF tokenVars
    <3>1. BeingDeleted(j) \/ j \in late  OBVIOUS
    <3> QED  BY <2>6, <3>1
  <2> QED  BY <2>4, <2>5, <2>7
<1> QED  BY <1>1, <1>2, <1>3

(* A start that resolves lets every call that waits for it go at once, and *)
(* destroys the client if one of them deletes it.                          *)
LEMMA StartSteps ==
    ASSUME Inv, NEW k \in Tokens, ClientStarts(k)
    PROVE  Inv'
<1> USE DEF Inv, TypeOK, HaveTokens, OneClient, Orphans, BeingDeleted, Calls, Nobody
<1> DEFINE waits(c) == c.phase = "waiting" /\ c.token = k
           doomed == \E d \in Deleters : waits(deleters[d])
<1>1. /\ clients[k] = "starting"
      /\ requests' = [r \in Requests |-> IF waits(requests[r]) THEN Nobody ELSE requests[r]]
      /\ deleters' = [d \in Deleters |-> IF waits(deleters[d]) THEN Nobody ELSE deleters[d]]
      /\ UNCHANGED <<tokenVars, late>>
  BY DEF ClientStarts
<1>2. TokensTypeOK'  BY <1>1 DEF tokenVars, TokensTypeOK
<1>3. undestroyed[k] = 1  BY <1>1
<1>4. /\ requests' \in [Requests -> Calls({"idle", "asking", "found", "admitted", "waiting"})]
      /\ deleters' \in [Deleters -> Calls({"idle", "allowed", "rowGone", "waiting"})]
      /\ HaveTokens'
  BY <1>1
<1>5. ASSUME NEW j \in Tokens, j # k, BeingDeleted(j)  PROVE BeingDeleted(j)'
  <2>1. PICK d \in Deleters : deleters[d].token = j  BY <1>5
  <2> QED  BY <1>1, <1>5, <2>1
<1>6. CASE doomed
  <2>1. /\ clients' = [clients EXCEPT ![k] = "none"]
        /\ undestroyed' = [undestroyed EXCEPT ![k] = @ - 1]
    BY <1>6 DEF ClientStarts, Destroyed
  <2>2. TypeOK' /\ OneClient'  BY <1>1, <1>2, <1>3, <1>4, <2>1
  <2>3. Orphans'  BY <1>1, <1>5, <2>1 DEF tokenVars
  <2> QED  BY <1>4, <2>2, <2>3
<1>7. CASE ~doomed
  <2>1. /\ clients' = [clients EXCEPT ![k] = "running"]
        /\ undestroyed' = undestroyed
    BY <1>7 DEF ClientStarts
  <2>2. TypeOK' /\ OneClient'  BY <1>1, <1>2, <1>3, <1>4, <2>1
  <2>3. \A d \in Deleters : deleters'[d] = deleters[d]  BY <1>1, <1>7
  <2>4. Orphans'
    <3> SUFFICES ASSUME NEW j \in Tokens, rows[j] = "deleted", clients'[j] # "none"
                 PROVE  BeingDeleted(j)' \/ j \in late
      BY <1>1 DEF tokenVars
    <3>1. clients[j] # "none"  BY <1>1, <2>1
    <3>2. BeingDeleted(j) \/ j \in late  BY <3>1
    <3> QED  BY <2>3, <3>2
  <2> QED  BY <1>4, <2>2, <2>4
<1> QED  BY <1>6, <1>7

(* A token deleted by another node is late from then on.                   *)
LEMMA ElsewhereSteps ==
    ASSUME Inv, NEW k \in Tokens, DeletedElsewhere(k)
    PROVE  Inv'
<1> USE DEF Inv, TypeOK, HaveTokens, OneClient, Orphans, BeingDeleted
<1>1. TokensTypeOK'
  BY DEF DeletedElsewhere, DeleteRow, TokensTypeOK, Statuses
<1> QED  BY <1>1 DEF DeletedElsewhere, DeleteRow, TokensTypeOK

(* The invariant holds of what the nodes' earlier lives left, and is       *)
(* inductive.                                                              *)
LEMMA Initially == Init => Inv
<1> SUFFICES ASSUME Init PROVE Inv  OBVIOUS
<1>1. TokensTypeOK
  BY FetchesAssumption DEF Init, TokensInit, TokensTypeOK, Fetches, NotFetching, Statuses
<1> QED
  BY <1>1 DEF Init, Inv, TypeOK, HaveTokens, OneClient, Orphans, Nobody, Calls

LEMMA Inductive == Inv /\ [Next]_vars => Inv'
<1> SUFFICES ASSUME Inv, [Next]_vars PROVE Inv'  OBVIOUS
<1>1. CASE TokenStep  BY <1>1, TokenSteps
<1>2. ASSUME NEW k \in Tokens, ClientStarts(k) \/ DeletedElsewhere(k)  PROVE Inv'
  BY <1>2, StartSteps, ElsewhereSteps
<1>3. ASSUME NEW r \in Requests,
             \/ TableAnswers(r) \/ AdmitFound(r) \/ GetClient(r)
             \/ \E k \in Tokens : Admit(r, k) \/ AskTable(r, k)
      PROVE  Inv'
  BY <1>3, RequestSteps
<1>4. ASSUME NEW d \in Deleters,
             DeleteTheRow(d) \/ DeleteClient(d) \/ \E k \in Tokens : DeleteAllowed(d, k)
      PROVE  Inv'
  BY <1>4, DeleterSteps
<1>5. CASE UNCHANGED vars
  BY <1>5 DEF vars, clientVars, tokenVars, Inv, TypeOK, TokensTypeOK, HaveTokens, OneClient,
              Orphans, BeingDeleted
<1> QED  BY <1>1, <1>2, <1>3, <1>4, <1>5 DEF Next

-----------------------------------------------------------------------------
(* ApiTokenService and FrontendApiService keep their maps well formed,     *)
(* whatever requests, deletions and fetches overlap.                       *)
THEOREM FrontendClientsTypeOK == Spec => []TypeOK
<1>1. Inv => TypeOK  BY DEF Inv
<1> QED  BY <1>1, Initially, Inductive, PTL DEF Spec

(* A token never has two clients that poll, nor one that its entry in      *)
(* this.clients does not name (frontend-api-service.ts, clients).          *)
THEOREM AtMostOneClient == Spec => []OneClient
<1>1. Inv => OneClient  BY DEF Inv
<1> QED  BY <1>1, Initially, Inductive, PTL DEF Spec

(* Once a token has been deleted here and its handler has returned, it has *)
(* no client, unless a request let in by the list made one afterwards.     *)
THEOREM DeletedTokensLoseTheirClient == Spec => []Orphans
<1>1. Inv => Orphans  BY DEF Inv
<1> QED  BY <1>1, Initially, Inductive, PTL DEF Spec
=============================================================================
