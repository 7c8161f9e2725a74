------------------------- MODULE RevisionInvariants -------------------------
(***************************************************************************)
(* What holds of the configuration rows, their events and the revision,    *)
(* whoever reads them: what the proofs about the readers of the revision   *)
(* have in common.  No number that a node ever handles as a revision       *)
(* exceeds every visible event id.                                         *)
(***************************************************************************)
EXTENDS RevisionService

Vouched(r) == r = 0 \/ \E v \in events : eventId[v] >= r

(* Ids are distinct and below the sequence; rows come no later than their  *)
(* event, except for the event_first writes.                               *)
StoreInv ==
    /\ \A w \in Writes : eventId[w] < nextId
    /\ \A v, w \in Writes : eventId[v] # 0 /\ eventId[v] = eventId[w] => v = w
    /\ \A w \in events : eventId[w] # 0
    /\ \A w \in Writes : Kind[w] = "data_first" /\ eventId[w] # 0 => w \in data
    /\ \A w \in events : Kind[w] \in {"data_first", "transaction"} => w \in data

RevisionInv ==
    /\ Vouched(revisionId)
    /\ \A c \in Callers :
           /\ Vouched(calls[c].largerThan)
           /\ Vouched(calls[c].answer)
           /\ calls[c].phase = "answered" => calls[c].answer >= calls[c].largerThan
=============================================================================
