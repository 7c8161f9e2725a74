-------------------------- MODULE MCFrontendCaches --------------------------
(* The writes of the frontend cache instances: two, of chosen kinds.       *)
EXTENDS TLC

CONSTANTS w1, w2

(* Writes a revision vouches for, and writes that it may miss.             *)
OrderedKinds == w1 :> "data_first" @@ w2 :> "transaction"
MissedKinds == w1 :> "event_first" @@ w2 :> "silent"
PairParts == w1 :> "features" @@ w2 :> "segments"
=============================================================================
