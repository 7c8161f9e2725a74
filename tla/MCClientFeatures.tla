-------------------------- MODULE MCClientFeatures --------------------------
(* ClientFeatures on small instances: two writes, up to two SDKs.          *)
EXTENDS ClientFeatures, TLC

CONSTANTS w1, w2, c1, c2

(* Two writes of the kinds a revision vouches for, one per half of the     *)
(* configuration.  The event of the transaction may be overtaken.          *)
InOrderKinds == w1 :> "data_first" @@ w2 :> "transaction"
PairParts == w1 :> "features" @@ w2 :> "segments"

(* A write of another kind that an ordinary one follows or accompanies.    *)
EventFirstKinds == w1 :> "event_first" @@ w2 :> "data_first"

(* Clients are interchangeable where no liveness is checked.               *)
ClientSymmetry == Permutations({c1, c2})
=============================================================================
