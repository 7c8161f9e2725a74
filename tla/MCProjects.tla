----------------------------- MODULE MCProjects -----------------------------
(* Projects on a small instance: callers are interchangeable.              *)
EXTENDS Projects, TLC

(* Nothing more is learnt once a rule may be broken: the run stops there.  *)
Undisturbed == disturbed = {}

CallerSymmetry == Permutations(Callers)
=============================================================================
