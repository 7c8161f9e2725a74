---------------------------- MODULE MCScheduler ----------------------------
(* A job of each kind: j has a jitter, and returns its promise; b neither. *)
EXTENDS Scheduler

CONSTANTS j, b

JobPassages == {<<j, 1>>, <<j, 2>>, <<b, 1>>}
=============================================================================
