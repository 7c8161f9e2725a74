--------------------------- MODULE MCClientMetrics ---------------------------
(* The constants of ClientMetrics are numbers and model values.            *)
EXTENDS ClientMetrics
=============================================================================
