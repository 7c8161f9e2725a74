------------------------- MODULE MCFrontendClients -------------------------
(* The constants of FrontendClients are model values: see Tokens.cfg.      *)
EXTENDS FrontendClients
=============================================================================
