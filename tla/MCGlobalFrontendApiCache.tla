---------------- MODULE MCGlobalFrontendApiCache ----------------
(* GlobalFrontendApiCache on small instances. *)
EXTENDS GlobalFrontendApiCache, MCFrontendCaches
=============================================================================
