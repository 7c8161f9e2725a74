---------------- MODULE MCProxyRepository ----------------
(* ProxyRepository on small instances. *)
EXTENDS ProxyRepository, MCFrontendCaches
=============================================================================
