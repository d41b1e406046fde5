--------------------------- MODULE MCProxyHandler ---------------------------
(* A small instance of ProxyHandler. *)
EXTENDS ProxyHandler

CONSTANTS c1, c2
=============================================================================
