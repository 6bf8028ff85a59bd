--------------------------- MODULE MCSessionManager -------------------------
(* Sessions that share one want; the wants do not depend on each other.    *)
EXTENDS SessionManager
=============================================================================
