------------------------ MODULE MCDontHaveTimeoutMgr ------------------------
(* Two wants, so that one is added while the other waits, and room in the  *)
(* queue for a cancelled entry in front of both.                           *)
EXTENDS DontHaveTimeoutMgr
=============================================================================
