----------------------- MODULE MCProviderQueryManager -----------------------
(* Requests that share a key, one of which may restart the query that      *)
(* another one cancelled.                                                  *)
EXTENDS ProviderQueryManager, TLC

Symmetry == Permutations(Requests) \cup Permutations(Workers)
=============================================================================
