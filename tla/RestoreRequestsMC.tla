------------------------- MODULE RestoreRequestsMC --------------------------
(* RestoreRequests for TLC: requests, and handlers, are interchangeable.   *)
EXTENDS RestoreRequests, TLC

RestoreSymmetry == Permutations(Requests) \union Permutations(Handlers)
=============================================================================
