-------------------------------- MODULE MCBackend --------------------------------
(* An instance of Backend for TLC: two requests, of either kind each, share  *)
(* a response queue with room for one response.                              *)
EXTENDS Backend, TLC

CONSTANTS r1, r2

MCRequests == {r1, r2}
=============================================================================
