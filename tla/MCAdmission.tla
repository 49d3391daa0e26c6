----------------------------- MODULE MCAdmission ------------------------------
(* An instance of Admission for TLC: two models behind one global gate; the  *)
(* environment fixes the policy of one, gateway.json that of the other.      *)
EXTENDS Admission, TLC

CONSTANTS r1, r2, r3, r4, busy, other, none

MCRequests == {r1, r2, r3, r4}
MCThree == {r1, r2, r3}

(* Two slots overall; one slot and a queue of one per model, or two of each: *)
(* a model fills its own gate first, two models together fill the global one.*)
MCGlobal == [max_inflight |-> 2, max_queue |-> 2]
MCModel == [max_inflight |-> 1, max_queue |-> 1]

MCKeys == {busy, other}
MCPolicies == {MCGlobal, MCModel}
MCEnv == [k \in MCKeys |-> IF k = other THEN MCModel ELSE none]
=============================================================================
