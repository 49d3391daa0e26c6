----------------------------- MODULE MCGeneration ------------------------------
(* An instance of Generation for TLC: a streamed chat, a response and a plain*)
(* request compete for the one slot of a model.                              *)
EXTENDS Generation, TLC

CONSTANTS chat, responses, embed

MCThree == {chat, responses, embed}
MCKindThree == (chat :> "chat") @@ (responses :> "responses") @@ (embed :> "plain")

MCSmall == {<<"small", [max_inflight |-> 1, max_queue |-> 1]>>}
MCGlobal == <<"global", [max_inflight |-> 2, max_queue |-> 2]>>
=============================================================================
