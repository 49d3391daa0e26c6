----------------------------- MODULE MCOutputStream -----------------------------
(* OutputStream for TLC: what a model may write between its reasoning tags.  *)
EXTENDS OutputStream

MCRequests ==
  {[words |-> {"w", "nl", "user", "assistant"}, most |-> 4, parser |-> "none", mode |-> "disabled",
    metadata |-> TRUE],
   [words |-> {"w", "op", "en", "cl", "ose"}, most |-> 5, parser |-> "tags", mode |-> "disabled",
    metadata |-> TRUE]}
=============================================================================
