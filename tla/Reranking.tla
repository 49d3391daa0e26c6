------------------------------- MODULE Reranking -------------------------------
(***************************************************************************)
(* A rerank request (rerank in src/gateway/app.py): the plan of its        *)
(* batches and the choice of its documents (rerank.py,                     *)
(* rerank_strategies.py), around calls to Triton that are awaited in turn. *)
(*                                                                         *)
(* A document is what the code looks at: its words and its metadata.       *)
(* Scores and thresholds are integers, similarities percentages; None      *)
(* stands for a field that is absent.  Triton scores every document it is  *)
(* given, loses some of the scores, or fails.                              *)
(***************************************************************************)
EXTENDS Integers, Sequences, FiniteSets, SequencesExt

CONSTANTS
  Requests,   \* documents, size, length, cap, strategy, parameters, both, normalized away
  Configs,    \* gateway.json: execution limits, default, strategies, database
  Databases,  \* what the strategy database gives: rows, or NoRows when it cannot be read
  Scores,
  None, NoRows

VARIABLES
  asked,     \* the request, gateway.json and the database
  at,        \* where the handler is, or the status it answered with
  plan,      \* RerankExecutionPlan
  strategy,  \* RerankStrategy
  scores,    \* scores received, in order
  given,     \* history: the score Triton gave to each document
  results

vars == <<asked, at, plan, strategy, scores, given, results>>

Numeric(parameters) ==
  \A p \in {"top_n", "threshold"} \cap DOMAIN parameters : parameters[p] \in Int

RerankAssumption ==
  /\ \A r \in Requests : /\ Len(r.documents) \in Nat /\ Numeric(r.parameters)
                         /\ {r.length, r.size, r.cap} \subseteq Int \cup {None}
  /\ \A c \in Configs : /\ {c.length, c.size, c.maxSize, c.batchTokens} \subseteq Int
                        /\ \A n \in DOMAIN c.strategies : Numeric(c.strategies[n].parameters)
  /\ \A b \in Databases \ {NoRows} : \A n \in DOMAIN b : Numeric(b[n].parameters)
  /\ None \notin Scores /\ Scores \subseteq Int
-----------------------------------------------------------------------------
Documents == asked.request.documents
Empty == [x \in {} |-> None]
Builtin == {"top_n", "score_threshold", "top_n_and_threshold", "metadata_filter", "diversity"}

Allowed(m) == CASE m = "top_n"           -> {"top_n"}
                [] m = "metadata_filter" -> {"filter", "threshold", "top_n"}
                [] m = "diversity"       -> {"similarity", "threshold", "top_n"}
                [] OTHER                 -> {"threshold", "top_n"}

Required(m) == CASE m = "score_threshold"     -> {"threshold"}
                 [] m = "top_n_and_threshold" -> {"threshold", "top_n"}
                 [] m = "metadata_filter"     -> {"filter"}
                 [] OTHER                     -> {}

Init ==
  /\ asked \in [request : Requests, config : Configs, database : Databases]
  /\ at = "plan"
  /\ plan = [size |-> 0, length |-> 0]
  /\ strategy = [method |-> None, parameters |-> Empty]
  /\ scores = <<>> /\ results = <<>>
  /\ given = [d \in 1..Len(Documents) |-> None]

Refuse(status) == at' = status /\ UNCHANGED <<asked, plan, strategy, scores, given, results>>
-----------------------------------------------------------------------------
(* plan_rerank_execution.                                                   *)
Or(x, default) == IF x = None THEN default ELSE x

Length == Or(asked.request.length, asked.config.length)
Wanted == Or(asked.request.size, asked.config.size)
ByTokens == asked.config.batchTokens \div Length

TooMany == Len(Documents) > asked.config.documents
BadPlan == \/ Length <= 0 \/ Length > asked.config.maxLength
           \/ Wanted <= 0 \/ Wanted > asked.config.maxSize
           \/ ByTokens <= 0

Smaller(a, b) == IF a < b THEN a ELSE b
BatchSize == Smaller(Wanted, ByTokens)

Plan ==
  /\ at = "plan"
  /\ IF Documents = <<>> THEN Refuse("400")
     ELSE IF TooMany THEN Refuse("413")
     ELSE IF BadPlan THEN Refuse("400")
     ELSE /\ plan' = [size |-> BatchSize, length |-> Length]
          /\ at' = "resolve"
          /\ UNCHANGED <<asked, strategy, scores, given, results>>
-----------------------------------------------------------------------------
(* A definition, in gateway.json or in a row of the database.               *)
Malformed(d) ==
  \/ d.method \notin Builtin
  \/ ~(d.allow \subseteq Allowed(d.method))
  \/ ~(Required(d.method) \subseteq DOMAIN d.parameters \cup d.allow)
  \/ ~(DOMAIN d.parameters \subseteq Allowed(d.method))

BuiltinDefinition(m) == [method |-> m, parameters |-> Empty, allow |-> Allowed(m)]

Configured == asked.config.strategies
BadConfig == \E n \in DOMAIN Configured : n \in Builtin \/ Malformed(Configured[n])

(* A row that is refused fails the request, if the database is required, or *)
(* is left out.                                                             *)
Rows == IF asked.config.database = "off" \/ asked.database = NoRows THEN Empty ELSE asked.database
BadRows == {n \in DOMAIN Rows : n \in Builtin \/ Malformed(Rows[n])}
DatabaseFails ==
  /\ asked.config.database = "required"
  /\ asked.database = NoRows \/ BadRows # {}

(* The database goes over gateway.json.                                     *)
Definition(n) ==
  CASE n \in DOMAIN Rows \ BadRows -> Rows[n]
    [] n \in DOMAIN Configured /\ n \notin DOMAIN Rows \ BadRows -> Configured[n]
    [] OTHER -> BuiltinDefinition(n)

Catalog == Builtin \cup DOMAIN Configured \cup (DOMAIN Rows \ BadRows)
Name == Or(asked.request.strategy, asked.config.default)

(* The request's parameters go over those of the definition, and its top_n  *)
(* over both.                                                               *)
Over(f, g) == [p \in DOMAIN f \cup DOMAIN g |-> IF p \in DOMAIN f THEN f[p] ELSE g[p]]
Parameters(d) ==
  LET both == Over(asked.request.parameters, d.parameters)
  IN IF asked.request.cap = None THEN both ELSE Over([top_n |-> asked.request.cap], both)

BadParameters(d, p) ==
  \/ ~(DOMAIN asked.request.parameters \subseteq d.allow)
  \/ ~(DOMAIN p \subseteq Allowed(d.method))
  \/ ~(Required(d.method) \subseteq DOMAIN p)
  \/ ("top_n" \in DOMAIN p /\ p["top_n"] <= 0)

Resolve ==
  /\ at = "resolve"
  /\ IF BadConfig THEN Refuse("500")
     ELSE IF DatabaseFails THEN Refuse("503")
     ELSE IF Name \notin Catalog THEN Refuse("400")
     ELSE IF BadParameters(Definition(Name), Parameters(Definition(Name))) THEN Refuse("400")
     ELSE /\ strategy' = [method |-> Definition(Name).method,
                          parameters |-> Parameters(Definition(Name))]
          /\ at' = "calls"
          /\ UNCHANGED <<asked, plan, scores, given, results>>
-----------------------------------------------------------------------------
(* iter_rerank_batches and call_triton_rerank: the next batch starts where  *)
(* the last one ended.                                                      *)
Starts == {s \in 1..Len(Documents) : (s - 1) % plan.size = 0}
Batch(s) == {d \in s..(s + plan.size - 1) : d <= Len(Documents)}

Call(s) ==
  /\ at = "calls" /\ s \in Starts
  /\ \A d \in 1..Len(Documents) : (d < s) <=> (given[d] # None)
  /\ \E answer \in [Batch(s) -> Scores], kept \in 0..Cardinality(Batch(s)) :
       /\ given' = [d \in DOMAIN given |-> IF d \in Batch(s) THEN answer[d] ELSE given[d]]
       /\ scores' = scores \o [i \in 1..kept |-> answer[s + i - 1]]
  /\ UNCHANGED <<asked, at, plan, strategy, results>>

CallFails ==
  /\ at = "calls" /\ \E d \in DOMAIN given : given[d] = None
  /\ Refuse("502")
-----------------------------------------------------------------------------
(* build_rerank_response: a stable sort by score, and the method's choice.  *)
Item(d) == [index |-> d, score |-> scores[d]]
Before(a, b) == a.score > b.score \/ (a.score = b.score /\ a.index < b.index)
Ranked ==
  CHOOSE r \in [1..Len(scores) -> {Item(d) : d \in 1..Len(scores)}] :
    \A i, j \in 1..Len(scores) : i < j => Before(r[i], r[j])

P == strategy.parameters

(* _jaccard_similarity above the limit, of 85 % by default.                 *)
Alike(a, b) ==
  LET u == Documents[a].words
      v == Documents[b].words
      limit == IF "similarity" \in DOMAIN P THEN P["similarity"] ELSE 85
  IN IF u \cup v = {} THEN 100 > limit
     ELSE 100 * Cardinality(u \cap v) > limit * Cardinality(u \cup v)

Full(s) == "top_n" \in DOMAIN P /\ Len(s) >= P["top_n"]
TooLow(i) == "threshold" \in DOMAIN P /\ i.score < P["threshold"]
Unmatched(i) == strategy.method = "metadata_filter" /\ Documents[i.index].metadata # P["filter"]

(* What a method passes over behind the items it has chosen.  A method has  *)
(* no parameters but its own, so the methods share one walk.                *)
(* Variant: each document against the last one only.                        *)
PassesOverLast(chosen, i) ==
  \/ Full(chosen) \/ TooLow(i) \/ Unmatched(i)
  \/ strategy.method = "diversity" /\ chosen # <<>> /\ Alike(Last(chosen).index, i.index)

PassesOver(chosen, i) ==
  \/ Full(chosen) \/ TooLow(i) \/ Unmatched(i)
  \/ strategy.method = "diversity" /\ \E c \in Range(chosen) : Alike(c.index, i.index)

Chosen[n \in 0..Len(scores)] ==
  IF n = 0 THEN <<>>
  ELSE IF PassesOver(Chosen[n - 1], Ranked[n]) THEN Chosen[n - 1]
  ELSE Append(Chosen[n - 1], Ranked[n])

Respond ==
  /\ at = "calls" /\ \A d \in DOMAIN given : given[d] # None
  /\ IF Len(scores) # Len(Documents)
       THEN Refuse("502")
       ELSE /\ results' = Chosen[Len(scores)]
            /\ at' = "200"
            /\ UNCHANGED <<asked, plan, strategy, scores, given>>

Next == Plan \/ Resolve \/ (\E s \in 1..Len(Documents) : Call(s)) \/ CallFails \/ Respond

Spec == Init /\ [][Next]_vars
-----------------------------------------------------------------------------
Answered == at = "200"

(* Every call stays within the limits of gateway.json, whatever the request *)
(* asks for.                                                                *)
WithinPlan ==
  at = "calls" => /\ plan.size \in 1..asked.config.maxSize
                  /\ plan.size * plan.length <= asked.config.batchTokens

(* A request is answered only if each document has the score that Triton    *)
(* gave to that very document.                                              *)
OwnScores == Answered => \A d \in DOMAIN given : scores[d] = given[d]

(* The results are in order, each with its own score.                       *)
InOrder ==
  Answered => /\ \A i \in DOMAIN results : results[i].score = given[results[i].index]
              /\ \A i, j \in DOMAIN results : i < j => Before(results[i], results[j])

(* A document is left out for a reason: the threshold, the filter, a better *)
(* document it resembles, or a cap filled with better ones; and none of     *)
(* those in breaks these rules.                                             *)
Fails(d) ==
  \/ "threshold" \in DOMAIN P /\ given[d] < P["threshold"]
  \/ strategy.method = "metadata_filter" /\ Documents[d].metadata # P["filter"]

Resembles(d) ==
  /\ strategy.method = "diversity"
  /\ \E i \in DOMAIN results : /\ Before(results[i], Item(d))
                               /\ Alike(results[i].index, d)

OnlyForAReason ==
  Answered =>
    \A d \in DOMAIN given :
      IF \E i \in DOMAIN results : results[i].index = d
        THEN ~Fails(d) /\ ~Resembles(d)
        ELSE \/ Fails(d) \/ Resembles(d)
             \/ Full(results) /\ \A i \in DOMAIN results : Before(results[i], Item(d))

(* "top_n is part of the established rerank API and always remains a final  *)
(* cap" (rerank_strategies.py:152).                                         *)
Capped == Answered /\ asked.request.cap # None => Len(results) <= asked.request.cap

(* A parameter that the strategy does not open to requests has the value of *)
(* its definition, but for top_n.                                           *)
NoOverride ==
  at \in {"calls", "200"} =>
    \A p \in DOMAIN P \ (Definition(Name).allow \cup {"top_n"}) :
      P[p] = Definition(Name).parameters[p]

RerankSound == WithinPlan /\ OwnScores /\ InOrder /\ OnlyForAReason /\ Capped /\ NoOverride
=============================================================================
