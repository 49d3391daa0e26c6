---------------------------- MODULE ContextCompression ----------------------------
(***************************************************************************)
(* Fitting a conversation to the context of a model                        *)
(* (src/gateway/context_compression.py, and what it uses of prompt.py).    *)
(*                                                                         *)
(* A conversation is a set of messages, numbered in their order.  One that *)
(* is too long is refused, loses its oldest turns, or has them replaced by *)
(* a summary that a model writes, chunk after chunk, each time from the    *)
(* summary so far.                                                         *)
(* Summaries are cached by what they cover, for all requests of the        *)
(* process; those that call the model share a semaphore, and each has a    *)
(* time-out around the semaphore and the calls.                            *)
(*                                                                         *)
(* Every message counts one token.  A summary is the set of messages its   *)
(* text was made from, with the tokens it takes.  Work of the CPU pool     *)
(* touches nothing shared and is part of the step that awaits it.          *)
(***************************************************************************)
EXTENDS Integers, Sequences, FiniteSets, FiniteSetsExt, SequencesExt

CONSTANTS
  Requests,
  Conversations,   \* what clients send
  Role,            \* of a message: "system", "user", "assistant" or "tool"
  Score,           \* of a message: how much it is worth as evidence, 0 for nothing
  Limits,          \* prompt limits, what is left of the model's context
  Configs,         \* what gateway.json may say
  Overhead,        \* tokens of the two messages around a summary
  SummaryTokens,   \* tokens a summary may turn out to take
  Slots            \* GATEWAY_CONTEXT_SUMMARY_MAX_CONCURRENCY

(* What the settings may be; ratios are in percent.                         *)
Settings ==
  {s \in [mode : {"disabled", "truncate", "summarize"}, fallback : {"disabled", "truncate"},
          trigger : 10..100, target : 10..100, preserve : Nat, summaryMax : Nat, chunk : Nat \ {0},
          calls : Nat \ {0}, evidence : Nat, cache : Nat] : s.target <= s.trigger}

ContextAssumption ==
  /\ IsFiniteSet(Requests) /\ Configs \subseteq Settings
  /\ \A c \in Conversations :
       /\ c \subseteq Nat /\ IsFiniteSet(c)
       /\ \E m \in c : Role[m] = "user"
  /\ Limits \subseteq Nat \ {0} /\ Slots \in Nat \ {0}
  /\ Overhead \in Nat /\ SummaryTokens \subseteq Nat

VARIABLES
  req,     \* the requests
  cache    \* _summary_cache: the entries, least recently used first

vars == <<req, cache>>
-----------------------------------------------------------------------------
Speech(c) == {m \in c : Role[m] # "system"}
Users(c) == {m \in c : Role[m] = "user"}

(* What comes before the latest message of the user.                        *)
History(c) == {m \in Speech(c) : \E u \in Users(c) : m < u}

Before(c, m) == {i \in c : i < m}
After(c, m) == {i \in c : i > m}

Oldest(c, n) == {m \in c : Cardinality(Before(c, m)) < n}
Newest(c, n) == {m \in c : Cardinality(After(c, m)) < n}

(* oldest_removable_turn: up to, not including, the next message of a user. *)
(* Variant: it takes one message.                                           *)
OldestMessage(c) == Oldest(History(c), 1)

OldestTurn(c) ==
  {m \in History(c) : \A u \in Users(c) : u <= m => u \in Oldest(History(c), 1)}

Protected(c, preserve) == Newest(History(c), preserve)

(* _build_verbatim_evidence: the best lines there is room for.              *)
Evidence(removed, max) ==
  LET worth == {m \in removed : Score[m] > 0}
      better(m) == {n \in worth : \/ Score[n] > Score[m]
                                  \/ Score[n] = Score[m] /\ n < m}
  IN {m \in worth : Cardinality(better(m)) < max}
-----------------------------------------------------------------------------
NoText == [covers |-> {}, tokens |-> 0]

New == [at |-> "new", conv |-> {}, limit |-> 0, s |-> CHOOSE s \in Configs : TRUE, kept |-> {},
        action |-> "none", text |-> NoText, left |-> {}, evidence |-> {}]

Init ==
  /\ req = [r \in Requests |-> New]
  /\ cache = <<>>

Source(x) == x.conv \ x.kept
Trigger(x) == Max({(x.limit * x.s.trigger) \div 100, 1})
Target(x) == Max({(x.limit * x.s.target) \div 100, 1})

Step(r, x) == req' = [req EXCEPT ![r] = x] /\ UNCHANGED cache

Over(x, action) == [x EXCEPT !.at = "over", !.action = action, !.left = {}]
Failed(x) == [New EXCEPT !.at = "over", !.action = "error"]

(* An exception other than a cancellation, in prepare_conversation_context. *)
Fallback(x) ==
  LET again == [x EXCEPT !.kept = x.conv, !.text = NoText, !.left = {}]
  IN IF x.s.fallback # "truncate" THEN Failed(x)
     ELSE IF Cardinality(x.conv) <= x.limit THEN Over(again, "none_fallback")
     ELSE [again EXCEPT !.at = "truncating", !.action = "truncate_fallback"]

(* The first half of prepare_conversation_context.                          *)
Prepared(x) ==
  IF Cardinality(x.conv) <= (IF x.s.mode = "summarize" THEN Trigger(x) ELSE x.limit)
    THEN Over(x, "none")
  ELSE CASE x.s.mode = "disabled" -> Failed(x)
         [] x.s.mode = "truncate" -> [x EXCEPT !.at = "truncating", !.action = "truncate"]
         [] x.s.mode = "summarize" -> [x EXCEPT !.at = "selecting"]

Prepare(r) ==
  /\ req[r].at = "new"
  /\ \E c \in Conversations, l \in Limits, s \in Configs :
       Step(r, Prepared([New EXCEPT !.conv = c, !.kept = c, !.limit = l, !.s = s]))

(* The Responses API truncates or fails, and never summarizes.              *)
PrepareResponses(r) ==
  /\ req[r].at = "new"
  /\ \E c \in Conversations, l \in Limits, s \in Configs :
       LET x == [New EXCEPT !.conv = c, !.kept = c, !.limit = l, !.s = s] IN
       Step(r, IF Cardinality(c) <= l THEN Over(x, "none")
               ELSE IF s.mode # "truncate" THEN Failed(x)
               ELSE [x EXCEPT !.at = "truncating", !.action = "truncate"])

(* fit_conversation_to_context, one turn after the other.                   *)
Truncate(r) ==
  LET x == req[r]
      turn == OldestTurn(x.kept)
      kept == x.kept \ turn
  IN
  /\ x.at = "truncating"
  /\ Step(r, IF turn = {} THEN Failed(x)
             ELSE IF Cardinality(kept) <= x.limit THEN Over([x EXCEPT !.kept = kept], x.action)
             ELSE [x EXCEPT !.kept = kept])

(* _select_summary_source: until there is room for a summary, as estimated, *)
(* and evidence.                                                            *)
Select(r) ==
  LET x == req[r]
      turn == OldestTurn(x.kept)
      kept == x.kept \ turn
      room == Cardinality(kept) + Overhead + x.s.summaryMax + x.s.evidence <= Target(x)
  IN
  /\ x.at = "selecting"
  /\ Step(r, IF turn = {} \/ turn \cap Protected(x.kept, x.s.preserve) # {} THEN Fallback(x)
             ELSE [x EXCEPT !.kept = kept, !.at = IF room THEN "lookup" ELSE "selecting"])
-----------------------------------------------------------------------------
Begins(b, c) == b = Oldest(c, Cardinality(b))

(* _get_cached_summary: the longest summary of a beginning of the source,   *)
(* as the set of its position in the cache.                                 *)
Cached(x) ==
  LET hits == {i \in DOMAIN cache : x.s.cache > 0 /\ Begins(cache[i].boundary, Source(x))}
  IN {i \in hits : \A j \in hits : cache[j].boundary \subseteq cache[i].boundary}

Touch(i) == Append(RemoveAt(cache, i), cache[i])

(* _render_with_summary: the summary and the evidence fit, beside what was  *)
(* kept.                                                                    *)
Renders(x, text) ==
  Cardinality(x.kept) + Overhead + text.tokens + Cardinality(Evidence(Source(x), x.s.evidence))
    <= Target(x)

Rendered(x, text) ==
  IF Renders(x, text)
    THEN Over([x EXCEPT !.text = text, !.evidence = Evidence(Source(x), x.s.evidence)], "summarize")
    ELSE Fallback(x)

(* What is left to summarize, if it takes no more calls than allowed.       *)
Reads(x, text) ==
  LET left == Source(x) \ text.covers
  IN IF Cardinality(left) > x.s.calls * x.s.chunk THEN Fallback(x)
     ELSE [x EXCEPT !.at = "waiting", !.text = text, !.left = left]

Hit(r) ==
  /\ req[r].at = "lookup"
  /\ \E i \in Cached(req[r]) :
       /\ cache' = Touch(i)
       /\ req' = [req EXCEPT ![r] =
                    IF cache[i].boundary = Source(req[r]) THEN Rendered(req[r], cache[i].text)
                    ELSE Reads(req[r], cache[i].text)]

Miss(r) ==
  /\ req[r].at = "lookup" /\ Cached(req[r]) = {}
  /\ Step(r, Reads(req[r], NoText))

(* The semaphore.                                                           *)
Acquire(r) ==
  /\ req[r].at = "waiting"
  /\ Cardinality({q \in Requests : req[q].at = "calling"}) < Slots
  /\ Step(r, [req[r] EXCEPT !.at = "calling"])

(* A call of summary_generator returned.                                    *)
Summarized(r) ==
  LET x == req[r]
      chunk == Oldest(x.left, x.s.chunk)
  IN
  /\ x.at = "calling"
  /\ \E t \in SummaryTokens :
       Step(r, [x EXCEPT !.text = [covers |-> x.text.covers \cup chunk, tokens |-> t],
                         !.left = x.left \ chunk,
                         !.at = IF chunk = x.left THEN "render" ELSE "calling"])

(* _put_cached_summary: an entry for the same beginning is replaced.        *)
Same(entry) == {i \in DOMAIN cache : cache[i].boundary = entry.boundary}

Put(entry, size) ==
  LET rest == IF Same(entry) = {} THEN cache
              ELSE RemoveAt(cache, CHOOSE i \in Same(entry) : TRUE)
      all == Append(rest, entry)
  IN IF size = 0 THEN cache ELSE SubSeq(all, Max({1, Len(all) - size + 1}), Len(all))

Render(r) ==
  LET x == req[r] IN
  /\ x.at = "render"
  /\ req' = [req EXCEPT ![r] = Rendered(x, x.text)]
  /\ cache' = IF Renders(x, x.text) THEN Put([boundary |-> Source(x), text |-> x.text], x.s.cache)
              ELSE cache

(* The time-out, over the wait for the semaphore too; a call that failed or *)
(* returned nothing.                                                        *)
Timeout(r) ==
  /\ req[r].at \in {"waiting", "calling"}
  /\ Step(r, Fallback(req[r]))

Cancelled(r) ==
  /\ req[r].at \notin {"new", "over"}
  /\ Step(r, Failed(req[r]))

Next == \E r \in Requests :
  \/ Prepare(r) \/ PrepareResponses(r) \/ Truncate(r) \/ Select(r) \/ Hit(r) \/ Miss(r)
  \/ Acquire(r) \/ Summarized(r) \/ Render(r) \/ Timeout(r) \/ Cancelled(r)

Spec == Init /\ [][Next]_vars
-----------------------------------------------------------------------------
Accepted == {r \in Requests : req[r].at = "over" /\ req[r].action # "error"}

(* Whatever was accepted fits, evidence and summary included.               *)
Fits == \A r \in Accepted : LET x == req[r] IN
  Cardinality(x.kept) + Cardinality(x.evidence)
    + (IF x.action = "summarize" THEN Overhead + x.text.tokens ELSE 0) <= x.limit

(* A message is either in the prompt or in the summary, also when that, or  *)
(* its first part, was made for other requests; system messages stay.       *)
NothingSlips == \A r \in Accepted : LET x == req[r] IN
  /\ x.action = "summarize" => x.text.covers = Source(x)
  /\ Source(x) \subseteq Speech(x.conv)

(* What is kept of the history begins with a turn, so that no answer of a   *)
(* tool is separated from its call.                                         *)
WholeTurns == \A r \in Accepted : LET x == req[r] IN
  x.kept # x.conv => Role[Min(Speech(x.kept))] = "user"

(* The messages that were to be preserved are in the prompt as they were.   *)
RecentKept == \A r \in Accepted : LET x == req[r] IN
  x.action = "summarize" => Protected(x.conv, x.s.preserve) \subseteq x.kept

ContextSound == Fits /\ NothingSlips /\ WholeTurns /\ RecentKept
=============================================================================
