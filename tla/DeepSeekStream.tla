----------------------------- MODULE DeepSeekStream -----------------------------
(***************************************************************************)
(* What a DeepSeek answer becomes while it arrives in chunks that may cut  *)
(* a marker anywhere (DeepSeekOutput, DeepSeekJsonOutput and generate, in  *)
(* src/gateway/deepseek.py).                                               *)
(*                                                                         *)
(* The text is a sequence of pieces.  <<"<", "|", "dsml">> opens a block   *)
(* of calls and <<"<", "/", "|", "dsml">> closes it; in it "call" is an    *)
(* invocation of a declared function, and "bad" anything _validate_block   *)
(* rejects; "q" is the quote of a JSON string.  The recipe's processor is  *)
(* external: it hands on what it is pushed, and stops at EOS.              *)
(***************************************************************************)
EXTENDS Naturals, Sequences, SequencesExt

CONSTANTS
  Answers,    \* what the engine may generate, as sequences of pieces
  Profiles,   \* thinking, tools (declared), required, structured
  Endings,    \* what the engine says last: stop, length, abort, or no metadata
  MaxChunk    \* pieces in a chunk

VARIABLES
  of,         \* the answer, its ending, the profile
  at,         \* reading, done or failed
  read,       \* pieces received
  parser,     \* the DeepSeekOutput or DeepSeekJsonOutput
  reason      \* finish_reason

vars == <<of, at, read, parser, reason>>
-----------------------------------------------------------------------------
Eos == <<"<", "|", "eos">>
Calls == <<"<", "|", "dsml">>
EndCalls == <<"<", "/", "|", "dsml">>
Think == <<"<", "think">>
EndThink == <<"<", "/", "think">>
Markers == {Calls, EndCalls, Eos, Think, EndThink, <<"<", "|">>, <<"<", "/", "|">>}
Blank == {"ws"}

Fresh(p) ==
  [pending |-> <<>>, content |-> <<>>, reasoning |-> <<>>, calls |-> 0, thinking |-> p.thinking,
   quoted |-> FALSE, tools |-> FALSE, stopped |-> FALSE, invalid |-> FALSE]

Init ==
  /\ of \in [answer : Answers, ending : Endings, limit : BOOLEAN, profile : Profiles]
  /\ of.limit => of.ending = "none"    \* completion_reached_token_limit: only without metadata
  /\ at = "reading" /\ read = 0
  /\ parser = Fresh(of.profile)
  /\ reason = "none"
-----------------------------------------------------------------------------
Invalid(p) == [p EXCEPT !.invalid = TRUE]

(* _push of plain text.                                                     *)
Pushed(p, text) ==
  IF p.tools /\ ~(ToSet(text) \subseteq Blank) THEN Invalid(p)
  ELSE IF p.thinking THEN [p EXCEPT !.reasoning = @ \o text]
  ELSE [p EXCEPT !.content = @ \o text]

From(s, i) == SubSeq(s, i, Len(s))
(* Variant: a piece that is a marker already is not held for a longer one.  *)
UnfinishedUnlessMarker(s) == s \notin Markers /\ \E m \in Markers : IsStrictPrefix(s, m)
Unfinished(s) == \E m \in Markers : IsStrictPrefix(s, m)
MaybeMarker(s, i) == \E m \in Markers : IsPrefix(m, From(s, i)) \/ IsPrefix(From(s, i), m)
Hidden(p) == {i \in DOMAIN p.pending : MaybeMarker(p.pending, i)}

(* Where _END_CALLS ends in the pending text, if it does.                   *)
BlockEnds(s) == {j \in Len(EndCalls)..Len(s) : SubSeq(s, j - Len(EndCalls) + 1, j) = EndCalls}
Least(S) == CHOOSE i \in S : \A j \in S : i <= j

(* _validate_block, and the push of the whole block.                        *)
Block(profile, p, j) ==
  LET body == SubSeq(p.pending, Len(Calls) + 1, j - Len(EndCalls))
      calls == SelectSeq(body, LAMBDA x : x \notin Blank)
  IN IF ~profile.tools \/ calls = <<>> \/ ToSet(calls) # {"call"} THEN Invalid(p)
     ELSE [p EXCEPT !.calls = @ + Len(calls), !.pending = From(@, j + 1), !.tools = TRUE]

(* A complete marker at the head of the pending text.                       *)
Marker(profile, p) ==
  LET Past(m) == [p EXCEPT !.pending = From(@, Len(m) + 1)]
  IN CASE IsPrefix(Eos, p.pending) -> [Past(Eos) EXCEPT !.stopped = TRUE]
       [] IsPrefix(EndThink, p.pending) -> [Past(EndThink) EXCEPT !.thinking = FALSE]
       [] OTHER -> Invalid(p)     \* a second <think>, or a service token out of place

(* The loop of DeepSeekOutput.feed.                                         *)
RECURSIVE Parsed(_, _)
Parsed(profile, p) ==
  IF p.pending = <<>> \/ p.stopped \/ p.invalid THEN p
  ELSE IF Hidden(p) = {} THEN Pushed([p EXCEPT !.pending = <<>>], p.pending)
  ELSE LET i == Least(Hidden(p))
           q == IF i = 1 THEN p
                ELSE Pushed([p EXCEPT !.pending = From(@, i)], SubSeq(p.pending, 1, i - 1))
       IN IF q.invalid \/ Unfinished(q.pending) THEN q
          ELSE IF ~IsPrefix(Calls, q.pending) THEN Parsed(profile, Marker(profile, q))
          ELSE IF BlockEnds(q.pending) = {} THEN q
          ELSE Parsed(profile, Block(profile, q, Least(BlockEnds(q.pending))))

(* DeepSeekJsonOutput.feed: only EOS outside of strings is a marker.        *)
RECURSIVE Json(_)
Json(p) ==
  LET x == Head(p.pending)
      Kept == [p EXCEPT !.pending = Tail(@), !.content = Append(@, x), !.quoted = (@ # (x = "q"))]
  IN IF p.pending = <<>> \/ p.stopped \/ p.invalid THEN p
     ELSE IF p.quoted \/ x # "<" THEN Json(Kept)
     ELSE IF IsStrictPrefix(p.pending, Eos) THEN p
     ELSE IF IsPrefix(Eos, p.pending) THEN [p EXCEPT !.stopped = TRUE, !.pending = <<>>]
     ELSE Invalid(p)

Feed(profile, p, text) ==
  LET q == [p EXCEPT !.pending = @ \o text]
  IN IF p.stopped THEN p ELSE IF profile.structured THEN Json(q) ELSE Parsed(profile, q)
-----------------------------------------------------------------------------
(* resolve_finish_reason, with what generate passes.                        *)
Length(o, p) == o.ending = "length" \/ (o.limit /\ ~p.stopped)
Aborted(o) == o.ending = "abort"

(* finish: what is pending is dropped at the token limit, and an error      *)
(* otherwise.  json.loads needs a document whose strings are closed.        *)
Complete(o, p) ==
  IF o.profile.structured
  THEN Length(o, p) \/ (p.pending = <<>> /\ p.content # <<>> /\ ~p.quoted)
  ELSE /\ p.stopped \/ p.pending = <<>> \/ Length(o, p)
       /\ o.profile.required => p.calls > 0 \/ Length(o, p)

Reason(o, p) == IF Length(o, p) THEN "length" ELSE IF p.calls > 0 THEN "tool_calls" ELSE "stop"

Chunk ==
  /\ at = "reading" /\ read < Len(of.answer)
  /\ ~(parser.stopped /\ of.ending = "none")
  /\ \E n \in 1..MaxChunk :
       /\ read + n <= Len(of.answer)
       /\ read' = read + n
       /\ parser' = Feed(of.profile, parser, SubSeq(of.answer, read + 1, read + n))
  /\ at' = IF parser'.invalid THEN "failed" ELSE at
  /\ UNCHANGED <<of, reason>>

(* The end of the stream; without metadata EOS is its end.                  *)
End ==
  /\ at = "reading"
  /\ read = Len(of.answer) \/ (parser.stopped /\ of.ending = "none")
  /\ IF Aborted(of) \/ ~Complete(of, parser)
     THEN at' = "failed" /\ UNCHANGED reason
     ELSE at' = "done" /\ reason' = Reason(of, parser)
  /\ UNCHANGED <<of, read, parser>>

Next == Chunk \/ End
Spec == Init /\ [][Next]_vars
-----------------------------------------------------------------------------
(* Wherever the chunks cut the text, the client has in the end what one     *)
(* chunk with all of it would have given, and the request fails in the same *)
(* cases: a marker is held back for as long as it may still become one.     *)
Whole == Feed(of.profile, Fresh(of.profile), of.answer)
ChunksDoNotMatter ==
  /\ at = "failed" => Whole.invalid \/ Aborted(of) \/ ~Complete(of, Whole)
  /\ at = "done" => /\ ~Whole.invalid /\ Complete(of, Whole)
                    /\ reason = Reason(of, Whole)
                    /\ \A f \in {"content", "reasoning", "calls"} : parser[f] = Whole[f]

(* Only complete calls are handed over: every one the client has belongs to *)
(* a block that was read to its end, also in an answer that was cut off.    *)
CallsBy(n) == Len(SelectSeq(SubSeq(of.answer, 1, n), LAMBDA x : x = "call"))
NoPartialCalls ==
  \/ parser.calls = 0
  \/ \E j \in BlockEnds(SubSeq(of.answer, 1, read)) : parser.calls <= CallsBy(j)

(* An answer the engine cut off, or that stops inside a marker or a block,  *)
(* is never reported as complete; reasoning is not part of the answer.      *)
NoFalseCompletion ==
  at = "done" =>
    /\ of.ending = "length" => reason = "length"
    /\ reason = "tool_calls" => parser.calls > 0 /\ of.profile.tools
    /\ reason = "stop" => ~of.profile.required
    /\ parser.thinking => parser.content = <<>>

DeepSeekSound == ChunksDoNotMatter /\ NoPartialCalls /\ NoFalseCompletion
=============================================================================
