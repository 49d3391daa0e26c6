------------------------------ MODULE OutputStream ------------------------------
(***************************************************************************)
(* From the chunks of a backend to the deltas a client receives: the two   *)
(* streaming loops of src/gateway/triton_client.py, the separation of      *)
(* reasoning (reasoning.py) and the sanitizer (sanitizer.py).              *)
(*                                                                         *)
(* A text is a sequence of pieces: words, line breaks, and the two halves  *)
(* of each tag or marker, so that a chunk may end anywhere in one.  White  *)
(* space is line breaks.  Lengths the code counts in characters are the    *)
(* constants below, in pieces, and keep their order.                       *)
(***************************************************************************)
EXTENDS Integers, Sequences, FiniteSets, FiniteSetsExt, SequencesExt

CONSTANTS
  Requests,     \* records: words (pieces the model may write), most (bound: pieces of a
                \* text), parser, mode, metadata
  MaxChunk,     \* bound: pieces of a chunk
  Holdback,     \* STREAM_HOLDBACK_CHARS
  ThoughtHoldback,  \* REASONING_STREAM_HOLDBACK_CHARS
  HeadLeast, TailLeast, Compared   \* 80, 32 and 96 of _trim_repeated_completion

(* The pieces with a meaning: "nl" a line break, "user" and "assistant" the *)
(* roles, "leak" the text /no_think, "cue" a word that starts reasoning.    *)
Open == <<"op", "en">>
Close == <<"cl", "ose">>
Tool == <<"to", "ol">>
Marker == <<"im", "end">>       \* DEFAULT_CHAT_STOP_SEQUENCES

VARIABLES
  at,          \* "new", "reading", "closing", "done" or "failed"
  of,          \* the request
  raw,         \* raw_generated_text
  scan,        \* the StreamingSanitizer
  result,      \* what it returned last
  emitted,     \* emitted_text
  thought,     \* emitted_reasoning
  shown,       \* what the client has of the answer
  revised,     \* history: the text no longer began with what was sent
  again        \* history: what was sent was sent once more

vars == <<at, of, raw, scan, result, emitted, thought, shown, revised, again>>
-----------------------------------------------------------------------------
Places(t, m, from) == {i \in from..(Len(t) - Len(m) + 1) : SubSeq(t, i, i + Len(m) - 1) = m}
FirstOf(S) == IF S = {} THEN 0 ELSE Min(S)
Find(t, m, from) == FirstOf(Places(t, m, from))
Before(t, i) == SubSeq(t, 1, i - 1)
From(t, i) == SubSeq(t, i, Len(t))
Solid(t) == {i \in 1..Len(t) : t[i] # "nl"}
RStrip(t) == SubSeq(t, 1, Max(Solid(t) \cup {0}))
LStrip(t) == From(t, Min(Solid(t) \cup {Len(t) + 1}))

Without(t, m) ==
  LET starts == Places(t, m, 1)
  IN FoldLeftDomain(LAMBDA kept, i : IF i \in starts \/ i - 1 \in starts THEN kept ELSE Append(kept, t[i]),
                    <<>>, t)

(* _remove_service_tags.                                                    *)
NoTags(t) == Without(Without(t, Open), Close)
-----------------------------------------------------------------------------
(* reasoning.py.                                                            *)

(* _strip_reasoning_blocks: what is content.                                *)
RECURSIVE StripBlocks(_)
StripBlocks(t) ==
  LET o == Find(t, Open, 1)
      c == Find(t, Close, 1)
      end == Find(t, Close, o + 2)
      tool == Find(t, Tool, o + 2)
  IN CASE c # 0 /\ (o = 0 \/ c < o) -> StripBlocks(From(t, c + 2))
       [] o = 0 /\ c = 0 -> t
       [] o # 0 /\ (c = 0 \/ o < c) /\ end # 0 -> Before(t, o) \o StripBlocks(From(t, end + 2))
       [] OTHER -> Before(t, o) \o (IF tool = 0 THEN <<>> ELSE From(t, tool))

Split(reasoning, content) ==
  [reasoning |-> RStrip(LStrip(NoTags(reasoning))), content |-> LStrip(NoTags(content)), open |-> FALSE]

(* split_reasoning_output.                                                  *)
SplitReasoning(t, r) ==
  LET o == Find(t, Open, 1)
      c == Find(t, Close, 1)
      end == Find(t, Close, o + 2)
      begin == IF o = 0 THEN 1 ELSE o + 2
      tool == Find(t, Tool, begin)
      prefix == IF o = 0 THEN <<>> ELSE Before(t, o)
  IN CASE r.parser = "none" -> [reasoning |-> <<>>, content |-> t, open |-> FALSE]
       [] r.parser # "none" /\ r.mode = "disabled" ->
            [reasoning |-> <<>>, content |-> NoTags(StripBlocks(t)), open |-> FALSE]
       [] r.parser # "none" /\ r.mode # "disabled" ->
            CASE c # 0 /\ (o = 0 \/ c < o) -> Split(Before(t, c), From(t, c + 2))
              [] o # 0 /\ o < c -> Split(SubSeq(t, begin, end - 1), prefix \o From(t, end + 2))
              [] c = 0 /\ tool # 0 -> Split(SubSeq(t, begin, tool - 1), prefix \o From(t, tool))
              [] c = 0 /\ tool = 0 ->
                   [Split(From(t, begin), <<>>) EXCEPT !.content = RStrip(NoTags(prefix)), !.open = TRUE]
-----------------------------------------------------------------------------
(* sanitizer.py.                                                            *)

SeemsReasoning(t) == LStrip(t) # <<>> /\ Head(LStrip(t)) = "cue"
HasTags(t) == Places(t, Open, 1) \cup Places(t, Close, 1) # {}

(* _remove_thinking_blocks.                                                 *)
RECURSIVE Thoughtless(_)
Thoughtless(t) ==
  LET o == Find(t, Open, 1)
      c == Find(t, Close, 1)
      end == Find(t, Close, o + 2)
      first == RStrip(Before(t, c))
  IN CASE c # 0 /\ (o = 0 \/ c < o) ->
            IF first # <<>> /\ ~SeemsReasoning(first) THEN [text |-> first, stop |-> TRUE]
            ELSE Thoughtless(LStrip(From(t, c + 2)))
       [] o = 0 /\ c = 0 -> [text |-> t, stop |-> FALSE]
       [] o # 0 /\ c = 0 -> [text |-> RStrip(Before(t, o)), stop |-> FALSE]
       [] o # 0 /\ c > o -> Thoughtless(Before(t, o) \o LStrip(From(t, end + 2)))

(* _strip_leading_role_noise: a first line of one word, then "assistant".   *)
AfterRole(t) == IF t # <<>> /\ Head(t) = "assistant" THEN {LStrip(Tail(t))} ELSE {}

RECURSIVE Noiseless(_)
Noiseless(t) ==
  LET s == LStrip(t)
      titled == IF Len(s) > 1 /\ s[2] = "nl" THEN AfterRole(LStrip(From(s, 3))) ELSE {}
      rest == IF titled # {} THEN titled ELSE AfterRole(s)
  IN IF rest = {} THEN t ELSE Noiseless(CHOOSE x \in rest : TRUE)

(* _trim_repeated_completion: the separators of paragraphs.                 *)
Breaks(t, from) ==
  {i \in from..(Len(t) - 1) : t[i] = "nl" /\ t[i + 1] = "nl" /\ (i = from \/ t[i - 1] # "nl")}

HeadOf(t, i) == RStrip(Before(t, i))
TailOf(t, i) == LStrip(From(t, i))

Repeats(t, i) ==
  LET same == Min({Len(HeadOf(t, i)), Len(TailOf(t, i)), Compared})
  IN /\ Len(HeadOf(t, i)) >= HeadLeast /\ Len(TailOf(t, i)) >= TailLeast
     /\ SubSeq(TailOf(t, i), 1, same) = SubSeq(t, 1, same)

FirstRepeat(t, from) == FirstOf({i \in Breaks(RStrip(t), from) : Repeats(RStrip(t), i)})

NextRepeat(t, from) ==
  LET s == RStrip(t)
  IN Min({Len(s) + 1} \cup {i \in Breaks(s, from) :
                              Len(HeadOf(s, i)) >= HeadLeast /\ Len(TailOf(s, i)) < TailLeast})

(* CHAT_ROLE_MARKER_RE and PROMPT_LEAK_MARKER_RE.                           *)
RoleAt(t, i) ==
  /\ i < Len(t) /\ t[i] \in {"user", "assistant"} /\ t[i + 1] = "nl"
  /\ i = 1 \/ t[i - 1] = "nl"

Blank(t, i, j) == \A k \in i..j : t[k] = "nl"

LeakAt(t, i) ==
  /\ i = 1 \/ t[i] = "nl"
  /\ \E u, k \in i..Len(t) :
       /\ t[u] = "user" /\ Blank(t, i, u - 1) /\ t[k] = "leak"
       /\ \E e \in u + 1..k - 1 : Blank(t, e, k - 1) /\ \A j \in u + 1..e - 1 : t[j] # "nl"

Cuts(t, marker, role, leak) ==
  Places(t, Marker, marker) \cup {i \in role..Len(t) : RoleAt(t, i)}
    \cup {i \in leak..Len(t) : LeakAt(t, i)}

Fresh == [previous |-> <<>>, repeat |-> 1, line |-> 1, before |-> 1, stopped |-> FALSE, last |-> <<>>]

(* StreamingSanitizer.marker_index: the literal markers again from where    *)
(* one may have begun, the others when their last piece is new.             *)
(* Variant: it goes on where the last scan ended.                           *)
NoOverlap == 0

Overlap == Len(Marker) - 1

NewCuts(t, s) ==
  LET n == Len(s.previous)
      new == {t[i] : i \in n + 1..Len(t)}
  IN Cuts(t, Max({1, n + 1 - Overlap}), IF "nl" \in new THEN s.line ELSE Len(t) + 1,
                                        IF "leak" \in new THEN s.before ELSE Len(t) + 1)

(* ...and the lines it remembers.                                           *)
Advance(t, s) ==
  LET ends == {i \in Len(s.previous) + 1..Len(t) : t[i] = "nl"}
      start(i) == Max({s.line} \cup {j + 1 : j \in {j \in ends : j < i}})
      full == {i \in ends : ~Blank(t, start(i), i - 1)}
  IN [s EXCEPT !.previous = t,
               !.line = Max({s.line} \cup {i + 1 : i \in ends}),
               !.before = IF full = {} THEN s.before ELSE Max({1, start(Max(full)) - 1})]

(* sanitize_generated_text, with a StreamingSanitizer or without.           *)
Cleaned(t, stop, repeat, cuts) ==
  LET head == IF repeat = 0 THEN t ELSE HeadOf(t, repeat)
      cut == {i \in cuts : i <= Len(head)}
  IN IF cut = {} THEN [text |-> head, stop |-> stop \/ repeat # 0]
     ELSE [text |-> RStrip(Before(head, Min(cut))), stop |-> TRUE]

Withheld(t) == ~HasTags(t) /\ SeemsReasoning(t)

Stateless(t, streaming) ==
  LET bare == Thoughtless(t)
      s == Noiseless(bare.text)
      repeat == FirstRepeat(s, 1)
      head == IF repeat = 0 THEN s ELSE HeadOf(s, repeat)
  IN IF streaming /\ Withheld(t) THEN [text |-> <<>>, stop |-> FALSE]
     ELSE Cleaned(s, bare.stop, repeat, Cuts(head, 1, 1, 1))

Advanced(s, now, head, repeat, r) ==
  [text |-> r.text, stop |-> r.stop,
   scan |-> [Advance(head, now) EXCEPT !.previous = s, !.stopped = r.stop, !.last = r.text,
               !.repeat = IF repeat = 0 THEN NextRepeat(s, now.repeat) ELSE now.repeat]]

Scanned(s, stop, now, head, repeat) ==
  Advanced(s, now, head, repeat, Cleaned(s, stop, repeat, NewCuts(head, now)))

Resumed(s, stop, now) ==
  LET repeat == FirstRepeat(s, now.repeat)
  IN IF now.stopped THEN [text |-> now.last, stop |-> TRUE, scan |-> now]
     ELSE Scanned(s, stop, now, IF repeat = 0 THEN s ELSE HeadOf(s, repeat), repeat)

(* A text that does not continue the last one is scanned from its beginning. *)
Tracked(s, stop, old) == Resumed(s, stop, IF IsPrefix(old.previous, s) THEN old ELSE Fresh)

Sanitized(t, old) ==
  LET bare == Thoughtless(t)
  IN IF Withheld(t) THEN [text |-> <<>>, stop |-> FALSE, scan |-> old]
     ELSE Tracked(Noiseless(bare.text), bare.stop, old)
-----------------------------------------------------------------------------
(* triton_client.py.                                                        *)

NoRequest == [words |-> {}, most |-> 0, parser |-> "none", mode |-> "disabled", metadata |-> FALSE]
Nothing == [text |-> <<>>, stop |-> FALSE]

Init ==
  /\ at = "new" /\ of = NoRequest /\ raw = <<>> /\ scan = Fresh /\ result = Nothing
  /\ emitted = <<>> /\ thought = <<>> /\ shown = <<>>
  /\ revised = FALSE /\ again = FALSE

(* The response of the backend, and the first event, which names the role.  *)
Start ==
  /\ at = "new"
  /\ at' = "reading" /\ of' \in Requests
  /\ UNCHANGED <<raw, scan, result, emitted, thought, shown, revised, again>>

Held(t, n) == SubSeq(t, 1, Len(t) - Min({n, Len(t)}))

(* _reasoning_delta.                                                        *)
Thought(r, final) ==
  LET safe == IF r.open /\ ~final THEN Held(r.reasoning, ThoughtHoldback) ELSE r.reasoning
  IN IF of.mode = "separate" /\ IsPrefix(thought, safe) THEN safe ELSE thought

(* Without metadata a backend may send all of its text each time.           *)
Received(chunk) == IF ~of.metadata /\ IsPrefix(raw, chunk) THEN chunk ELSE raw \o chunk

(* What the client gets of a text, and what is remembered of it.            *)
Deliver(safe, begins) ==
  LET delta == IF begins THEN From(safe, Len(emitted) + 1) ELSE safe IN
  /\ shown' = shown \o delta
  /\ emitted' = IF delta = <<>> THEN emitted ELSE safe
  /\ revised' = (revised \/ ~begins)
  /\ again' = (again \/ (delta # <<>> /\ ~begins))

Sanitize(split, r) ==
  /\ scan' = r.scan
  /\ result' = [text |-> r.text, stop |-> r.stop]
  /\ thought' = Thought(split, FALSE)
  /\ LET safe == IF r.stop THEN r.text ELSE Held(r.text, Holdback)
     IN Deliver(safe, IsPrefix(emitted, safe))
  /\ at' = IF r.stop THEN "closing" ELSE "reading"

Separate(split) == Sanitize(split, Sanitized(split.content, scan))

Chunk ==
  /\ at = "reading"
  /\ \E n \in 1..MaxChunk : \E chunk \in [1..n -> of.words] :
       /\ raw' = Received(chunk) /\ Len(raw') <= of.most
       /\ Separate(SplitReasoning(raw', of))
  /\ UNCHANGED of

(* The backend ended the stream, or it failed; metadata it advertised has   *)
(* to be there.                                                             *)
End ==
  /\ at = "reading"
  /\ at' \in {"closing", "failed"}
  /\ UNCHANGED <<of, raw, scan, result, emitted, thought, shown, revised, again>>

(* The rest of the answer and the last event.                               *)
Finish ==
  LET split == SplitReasoning(raw, of)
      final == Stateless(split.content, FALSE).text
  IN
  /\ at = "closing"
  /\ at' = "done"
  /\ thought' = Thought(split, TRUE)
  /\ IF IsPrefix(emitted, final)
       THEN /\ shown' = shown \o From(final, Len(emitted) + 1)
            /\ emitted' = final
       ELSE UNCHANGED <<shown, emitted>>
  /\ UNCHANGED <<of, raw, scan, result, revised, again>>

Next == Start \/ Chunk \/ End \/ Finish

Spec == Init /\ [][Next]_vars
-----------------------------------------------------------------------------
(* The incremental scan finds what the scan of the whole text finds.        *)
ScanAgrees ==
  at \in {"reading", "closing"} /\ raw # <<>> =>
    result = Stateless(SplitReasoning(raw, of).content, TRUE)

(* A client that received nothing twice has, at the end, the answer of a    *)
(* request without a stream.                                                *)
Whole ==
  at = "done" /\ ~revised =>
    RStrip(shown) = RStrip(Stateless(SplitReasoning(raw, of).content, FALSE).text)

(* No marker reaches the client, and no part of one but at its very end.    *)
MarkersHidden == Places(shown, Marker, 1) = {}

(* What the model thinks, before the tag that ends it and after the one     *)
(* that begins it, if there is one, is never part of the answer.            *)
ThoughtsHidden ==
  LET o == Find(raw, Open, 1)
      c == Find(raw, Close, 1)
      thoughts == {raw[i] : i \in (IF o = 0 \/ c < o THEN 1 ELSE o)..(c - 1)}
      others == {raw[i] : i \in (1..Len(raw)) \ ((IF o = 0 \/ c < o THEN 1 ELSE o)..(c - 1))}
  IN of.mode # "disabled" /\ Places(Before(raw, c), Tool, 1) = {} =>
       {shown[i] : i \in DOMAIN shown} \cap (thoughts \ others) = {}

OutputSound == ScanAgrees /\ Whole /\ MarkersHidden /\ ThoughtsHidden

(* "Cumulative output should be monotonic": nothing is sent once more.      *)
SentOnce == ~again
=============================================================================
