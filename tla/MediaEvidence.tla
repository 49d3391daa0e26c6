------------------------------ MODULE MediaEvidence ------------------------------
(***************************************************************************)
(* How the media of one request become notes the model can read            *)
(* (prepare_vllm_media_conversation and what it calls, in                  *)
(* src/gateway/vllm_media.py; how a medium falls apart into items is in    *)
(* media_preprocessing.py).                                                *)
(*                                                                         *)
(* A medium is a sequence of parts: the pages of a PDF, the sampled frames *)
(* of a video, pieces of a transcript.  A note remembers which parts it    *)
(* tells of.  The calls of one map end in any order in Batch; here only    *)
(* their results matter, which keep the order of the chunks.               *)
(***************************************************************************)
EXTENDS Integers, Sequences, FiniteSets, FiniteSetsExt, SequencesExt

CONSTANTS
  Jobs,        \* media (kind, parts, written: parts with text), settings, query
  NoteTokens   \* tokens a note may take

VARIABLES
  job,
  at,        \* what is being done with the medium, or how it ended
  m,         \* position of the medium
  work,      \* the chunks of a map: what is left of each, and its notes
  notes,     \* of this medium, or of all of them when they are reduced
  summaries, \* of the media before it
  calls      \* history: inference calls

vars == <<job, at, m, work, notes, summaries, calls>>
-----------------------------------------------------------------------------
S == job.settings
OfKind(kind) == SelectSeq(job.media, LAMBDA x : x.kind = kind)
Media == OfKind("image") \o OfKind("pdf") \o OfKind("video") \o OfKind("audio")
Medium == Media[m]
Now(kind) == at = "medium" /\ m <= Len(Media) /\ Medium.kind \in kind
Part(i) == <<m, i>>
Parts(x, of) == [i \in 1..Len(of) |-> <<x, of[i]>>]
Note(covers, tokens) == [covers |-> covers, tokens |-> tokens]
Greater(a, b) == IF a > b THEN a ELSE b
Smaller(a, b) == IF a < b THEN a ELSE b
Ceiling(a, b) == (a + b - 1) \div b

(* The slices [start : start + size] of a sequence.                         *)
Slices(s, size) ==
  [n \in 1..Ceiling(Len(s), size) |-> SubSeq(s, (n - 1) * size + 1, Smaller(n * size, Len(s)))]

Written == SelectSeq([i \in 1..Medium.parts |-> i], LAMBDA i : i \in Medium.written)
All == [i \in 1..Medium.parts |-> i]

Init ==
  /\ job \in Jobs
  /\ at = "medium" /\ m = 1
  /\ work = <<>> /\ notes = <<>> /\ summaries = <<>>
  /\ calls = 0

Maps(kind, chunks) ==
  /\ at' = kind
  /\ work' = [c \in DOMAIN chunks |-> [todo |-> <<chunks[c]>>, notes |-> <<>>]]
  /\ notes' = <<>>
  /\ UNCHANGED <<job, m, summaries, calls>>

Becomes(there) == at' = there /\ UNCHANGED <<job, m, work, notes, summaries, calls>>

(* chunk_size in _summarize_visual_items.                                   *)
Visual(size) == Maps("visual", Slices(Parts(m, All), Greater(Smaller(size, S.images), 1)))

(* Decoding, rendering, transcription or a download may fail.               *)
Unusable == Now({"image", "pdf", "video", "audio"}) /\ Becomes("400")

Image == Now({"image"}) /\ Visual(S.images)
Video == Now({"video"}) /\ Visual(S.frames)

(* A document that is read as a whole is reduced to one note.               *)
Mapped == IF Medium.kind = "pdf" THEN "reduce" ELSE "taken"

(* A text that is not longer than one chunk is its own note.                *)
Texts(of) ==
  LET chunks == Slices(Parts(m, of), S.text)
  IN IF Len(chunks) = 1
       THEN /\ at' = Mapped /\ notes' = <<Note(chunks[1], 1)>> /\ work' = <<>>
            /\ UNCHANGED <<job, m, summaries, calls>>
       ELSE Maps("text", chunks)

Audio == Now({"audio"}) /\ Texts(All)

(* By its text, when there is enough: the chunks that answer the question,  *)
(* or all of them.                                                          *)
Readable == S.pdf # "visual" /\ Cardinality(Medium.written) >= S.enough
Retrieves == S.embedding /\ job.query # "summary"

Pdf ==
  /\ Now({"pdf"})
  /\ \/ Readable /\ Retrieves /\ Becomes("retrieve")
     \/ Readable /\ ~Retrieves /\ Texts(Written)
     \/ ~Readable /\ Visual(S.pages)
     \/ S.pdf # "visual" /\ Visual(S.pages)   \* the text cannot be extracted

(* _retrieve_pdf_text_chunks: the best, in the order of the document.       *)
Retrieve ==
  /\ at = "retrieve"
  /\ \E score \in [Medium.written -> 0..1] :
       LET better(i) == {j \in Medium.written :
                           \/ score[j] > score[i]
                           \/ score[j] = score[i] /\ j < i}
           best == SelectSeq(Written, LAMBDA i : Cardinality(better(i)) < Greater(S.top, 1))
       IN notes' = [n \in DOMAIN best |-> Note(<<Part(best[n])>>, 1)]
  /\ at' = "taken" /\ m' = m /\ calls' = calls + Cardinality(Medium.written) + 1
  /\ UNCHANGED <<job, work, summaries>>
-----------------------------------------------------------------------------
(* One call for a chunk; a visual chunk that is too long is halved, first   *)
(* half first.                                                              *)
(* Variant: both halves take the middle.                                    *)
HalvesSharing(chunk) ==
  LET middle == Greater(Len(chunk) \div 2, 1)
  IN <<SubSeq(chunk, 1, middle), SubSeq(chunk, middle, Len(chunk))>>

Halves(chunk) ==
  LET middle == Greater(Len(chunk) \div 2, 1)
  IN <<SubSeq(chunk, 1, middle), SubSeq(chunk, middle + 1, Len(chunk))>>

TooLong(chunk) == at = "visual" /\ Len(chunk) * Medium.weight > S.room

Summarize(c) ==
  LET w == work[c]
      chunk == w.todo[1]
  IN
  /\ at \in {"visual", "text"} /\ w.todo # <<>>
  /\ calls' = calls + 1
  /\ IF ~TooLong(chunk)
       THEN /\ \E t \in NoteTokens :
                 work' = [work EXCEPT ![c] = [todo |-> Tail(w.todo), notes |-> Append(w.notes, Note(chunk, t))]]
            /\ at' = at
     ELSE IF Len(chunk) > 1
       THEN /\ work' = [work EXCEPT ![c].todo = Halves(chunk) \o Tail(w.todo)]
            /\ at' = at
     ELSE at' = "413" /\ UNCHANGED work
  /\ UNCHANGED <<job, m, notes, summaries>>

(* A call fails for another reason, or returns nothing.                     *)
Fail ==
  /\ at \in {"visual", "text", "retrieve", "reduce", "again", "final"}
  /\ calls' = calls + 1 /\ at' = "502"
  /\ UNCHANGED <<job, m, work, notes, summaries>>

Gather ==
  /\ at \in {"visual", "text"} /\ \A c \in DOMAIN work : work[c].todo = <<>>
  /\ notes' = FlattenSeq([c \in DOMAIN work |-> work[c].notes])
  /\ work' = <<>> /\ at' = Mapped
  /\ UNCHANGED <<job, m, summaries, calls>>

Tokens(ns) == FoldFunction(LAMBDA x, n : x.tokens + n, 0, ns)

(* _reduce_summaries, a round of its loop: a single note is rewritten once, *)
(* more are taken in groups.                                                *)
Limit == IF at = "final" THEN Greater(S.final, 2) ELSE 1
Goes == Len(notes) > Limit \/ Tokens(notes) > S.budget \/ (at = "reduce" /\ Len(notes) = 1)
Groups == Slices(notes, Greater(S.group, 2))
Merged(group, tokens) == Note(FlattenSeq([i \in DOMAIN group |-> group[i].covers]), tokens)

Reduce ==
  /\ at \in {"reduce", "again", "final"} /\ Goes
  /\ calls' = calls + Len(Groups)
  /\ IF \E g \in DOMAIN Groups : Tokens(Groups[g]) > S.room
       THEN at' = "413" /\ UNCHANGED notes
       ELSE /\ \E t \in [DOMAIN Groups -> NoteTokens] :
                 notes' = [g \in DOMAIN Groups |-> Merged(Groups[g], t[g])]
            /\ at' = CASE at = "final" /\ Len(notes) = 1 -> "done"
                       [] at # "final" /\ Len(notes) = 1 -> "taken"
                       [] at = "final" /\ Len(notes) > 1 -> "final"
                       [] at # "final" /\ Len(notes) > 1 -> "again"
  /\ UNCHANGED <<job, m, work, summaries>>

Reduced ==
  /\ at \in {"reduce", "again", "final"} /\ ~Goes
  /\ Becomes(IF at = "final" THEN "done" ELSE "taken")

Take ==
  /\ at = "taken"
  /\ summaries' = summaries \o notes
  /\ m' = m + 1 /\ at' = "medium"
  /\ UNCHANGED <<job, work, notes, calls>>

Collect ==
  /\ at = "medium" /\ m > Len(Media)
  /\ notes' = summaries
  /\ at' = IF summaries = <<>> THEN "400" ELSE "final"
  /\ UNCHANGED <<job, m, work, summaries, calls>>

Next == \/ Unusable \/ Image \/ Pdf \/ Video \/ Audio \/ Retrieve
        \/ \E c \in DOMAIN work : Summarize(c)
        \/ Fail \/ Gather \/ Reduce \/ Reduced \/ Take \/ Collect

Spec == Init /\ [][Next]_vars
-----------------------------------------------------------------------------
Told(ns) == FlattenSeq([n \in DOMAIN ns |-> ns[n].covers])
Before(a, b) == a[1] < b[1] \/ (a[1] = b[1] /\ a[2] < b[2])

(* The notes tell of each part once, in the order of the media, whatever    *)
(* was halved, regrouped or retrieved.                                      *)
InOrder == LET told == Told(notes) IN
  \A i, j \in DOMAIN told : i < j => Before(told[i], told[j])

(* Of a medium that was not searched, every part is told of, or every one   *)
(* that has text.                                                           *)
Complete == at = "done" =>
  LET told == ToSet(Told(notes)) IN
  \A x \in DOMAIN Media :
    LET parts == {i \in 1..Media[x].parts : <<x, i>> \in told} IN
    \/ parts = 1..Media[x].parts
    \/ Media[x].kind = "pdf" /\ S.pdf # "visual" /\ parts = Media[x].written
    \/ Media[x].kind = "pdf" /\ Retrieves /\ Cardinality(parts) >= 1

(* What is left for the prompt is short, or a single note.                  *)
Short == at = "done" => Len(notes) <= Greater(S.final, 2) /\ (Tokens(notes) <= S.budget \/ Len(notes) = 1)

(* Halving ends: a visual part is too long only by itself, and the calls    *)
(* are in proportion to the parts.                                          *)
Ends ==
  /\ at = "413" /\ work # <<>> => Medium.weight > S.room
  /\ calls <= 5 * FoldFunction(LAMBDA x, n : x.parts + n, 0, Media) + 1

MediaSound == InOrder /\ Complete /\ Short /\ Ends
=============================================================================
