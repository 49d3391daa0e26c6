------------------------------- MODULE ChatRequest -------------------------------
(***************************************************************************)
(* What a chat or Responses request becomes on its way to the backend      *)
(* (generate and _generate in src/gateway/generation.py, with              *)
(* multimodal.py, token_budget.py and the checks of the registry).         *)
(*                                                                         *)
(* A message has a role, tokens of text, a set of media, and the media of  *)
(* its turn that its text is about; the media of the request are those of  *)
(* the conversation when they are extracted.                               *)
(* How the history is summarized is in ContextCompression: here a summary  *)
(* takes the place of some turns and has any size.  The calls that process *)
(* media are in MediaEvidence: here they leave a text about each medium.   *)
(***************************************************************************)
EXTENDS Integers, Sequences, FiniteSets, Functions

CONSTANTS
  Requests,      \* conversation, requested (0 for none), stream, api
  Deployments,   \* backend, capability, gateway.json and model.json
  Kind,          \* of a medium: "image", "video", "audio" or "pdf"
  Estimate,      \* tokens a medium of a kind takes in the engine
  Embedded,      \* tokens the chat template renders for one
  Instruction, Marker, Evidence,   \* tokens of texts the gateway adds
  Summaries      \* tokens a summary may take

VARIABLES
  asked,     \* the request and the deployment
  at,        \* where the handler is, or the status it answered with
  conv,      \* conversation
  media,     \* request_media
  tokens,    \* reserved: for media, and for the output
  spent,     \* an inference was made for the request
  sent       \* what the backend is called with

vars == <<asked, at, conv, media, tokens, spent, sent>>
-----------------------------------------------------------------------------
Message(role, size, m) == [role |-> role, size |-> size, media |-> m, old |-> FALSE, about |-> {}]

MediaOf(c) == UNION {c[i].media : i \in DOMAIN c}
Kinds(m) == {Kind[x] : x \in m}
OfKind(m, k) == {x \in m : Kind[x] = k}
Total(of, m) ==
  Cardinality(OfKind(m, "image")) * of["image"] + Cardinality(OfKind(m, "video")) * of["video"]
    + Cardinality(OfKind(m, "audio")) * of["audio"] + Cardinality(OfKind(m, "pdf")) * of["pdf"]
Greater(a, b) == IF a > b THEN a ELSE b
Smaller(a, b) == IF a < b THEN a ELSE b

LatestUser(c) == IF \E i \in DOMAIN c : c[i].role = "user"
                   THEN CHOOSE i \in DOMAIN c : /\ c[i].role = "user"
                                                /\ \A j \in i+1..Len(c) : c[j].role # "user"
                   ELSE 0

(* The messages of a turn, which a user begins.                             *)
Turn(h, i) == {j \in DOMAIN h : \A k \in (Smaller(i, j)+1)..Greater(i, j) : h[k].role # "user"}

(* The messages of c at the places that stay, in their order.               *)
Only(c, stays) ==
  [n \in 1..Cardinality(stays) |-> c[CHOOSE i \in stays : Cardinality({j \in stays : j <= i}) = n]]
OfRole(c, roles) == Only(c, {i \in DOMAIN c : c[i].role \in roles})

(* What a client may send: an answer is about media that its turn brought.  *)
Messages ==
  [role : {"system", "user", "assistant", "tool"}, size : Nat, media : SUBSET DOMAIN Kind,
   old : BOOLEAN, about : SUBSET DOMAIN Kind]
Conversation(c) ==
  /\ c \in Seq(Messages)
  /\ \A i \in DOMAIN c :
       /\ ~c[i].old
       /\ c[i].role = "user" => c[i].about = {}
       /\ c[i].role = "assistant" =>
            c[i].about \subseteq UNION {c[j].media : j \in {j \in Turn(c, i) : c[j].role # "system"}}

ChatAssumption ==
  /\ IsFiniteSet(DOMAIN Kind)
  /\ \A x \in DOMAIN Kind : Kind[x] \in {"image", "video", "audio", "pdf"}
  /\ \A k \in {"image", "video", "audio", "pdf"} : Estimate[k] \in Nat /\ Embedded[k] \in Nat
  /\ {Instruction, Marker} \subseteq Nat /\ Evidence \in Nat \ {0} /\ Summaries \subseteq Nat
  /\ \A r \in Requests : Conversation(r.conversation) /\ r.requested \in Nat
  /\ \A d \in Deployments :
       /\ d.backend \in {"vllm", "vllm_multimodal", "vllm_deepseek", "python", "other"}
       /\ d.mode \in {"disabled", "truncate", "summarize"}
       /\ {d.window, d.margin, d.images} \subseteq Nat /\ {d.cap, d.default} \subseteq Nat \ {0}
-----------------------------------------------------------------------------
(* scope_media_history, of all but the latest turn.                         *)
(* Variant: it keeps what the assistant or a tool attached.                 *)
Forgotten(m) == IF m.media = {} THEN m ELSE [m EXCEPT !.media = {}, !.old = TRUE]

ScopedToUsers(c, keepTools) ==
  LET u == LatestUser(c) IN
  IF u = 0 THEN c ELSE [i \in DOMAIN c |-> IF c[i].role # "user" \/ i = u THEN c[i] ELSE Forgotten(c[i])]

Scoped(c, keepTools) ==
  LET u == LatestUser(c) IN
  IF u = 0 THEN c
  ELSE [i \in DOMAIN c |-> IF i = u \/ (keepTools /\ i > u) THEN c[i] ELSE Forgotten(c[i])]

(* isolate_latest_media_turn.                                               *)
Isolated(c) ==
  LET u == LatestUser(c)
      stays == {i \in DOMAIN c : c[i].role = "system" \/ i >= u}
  IN IF u = 0 THEN c ELSE Only(c, stays)

(* _neutralize_historical_media_turns: a turn whose media were removed      *)
(* keeps the words of the user, not the answers about them.                 *)
Neutral(m) == CASE m.role = "user" -> [m EXCEPT !.size = m.size + Marker, !.media = {}]
                [] m.role = "assistant" -> [m EXCEPT !.size = Marker, !.media = {}, !.about = {}]
                [] OTHER -> m

Neutralized(h) ==
  [i \in DOMAIN h |-> IF \E j \in Turn(h, i) : h[j].old THEN Neutral(h[i]) ELSE h[i]]

(* focus_current_media_context: the newest messages of the history that the *)
(* budget pays for.                                                         *)
Cost(h, i) == FoldFunctionOnSet(LAMBDA m, n : m.size + 1 + n, 0, h, i..Len(h))

Affordable(h, max) ==
  IF max < 0 THEN h
  ELSE SubSeq(h, 1 + Cardinality({i \in DOMAIN h : Cost(h, i) > max}), Len(h))

Focused(c, max) ==
  LET u == LatestUser(c)
      past == SubSeq(c, 1, u - 1)
      system == OfRole(past, {"system"})
      history == Neutralized(OfRole(past, {"user", "assistant", "tool"}))
      told == IF system = <<>> THEN <<Message("system", Instruction, {})>>
              ELSE [system EXCEPT ![1].size = @ + Instruction]
  IN IF u = 0 THEN c ELSE told \o Affordable(history, max) \o SubSeq(c, u, Len(c))

Stripped(c) == [i \in DOMAIN c |-> [c[i] EXCEPT !.old = FALSE]]

(* requires_gateway_media_preprocessing.                                    *)
Preprocessed(d, m) ==
  CASE d.backend = "vllm" -> Kinds(m) \cap {"video", "audio", "pdf"} # {}
    [] d.backend = "vllm_multimodal" ->
         "pdf" \in Kinds(m) \/ ("audio" \in Kinds(m) /\ d.asr)
    [] OTHER -> FALSE

(* _conversation_with_media_evidence.                                       *)
Told(c, m) ==
  LET u == LatestUser(c)
      plain == [i \in DOMAIN c |->
                  [c[i] EXCEPT !.media = {},
                               !.size = @ + (IF i = u THEN Evidence ELSE 0),
                               !.about = @ \cup (IF i = u THEN m ELSE {})]]
      said == Only(plain, {i \in DOMAIN c : plain[i].size > 0 \/ c[i].role \in {"assistant", "tool"}})
  IN IF u > 0 THEN said ELSE Append(said, [Message("user", Evidence, {}) EXCEPT !.about = m])
-----------------------------------------------------------------------------
(* _measure_prompt and _additional_media_tokens.                            *)
Text(c) == FoldFunction(LAMBDA m, n : m.size + n, 0, c)
PromptTokens(c) == Text(c) + Total(Embedded, MediaOf(c))
MediaTokens(c) == LET m == MediaOf(c) IN
  IF Total(Estimate, m) = 0 THEN 0 ELSE Greater(0, Total(Estimate, m) - Total(Embedded, m))

(* oldest_removable_turn.                                                   *)
WithoutOldest(c) ==
  LET history == {i \in 1..LatestUser(c) - 1 : c[i].role # "system"}
      first == CHOOSE i \in history : \A j \in history : i <= j
      turn == {i \in history : \A j \in first+1..i : c[j].role # "user"}
      stays == DOMAIN c \ turn
  IN IF history = {} THEN c ELSE Only(c, stays)

(* _inject_summary.                                                         *)
Injected(c, size) ==
  LET system == {i \in DOMAIN c : \A j \in 1..i : c[j].role = "system"}
      n == Cardinality(system)
  IN SubSeq(c, 1, n) \o <<Message("system", 1, {}), Message("assistant", size, {})>>
       \o SubSeq(c, n + 1, Len(c))
-----------------------------------------------------------------------------
R == asked.request
D == asked.deployment
DeepSeek == D.backend = "vllm_deepseek"
Chat == R.api = "chat"

Init ==
  /\ asked \in [request : Requests, deployment : Deployments]
  /\ at = "validate"
  /\ conv = asked.request.conversation
  /\ media = {} /\ tokens = [media |-> 0, output |-> 0]
  /\ spent = FALSE
  /\ sent = [conv |-> <<>>, media |-> {}, max |-> 0]

Go(there) == at' = there /\ UNCHANGED <<asked, media, tokens, spent, sent>>
Refuse(status) == Go(status) /\ UNCHANGED conv

(* validate_media.                                                          *)
NoVision(m) == m # {} /\ (D.images = 0 \/ Kinds(m) # {"image"})
TooManyImages(m) == Cardinality(m) > D.images

(* generate, until the request is admitted.                                 *)
Validate ==
  /\ at = "validate"
  /\ IF D.capability # "chat" THEN Refuse("400")
     ELSE IF DeepSeek /\ NoVision(MediaOf(conv)) THEN Refuse("400")
     ELSE IF DeepSeek /\ TooManyImages(MediaOf(Scoped(conv, TRUE))) THEN Refuse("400")
     ELSE Refuse("scope")

TooMuch == R.requested > D.cap

Scope ==
  /\ at = "scope"
  /\ LET c == IF Chat /\ D.history = "latest" THEN Scoped(conv, DeepSeek) ELSE conv
         m == MediaOf(c)
         unfit == ~Chat /\ (\/ Kinds(m) \cap {"audio", "video", "pdf"} # {}
                            \/ Kinds(m) # {} /\ ~DeepSeek /\ ~D.vision)
     IN IF TooMuch \/ unfit THEN Refuse("400")
        ELSE /\ conv' = c /\ media' = m /\ at' = "focus"
             /\ UNCHANGED <<asked, tokens, spent, sent>>

HistoryBudget == IF D.mode = "summarize" THEN -1 ELSE D.historyTokens

Focus ==
  /\ at = "focus"
  /\ conv' = Stripped(IF Chat /\ media # {} /\ D.reset THEN Isolated(conv)
                      ELSE IF Chat /\ media # {} /\ D.focus THEN Focused(conv, HistoryBudget)
                      ELSE conv)
  /\ Go("preprocess")

(* prepare_vllm_media_conversation may fail.                                *)
Preprocess ==
  /\ at = "preprocess"
  /\ IF ~Preprocessed(D, media) THEN Refuse("measure")
     ELSE \/ /\ conv' = Told(conv, media) /\ at' = "measure"
             /\ spent' = TRUE /\ UNCHANGED <<asked, media, tokens, sent>>
          \/ /\ spent' = TRUE /\ at' = "media failed" /\ UNCHANGED <<asked, media, tokens, conv, sent>>

Available(c) == D.window - PromptTokens(c) - MediaTokens(c) - D.margin
Default == Smaller(D.default, D.cap)
ByTurns == ~Chat \/ (DeepSeek /\ "image" \in Kinds(media) /\ D.mode = "truncate")

(* The measurement before the context is fitted; it stays as it is when     *)
(* something is left for the answer.                                        *)
Measure ==
  /\ at = "measure"
  /\ LET output == IF R.requested > 0 THEN R.requested
                   ELSE Greater(1, Smaller(Default, Available(conv)))
         whole == R.requested = 0 /\ Available(conv) > 0
     IN /\ tokens' = [media |-> MediaTokens(conv),
                      output |-> IF ~Chat THEN Greater(1, R.requested) ELSE output]
        /\ at' = CASE ByTurns /\ ~(Chat /\ whole) -> "turns"
                   [] D.mode = "disabled" \/ whole -> "whole"
                   [] OTHER -> D.mode
  /\ UNCHANGED <<asked, conv, media, spent, sent>>

Limit == D.window - tokens.output - tokens.media - D.margin
Fits(c) == PromptTokens(c) <= Limit

(* prepare_conversation_context, by its mode; context_prompt_limit.         *)
Whole ==
  /\ at = "whole"
  /\ IF Limit > 0 /\ Fits(conv) THEN Refuse("call") ELSE Refuse("400")

Truncate ==
  /\ at = "truncate"
  /\ IF Limit <= 0 THEN Refuse("400")
     ELSE IF Fits(conv) THEN Refuse("call")
     ELSE IF WithoutOldest(conv) = conv THEN Refuse("400")
     ELSE conv' = WithoutOldest(conv) /\ Go("truncate")

Summarize ==
  /\ at = "summarize"
  /\ IF Limit <= 0 THEN Refuse("400")
     ELSE \/ Fits(conv) /\ Refuse("call")
          \/ ~Fits(conv) /\ Refuse("400")
          \/ ~Fits(conv) /\ spent' = TRUE /\ at' = "truncate"
               /\ UNCHANGED <<asked, conv, media, tokens, sent>>
          \/ \E n \in 1..Len(conv), size \in Summaries :
               LET less[i \in 0..n] == IF i = 0 THEN conv ELSE WithoutOldest(less[i - 1])
                   c == Injected(less[n], size)
               IN /\ less[n] # less[n - 1] /\ Fits(c)
                  /\ conv' = c /\ spent' = TRUE /\ at' = "call"
                  /\ UNCHANGED <<asked, media, tokens, sent>>

(* _prepare_responses_context: measured again after each turn.              *)
Turns ==
  /\ at = "turns"
  /\ LET fits == tokens.output <= Available(conv) IN
     IF fits THEN Refuse("call")
     ELSE IF D.mode # "truncate" \/ WithoutOldest(conv) = conv THEN Refuse("400")
     ELSE conv' = WithoutOldest(conv) /\ Go("turns")

(* choose_budget.                                                           *)
(* Variant: what is available for a default limit is not looked at.         *)
EffectiveUnbounded(available) == IF R.requested > 0 THEN R.requested ELSE Default

Effective(available) ==
  IF R.requested > 0 THEN R.requested ELSE Smaller(Default, available)

(* What the functions of the backends are given of the media.               *)
Passed(m) ==
  CASE D.backend \in {"python", "vllm_multimodal", "vllm_deepseek"} -> m
    [] D.backend = "vllm" -> OfKind(m, "image")
    [] OTHER -> IF R.stream THEN {} ELSE OfKind(m, "image")

Call ==
  /\ at = "call"
  /\ LET m == MediaOf(conv)
         available == Available(conv)
         max == Effective(available)
     IN IF DeepSeek /\ TooManyImages(m) THEN Refuse("too many images")
        ELSE IF max <= 0 \/ max > available THEN Refuse("late")
        ELSE /\ sent' = [conv |-> conv, media |-> Passed(m), max |-> max]
             /\ at' = "called"
             /\ spent' = TRUE /\ UNCHANGED <<asked, conv, media, tokens>>

Next == \/ Validate \/ Scope \/ Focus \/ Preprocess \/ Measure
        \/ Whole \/ Truncate \/ Summarize \/ Turns \/ Call

Spec == Init /\ [][Next]_vars
-----------------------------------------------------------------------------
Called == at = "called"
Original == R.conversation
Latest == LET u == LatestUser(Original) IN IF u = 0 THEN {} ELSE Original[u].media
Active == LET u == LatestUser(Original) IN IF u = 0 THEN {} ELSE MediaOf(SubSeq(Original, u, Len(Original)))
About(role) == UNION {sent.conv[i].about : i \in {j \in DOMAIN sent.conv : sent.conv[j].role = role}}
Known == sent.media \cup About("user")

(* What the backend may write, beside the prompt and what the media take,   *)
(* is within the window, and is what was asked for.                         *)
WithinWindow == Called =>
  /\ PromptTokens(sent.conv) + MediaTokens(sent.conv) + D.margin + sent.max <= D.window
  /\ sent.max \in 1..D.cap
  /\ R.requested > 0 => sent.max = R.requested

(* A request that fitted is not refused by the budget: the two computations *)
(* of the media reserve and of the limit agree, unless the reserve for a    *)
(* medium is less than what the template renders for it, as it is of a PDF. *)
NoLateRefusal == at = "late" => \E k \in Kinds(media) : Estimate[k] < Embedded[k]

(* The media of the latest message reach the model, as such or as a text    *)
(* about them; older ones do not unless gateway.json says so.               *)
RightMedia == (Called /\ Chat /\ D.backend # "other" /\ LatestUser(Original) > 0) =>
  /\ Latest \subseteq Known
  /\ D.history = "latest" => Known \subseteq (IF DeepSeek THEN Active ELSE Latest)

(* When the current media are the subject, no answer of an earlier turn     *)
(* about its media is left to be taken for one about them; the gateway's    *)
(* marks are gone.                                                          *)
NoOldAnswers == Called =>
  /\ Chat /\ LatestUser(Original) > 0 /\ (D.reset \/ D.focus) /\ D.history = "latest" /\ media # {}
       => About("assistant") \subseteq Active
  /\ \A i \in DOMAIN sent.conv : ~sent.conv[i].old

(* Images in the active turn that are too many cost no inference.           *)
EarlyRefusal == (DeepSeek /\ spent) => Cardinality(Active) <= D.images

ChatSound == WithinWindow /\ NoLateRefusal /\ RightMedia /\ NoOldAnswers /\ EarlyRefusal
=============================================================================
