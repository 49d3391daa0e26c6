------------------------------- MODULE MCServices -------------------------------
(***************************************************************************)
(* The components of a request's way that share no state, for TLC: a       *)
(* behaviour is one of them at work, which "part" names; the others keep   *)
(* still.  Batch and Services are extended; the others are instances with  *)
(* variables of their own.  What each of them is given is below its name.  *)
(***************************************************************************)
EXTENDS Batch, Services, TLC

VARIABLES
  part,
  outAt, outOf, outRaw, outScan, outResult, outEmitted, outThought, outShown, outRevised, outAgain,
  medJob, medAt, medM, medWork, medNotes, medSummaries, medCalls,
  deepOf, deepAt, deepRead, deepParser, deepReason,
  respOf, respSource, respAt, respOutput, respIndices, respFinish, respWire, respClosed

-----------------------------------------------------------------------------
(* ContextCompression: three conversations over twelve messages, the last   *)
(* of which are alternatives.                                               *)
ContextRoles == <<"system", "user", "assistant", "tool", "user", "assistant",
                  "user", "assistant", "user", "assistant", "user", "user">>
ContextScores == <<0, 1, 9, 10, 1, 0, 1, 0, 0, 0, 0, 0>>
ContextConversations == {1..9, 1..11, (1..8) \cup {12}}
Summarizing ==
  [mode |-> "summarize", fallback |-> "truncate", trigger |-> 100, target |-> 90, preserve |-> 1,
   summaryMax |-> 1, chunk |-> 3, calls |-> 2, evidence |-> 1, cache |-> 1]
ContextConfigs ==
  {Summarizing, [Summarizing EXCEPT !.mode = "truncate"], [Summarizing EXCEPT !.mode = "disabled"],
   [Summarizing EXCEPT !.cache = 2, !.fallback = "disabled", !.target = 100]}

-----------------------------------------------------------------------------
(* OutputStream: the pieces a model may write, chosen so that each kind of  *)
(* marker occurs, with every parser and mode.                               *)
Writes(words, most, parser, mode) ==
  [words |-> words, most |-> most, parser |-> parser, mode |-> mode, metadata |-> most # 4]
OutputRequests ==
  {Writes({"w", "nl", "user", "assistant", "leak"}, 4, "none", "disabled"),
   Writes({"w", "nl", "im", "end"}, 5, "none", "disabled"),
   Writes({"w", "op", "cl", "ose"}, 5, "none", "disabled"),
   Writes({"w", "op", "en", "cl", "ose"}, 5, "tags", "disabled"),
   Writes({"w", "to", "ol", "cl", "ose"}, 5, "tags", "separate"),
   Writes({"w", "op", "en", "cl", "ose"}, 5, "tags", "hidden"),
   Writes({"w", "cue", "nl", "cl", "ose"}, 4, "none", "disabled")}
Out == INSTANCE OutputStream WITH
  Requests <- OutputRequests, MaxChunk <- 2, Holdback <- 2, ThoughtHoldback <- 1,
  HeadLeast <- 1, TailLeast <- 1, Compared <- 2,
  at <- outAt, of <- outOf, raw <- outRaw, scan <- outScan, result <- outResult, emitted <-
  outEmitted, thought <- outThought, shown <- outShown, revised <- outRevised, again <-
  outAgain
outVars == <<outAt, outOf, outRaw, outScan, outResult, outEmitted, outThought, outShown, outRevised, outAgain>>
outOff == outAt = None /\ outOf = None /\ outRaw = None /\ outScan = None /\ outResult = None /\
  outEmitted = None /\ outThought = None /\ outShown = None /\ outRevised = None /\ outAgain
  = None


-----------------------------------------------------------------------------
(* Reranking: requests that meet each strategy, parameter and limit.        *)
Doc(words, metadata) == [words |-> words, metadata |-> metadata]
Docs == <<Doc({"a", "b"}, "x"), Doc({"a"}, "y"), Doc({"b", "c"}, "x"), Doc({}, None)>>
NoParameters == [x \in {} |-> None]
Ask(n, size, cap, strategy, parameters) ==
  [documents |-> SubSeq(Docs, 1, n), size |-> size, length |-> None, cap |-> cap,
   strategy |-> strategy, parameters |-> parameters]
RerankRequests ==
  {Ask(4, None, 2, None, NoParameters), Ask(3, 3, None, "diversity", "similarity" :> 40),
   Ask(4, 2, None, "own", NoParameters), Ask(3, 1, 1, "own", "threshold" :> 2),
   Ask(3, None, None, "metadata_filter", "filter" :> "x"),
   Ask(4, 3, None, "diversity", [similarity |-> 40, top_n |-> 2]),
   Ask(0, None, None, None, NoParameters), Ask(2, 4, None, None, NoParameters),
   Ask(2, 0, None, None, NoParameters),
   [Ask(2, None, None, None, NoParameters) EXCEPT !.length = 9],
   Ask(2, None, 0, None, NoParameters), Ask(2, None, 1, "none", NoParameters)}
Own(method, parameters, allow) == "own" :> [method |-> method, parameters |-> parameters, allow |-> allow]
Ranking ==
  [size |-> 2, maxSize |-> 3, batchTokens |-> 8, length |-> 4, maxLength |-> 9, documents |-> 4,
   default |-> "top_n", strategies |-> Own("score_threshold", "threshold" :> 1, {"top_n"}),
   database |-> "off"]
RerankConfigs ==
  {Ranking, [Ranking EXCEPT !.database = "optional"],
   [Ranking EXCEPT !.database = "required", !.documents = 3, !.batchTokens = 4],
   [Ranking EXCEPT !.strategies = Own("diversity", "filter" :> "x", {})]}
FirstAsked ==
  [request |-> Ask(0, None, None, None, NoParameters), config |-> Ranking, database |-> NoRows]
RerankDatabases ==
  {NoRows, Own("diversity", "similarity" :> 40, {"threshold"}), Own("top_n", "filter" :> "x", {})}

-----------------------------------------------------------------------------
(* ChatRequest: histories with media in the last turn, before it and in     *)
(* what the assistant wrote; every backend, mode and setting.               *)
Says(role, size, media) ==
  [role |-> role, size |-> size, media |-> media, old |-> FALSE, about |-> {}]
Replies(size, media) == [Says("assistant", size, {}) EXCEPT !.about = media]
ChatConversations ==
  {<<Says("user", 2, {"i1"}), Replies(2, {"i1"}), Says("user", 2, {"i2"})>>,
   <<Says("system", 1, {}), Says("user", 2, {"p1"}), Replies(3, {"p1"}), Says("user", 1, {}),
     Says("assistant", 1, {}), Says("user", 2, {"i2"})>>,
   <<Says("user", 3, {}), Says("assistant", 2, {}), Says("user", 1, {"i1", "v1"}), Replies(1, {"i1"}),
     Says("tool", 1, {"i2"})>>,
   <<Says("user", 2, {"a1"}), Says("assistant", 2, {}), Says("user", 1, {}), Says("assistant", 4, {}),
     Says("user", 1, {})>>,
   <<Says("user", 1, {}), Says("assistant", 3, {}), Says("user", 0, {"p1", "i1"})>>,
   <<Says("assistant", 3, {"i1"})>>}
ChatRequests ==
  [conversation : ChatConversations, requested : {0, 2}, stream : BOOLEAN, api : {"chat"}]
    \cup [conversation : ChatConversations, requested : {0, 4, 7}, stream : {FALSE}, api : {"responses"}]
ChatKinds == [i1 |-> "image", i2 |-> "image", v1 |-> "video", a1 |-> "audio", p1 |-> "pdf"]
ChatEstimate == [image |-> 2, video |-> 3, audio |-> 2, pdf |-> 0]
ChatEmbedded == [image |-> 1, video |-> 1, audio |-> 1, pdf |-> 1]
Deployed ==
  [backend |-> "vllm_multimodal", capability |-> "chat", images |-> 1, cap |-> 5, vision |-> TRUE,
   history |-> "latest", reset |-> FALSE, focus |-> TRUE, mode |-> "truncate", historyTokens |-> 6,
   asr |-> FALSE, window |-> 14, margin |-> 1, default |-> 3]
ChatDeployments ==
  {[Deployed EXCEPT !.backend = b, !.mode = mode, !.window = w, !.history = h] :
      b \in {"vllm", "vllm_multimodal", "vllm_deepseek", "python", "other"},
      mode \in {"truncate", "summarize", "disabled"}, w \in {8, 12, 16}, h \in {"latest", "all"}}
    \cup {[Deployed EXCEPT !.reset = TRUE, !.asr = TRUE, !.history = h] : h \in {"latest", "all"}}
    \cup {[Deployed EXCEPT !.focus = FALSE, !.images = 2, !.backend = b] :
            b \in {"vllm_deepseek", "vllm", "python"}}
    \cup {[Deployed EXCEPT !.capability = "embeddings"], [Deployed EXCEPT !.vision = FALSE]}
FirstChat == CHOOSE a \in [request : ChatRequests, deployment : ChatDeployments] : TRUE

-----------------------------------------------------------------------------
(* MediaEvidence: media that need one map, several, and a reduction.        *)
Medium(kind, parts, written, weight) == [kind |-> kind, parts |-> parts, written |-> written, weight |-> weight]
MediaOf ==
  {<<Medium("video", 3, {}, 1), Medium("image", 1, {}, 2)>>, <<Medium("pdf", 4, {1, 3, 4}, 1)>>,
   <<Medium("pdf", 5, {}, 2)>>, <<Medium("audio", 4, {}, 1), Medium("pdf", 2, {2}, 1)>>,
   <<Medium("pdf", 2, {1, 2}, 1), Medium("image", 1, {}, 4)>>,
   <<Medium("audio", 1, {}, 1), Medium("video", 4, {}, 1)>>}
Preprocess ==
  [pdf |-> "auto", enough |-> 2, embedding |-> FALSE, top |-> 2, images |-> 4, frames |-> 3,
   pages |-> 4, text |-> 2, group |-> 2, final |-> 2, budget |-> 3, room |-> 3]
MediaJobs ==
  [media : MediaOf, query : {"question"},
   settings : {Preprocess, [Preprocess EXCEPT !.embedding = TRUE, !.room = 5],
               [Preprocess EXCEPT !.pdf = "visual", !.final = 3]}]
    \cup [media : MediaOf, query : {"summary"}, settings : {[Preprocess EXCEPT !.embedding = TRUE, !.text = 1]}]
Media == INSTANCE MediaEvidence WITH
  Jobs <- MediaJobs, NoteTokens <- {1, 2},
  job <- medJob, at <- medAt, m <- medM, work <- medWork, notes <- medNotes, summaries <-
  medSummaries, calls <- medCalls
medVars == <<medJob, medAt, medM, medWork, medNotes, medSummaries, medCalls>>
medOff == medJob = None /\ medAt = None /\ medM = None /\ medWork = None /\ medNotes = None /\
  medSummaries = None /\ medCalls = None

-----------------------------------------------------------------------------
(* DeepSeekStream: markers that are cut anywhere, that only look like one,  *)
(* and that come where they must not.                                       *)
Profile(thinking, tools, required, structured) ==
  [thinking |-> thinking, tools |-> tools, required |-> required, structured |-> structured]
DeepProfiles ==
  {Profile(FALSE, TRUE, FALSE, FALSE), Profile(TRUE, TRUE, TRUE, FALSE),
   Profile(TRUE, FALSE, FALSE, FALSE), Profile(FALSE, FALSE, FALSE, TRUE)}
Eos == <<"<", "|", "eos">>
Block(body) == <<"<", "|", "dsml">> \o body \o <<"<", "/", "|", "dsml">>
EndThink == <<"<", "/", "think">>
DeepAnswers ==
  {<<"w", "<", "w">> \o Block(<<"call", "ws">>) \o <<"ws">> \o Eos \o <<"w">>,
   <<"w">> \o EndThink \o <<"w", "<">> \o Block(<<"call", "call">>) \o <<"<", "w">>,
   <<"w">> \o EndThink \o Block(<<"call">>) \o <<"<", "|", "dsml", "call", "<", "/", "|">>,
   <<"w", "<", "/", "w">> \o Block(<<"bad">>),
   <<"w">> \o EndThink \o <<"w", "<", "think", "w">>,
   <<"q", "w", "<", "|", "eos", "q", "w">> \o Eos, <<"q", "w", "q", "<", "|">>,
   <<"w", "<", "|", "w">>, <<"w", "<">>, Eos}
Deep == INSTANCE DeepSeekStream WITH
  Answers <- DeepAnswers, Profiles <- DeepProfiles,
  Endings <- {"stop", "length", "abort", "none"}, MaxChunk <- 3,
  of <- deepOf, at <- deepAt, read <- deepRead, parser <- deepParser, reason <- deepReason
deepVars == <<deepOf, deepAt, deepRead, deepParser, deepReason>>
deepOff == deepOf = None /\ deepAt = None /\ deepRead = None /\ deepParser = None /\ deepReason =
  None

-----------------------------------------------------------------------------
(* ResponseEvents: no text, text in pieces; no call, one, two.              *)
Function(name, args) == [name |-> name, args |-> args]
ResponseResults ==
  [content : {<<>>, <<"w">>, <<"w", "x">>}, finish : {"stop", "length"},
   calls : {<<>>, <<Function("f", <<"1">>)>>, <<Function("f", <<>>), Function("g", <<"1", "2">>)>>}]
Resp == INSTANCE ResponseEvents WITH
  Results <- ResponseResults, Paths <- {"python", "aware", "deltas", "blocks"}, Nothing <- None,
  of <- respOf, source <- respSource, at <- respAt, output <- respOutput, indices <-
  respIndices, finish <- respFinish, wire <- respWire, closed <- respClosed
respVars == <<respOf, respSource, respAt, respOutput, respIndices, respFinish, respWire, respClosed>>
respOff == respOf = None /\ respSource = None /\ respAt = None /\ respOutput = None /\ respIndices =
  None /\ respFinish = None /\ respWire = None /\ respClosed = None

-----------------------------------------------------------------------------
Parts == {"batch", "context", "output", "tokenizers", "backends", "accounts",
          "startup", "reranking", "chat", "media", "deepseek", "responses"}

ServicesInit ==
  /\ part \in Parts
  /\ Init /\ (part # "batch" => shape = "workers")
  /\ IF part = "output" THEN Out!Init ELSE outOff
  /\ Tokenizers!Init /\ (part # "tokenizers" => tokLink = "v1")
  /\ Backends!Init /\ (part # "backends" => bckConfig.says = "vllm")
  /\ Accounts!Init /\ Start!Init /\ Context!Init
  /\ Rank!Init /\ (part # "reranking" => rankAsked = FirstAsked)
  /\ Chat!Init /\ (part # "chat" => chatAsked = FirstChat)
  /\ IF part = "media" THEN Media!Init ELSE medOff
  /\ IF part = "deepseek" THEN Deep!Init ELSE deepOff
  /\ IF part = "responses" THEN Resp!Init ELSE respOff

Still ==
  /\ UNCHANGED part
  /\ part # "batch" => UNCHANGED vars
  /\ part # "context" => UNCHANGED ctxVars
  /\ part # "output" => UNCHANGED outVars
  /\ part # "tokenizers" => UNCHANGED tokVars
  /\ part # "backends" => UNCHANGED bckVars
  /\ part # "accounts" => UNCHANGED accVars
  /\ part # "startup" => UNCHANGED staVars
  /\ part # "reranking" => UNCHANGED rankVars
  /\ part # "chat" => UNCHANGED chatVars
  /\ part # "media" => UNCHANGED medVars
  /\ part # "deepseek" => UNCHANGED deepVars
  /\ part # "responses" => UNCHANGED respVars

ServicesNext ==
  /\ Still
  /\ \/ part = "batch" /\ Next
     \/ part = "context" /\ Context!Next
     \/ part = "output" /\ Out!Next
     \/ part = "tokenizers" /\ Tokenizers!Next
     \/ part = "backends" /\ Backends!Next
     \/ part = "accounts" /\ Accounts!Next
     \/ part = "startup" /\ Start!Next
     \/ part = "reranking" /\ Rank!Next
     \/ part = "chat" /\ Chat!Next
     \/ part = "media" /\ Media!Next
     \/ part = "deepseek" /\ Deep!Next
     \/ part = "responses" /\ Resp!Next

servicesVars == <<part, vars, ctxVars, outVars, tokVars, bckVars, accVars, staVars, rankVars,
                  chatVars, medVars, deepVars, respVars>>

(* The fairness of LoopSpec, and of Startup.                                *)
ServicesSpec ==
  /\ ServicesInit /\ [][ServicesNext]_servicesVars
  /\ WF_vars(part = "batch" /\ Caller)
  /\ \A t \in Inputs : WF_vars(part = "batch" /\ Unwinds(t))
  /\ WF_staVars(part = "startup" /\ Start!MainSteps) /\ WF_staVars(part = "startup" /\ Start!Report)
-----------------------------------------------------------------------------
(* A client that reads a stream has what a request without one would give   *)
(* it, and no part of a marker (OutputStream).                              *)
OutputSound == part = "output" => Out!OutputSound

(* The start of a model ends although the engine never answers (Startup).   *)
InitializeEnds == part = "startup" => Start!InitializeEnds

(* The notes of a medium tell of each part of it, in order, and fit         *)
(* (MediaEvidence).                                                         *)
MediaSound == part = "media" => Media!MediaSound

(* Chunks do not matter to a DeepSeek answer, and both protocols show the   *)
(* client the same answer with or without a stream (DeepSeekStream,         *)
(* ResponseEvents).                                                         *)
AnswersSound ==
  /\ part = "deepseek" => Deep!DeepSeekSound
  /\ part = "responses" => Resp!ResponseSound
=============================================================================
