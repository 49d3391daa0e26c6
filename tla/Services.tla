-------------------------------- MODULE Services --------------------------------
(***************************************************************************)
(* The services beside a request that keep a state of their own: what the  *)
(* model registry remembers (TokenizerLoads, BackendConfig), what the      *)
(* gateway records (Accounting), what it does to histories that are too    *)
(* long (ContextCompression), the life of a DeepSeek backend around its    *)
(* engine (Startup), a rerank request (Reranking) and what a chat request  *)
(* becomes (ChatRequest).  They share no state; what is asked of each is   *)
(* stated here for all of their users.                                     *)
(***************************************************************************)
EXTENDS Integers, Sequences, FiniteSets

CONSTANTS
  Callers,                         \* who asks the registry
  Versions, NoVersion,             \* of a model, each with its tokenizer
  LoadTasks, NoTask,               \* bound: loading tasks
  BackendNames, NoAnswer,          \* what config.pbtxt may say
  Changes,                         \* bound: times it is rewritten
  RequestCalls,                    \* the calls of a request
  MaxTokens,                       \* bound: completion_tokens
  QueueSize,                       \* VLLM_MULTIMODAL_METRICS_QUEUE_SIZE
  Prompts,                         \* the requests whose histories are fitted
  Conversations, Speaker, Score,   \* histories, and what each message is
  Limits, Configs,                 \* of a model: tokens left for a prompt, settings
  Overhead, SummaryTokens,         \* tokens around a summary, and of one
  SummarySlots,                    \* GATEWAY_CONTEXT_SUMMARY_MAX_CONCURRENCY
  Queries, Ranks, Databases,       \* of rerank: requests, gateway.json, strategy databases
  RankScores,                      \* what Triton may give a document
  None, NoRows,                    \* an absent field, a database that fails
  Chats, Deployments,              \* chat requests, and what they may find
  MediumKind,                      \* of each medium
  Estimate, Embedded,              \* tokens of a kind: in the engine, in the template
  InstructionTokens, MarkerTokens, EvidenceTokens, Summaries   \* of what the gateway adds

VARIABLES
  tokLink, tokCaller, tokTask, tokLoads, tokLock, tokCache,
  bckConfig, bckCaller, bckMemo,
  accReq, accCall, accStats,
  ctxReq, ctxCache,
  staMain, staTask, staEngine, staShared, staSent, staStats, staResponse,
  rankAsked, rankAt, rankPlan, rankStrategy, rankScores, rankGiven, rankResults,
  chatAsked, chatAt, chatConv, chatMedia, chatTokens, chatSpent, chatSent

Tokenizers == INSTANCE TokenizerLoads WITH
  Tasks <- LoadTasks,
  link <- tokLink, caller <- tokCaller, task <- tokTask, loads <- tokLoads, lock <- tokLock,
  cache <- tokCache

Backends == INSTANCE BackendConfig WITH
  Backends <- BackendNames, config <- bckConfig, caller <- bckCaller, memo <- bckMemo

Accounts == INSTANCE Accounting WITH
  Calls <- RequestCalls, req <- accReq, call <- accCall, stats <- accStats

Context == INSTANCE ContextCompression WITH
  Requests <- Prompts, Role <- Speaker, Slots <- SummarySlots, req <- ctxReq, cache <- ctxCache

Start == INSTANCE Startup WITH
  main <- staMain, task <- staTask, engine <- staEngine, shared <- staShared, sent <- staSent,
  stats <- staStats, response <- staResponse

Rank == INSTANCE Reranking WITH
  Requests <- Queries, Configs <- Ranks, Scores <- RankScores,
  asked <- rankAsked, at <- rankAt, plan <- rankPlan, strategy <- rankStrategy,
  scores <- rankScores, given <- rankGiven, results <- rankResults

Chat == INSTANCE ChatRequest WITH
  Requests <- Chats, Kind <- MediumKind,
  Instruction <- InstructionTokens, Marker <- MarkerTokens, Evidence <- EvidenceTokens,
  asked <- chatAsked, at <- chatAt, conv <- chatConv, media <- chatMedia, tokens <- chatTokens,
  spent <- chatSpent, sent <- chatSent

ASSUME ServicesAssumption ==
  /\ NoTask \notin LoadTasks /\ NoVersion \notin Versions
  /\ MaxTokens \in Nat /\ QueueSize \in Nat
  /\ Context!ContextAssumption /\ Rank!RerankAssumption /\ Chat!ChatAssumption

tokVars == <<tokLink, tokCaller, tokTask, tokLoads, tokLock, tokCache>>
bckVars == <<bckConfig, bckCaller, bckMemo>>
accVars == <<accReq, accCall, accStats>>
ctxVars == <<ctxReq, ctxCache>>
staVars == <<staMain, staTask, staEngine, staShared, staSent, staStats, staResponse>>
rankVars == <<rankAsked, rankAt, rankPlan, rankStrategy, rankScores, rankGiven, rankResults>>
chatVars == <<chatAsked, chatAt, chatConv, chatMedia, chatTokens, chatSpent, chatSent>>
-----------------------------------------------------------------------------
(* What a request learns of its model was so at some moment of its wait:    *)
(* who asked for a tokenizer gets that of the version it resolved, with one *)
(* load for all (TokenizerLoads), and routing goes by a backend that        *)
(* config.pbtxt named meanwhile (BackendConfig).                            *)
RegistrySound == Tokenizers!TokenizersSound /\ Backends!BackendOfItsTime

(* A request is counted once, and as a success only if it was one           *)
(* (Accounting).                                                            *)
AccountsSound == Accounts!CountedOnce /\ Accounts!SuccessIsAnswer

(* Visual usage is available only if every call it is the sum of ended well *)
(* (Accounting).                                                            *)
UsageHonest == [][Accounts!HonestStep]_accVars

(* Histories that were compressed fit, whole turns at a time, and keep      *)
(* their system messages and what is recent (ContextCompression).           *)
ContextSound == Context!ContextSound

(* An engine is published or closed, never both, whatever its start runs    *)
(* into, and the first cause of a failure is the one reported (Startup).    *)
StartupSound == Start!StartupSound

(* Documents keep their own scores, in their own order where they are equal *)
(* and within every cap (Reranking).                                        *)
RerankSound == Rank!RerankSound

(* What the backend is called with fits its window and has the media of the *)
(* turn that is asked about (ChatRequest).                                  *)
ChatSound == Chat!ChatSound
=============================================================================
