\* Each component on the inputs MCServices gives it; every part of the run is bounded there.
CONSTANTS
  Count = 5
  Concurrency = 3
  None = None
  NoRows = NoRows
  Callers = {1, 2}
  Versions = {"v1", "v2"}
  LoadTasks = {"t1", "t2", "t3"}
  NoTask = None
  NoVersion = None
  BackendNames = {"vllm", "python"}
  NoAnswer = None
  Changes = 3
  RequestCalls = {1, 2}
  MaxTokens = 0
  QueueSize = 1
  Prompts = {"r1", "r2"}
  Conversations <- ContextConversations
  Speaker <- ContextRoles
  Score <- ContextScores
  Limits = {6, 8}
  Configs <- ContextConfigs
  Overhead = 1
  SummaryTokens = {1, 2}
  SummarySlots = 1
  Queries <- RerankRequests
  Ranks <- RerankConfigs
  Databases <- RerankDatabases
  RankScores = {1, 2}
  Chats <- ChatRequests
  Deployments <- ChatDeployments
  MediumKind <- ChatKinds
  Estimate <- ChatEstimate
  Embedded <- ChatEmbedded
  InstructionTokens = 1
  MarkerTokens = 1
  EvidenceTokens = 2
  Summaries = {1, 2}
CHECK_DEADLOCK FALSE
SPECIFICATION ServicesSpec
INVARIANTS
  DrainedOutright ResultsComplete CancellationKept
  ContextSound OutputSound   StartupSound
  ChatSound RerankSound MediaSound AnswersSound
PROPERTIES CancelReturns InitializeEnds UsageHonest
