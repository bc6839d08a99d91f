CONSTANTS
  NoHost = NoHost
  NoModel = NoModel
  Unset = Unset
  NoTier = NoTier
  Proxied = {"hosted:cloud"}
  NoAnswer = NoAnswer
  Registries <- MCRegistries
  Descriptions <- MCDescriptions
  NamedHosts <- MCNamedHosts
  Authors <- MCAuthors
  Slices <- MCSlices
  NoCell = NoCell
  MaxRequested = 4
  Endpoints <- MCEndpoints
  NormalName <- MCNormalName
  MaxFallbacks = {1, 2}
  Banned <- MCBanned
  MaxItems = 5
  Limit = 2
  Likes <- MCLikes
  AgentOrder <- MCAgentOrder
  Source <- MCSource
  Hosted = {"gpt-oss:20b:cloud"}
  Coders = {"qwen3-coder:30b", "qwen2.5-coder:14b"}
  Reasoners = {"qwen3.5:27b", "qwen3.5:27b-tq2"}
  TurboQuant = {"qwen3.5:27b-tq2"}
  Excluded = {}
  Scans <- MCScans
  UserConfigs <- MCUserConfigs
  MaxScans = 2
  MaxRuns = 2
SPECIFICATION MCSpec
INVARIANTS CloudIsOptIn ReviewIsDiverse SelectorsAgree CohortIsDiverse BatchIsWhole ReturnRestores
CHECK_DEADLOCK FALSE
