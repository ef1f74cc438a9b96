SPECIFICATION GatewaySpec
CONSTANTS
  Keys = {k1, k2}
  Callers = {c1, c2}
  Limits = {1, 2}
  Minute = 3
  MaxNow = 4
  MaxBuckets = 3
  Prompts = {p1, p2}
  NoPrompt = NoPrompt
  Checkers = {c1, c2}
  Windows = {1, 2}
  Maxima = {1, 2}
  Ages = {2}
  LpMaxNow = 3
  MaxCalls = 3
  Requests = {c1, c2}
  Budgets = {3, 11}
  NoLimit = NoLimit
  Estimates = {1, 2}
  MaxEstimate = 2
  Charges = {1, 3}
  MaxUsed = 12
  SampleCosts = {1, 2}
  Multipliers = {2}
  Durations = {1, 2}
  Baselines = {0, 1}
  NoBaseline = NoBaseline
  MaxClock = 3
  MaxObserved = 3
  Activators = {c1, c2}
  MaxIncidents = 2
  Tokens = {t1, t2, t3}
  NoToken = NoToken
  Grace = 2
  AuMaxNow = 4
  Chunks = {x, y}
  ProviderTypes = {"openrouter", "ollama", "vertex"}
  KeysEnc = {"k"}
  NoKey = NoKey
  MaxLines = 3
  Posts = {c1, c2}
  RouteIds = {ra}
  NoRoute = NoRoute
  EnvValues <- MCEnvValues
  Unset = Unset
  DefaultRead = 2
  DefaultShutdown = 1
  SvMaxNow = 4
  NotJson = NotJson
  NoSchema = NoSchema
  Outputs <- MCOutputs
  Schemas <- MCSchemas
  Depth = 2
  m1 = m1
  m2 = m2
  m3 = m3
  m4 = m4
  m5 = m5
  NoModel = NoModel
  Catalogues <- MCCatalogues
  Routes <- MCRoutes
  Needs <- MCNeeds
SYMMETRY Symmetry
INVARIANTS RateBound OverdraftBound KilledOnRecord SelectsWell AnswerTrue StreamFaithful NoneCutShort RejectsRightly
PROPERTIES RefusesOnlyWhenDue DetectsLoop NoFalseAlarm JudgesRecentSpend
CHECK_DEADLOCK FALSE
