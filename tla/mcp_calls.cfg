\* Two calls side by side, one of which may hang for good.
SPECIFICATION FairMcpSpec
CONSTANTS
  Threads = {t1, t2}
  Runs = {r1, r2}
  None = None
  Namespaces = {}
  NamespacedTools = {}
  OtherTools = {"get_nodes"}
  UnknownTools = {"no_such_tool"}
  ScopeAnswers <- McpScopes
  PlanAnswers <- McpPlans
  DiagnosisAnswers <- McpDiagnoses
  ReplyTexts = {"", "text"}
  ToolResults = {"error"}
  Pages = {"p1"}
  LOOP_GUARD_MAX = 2
  FOLLOWUP_TURNS = 1
  GROUNDING_DOCS = 1
  GROUNDING_CHUNKS = 1
  Rag = TRUE
  SearchAnswers <- McpSearches
  Serial = FALSE
  Faults = {"model_error"}
  Hanging = {r2}
  RecursionLimit = 12
INVARIANTS DiagnosedMeansDiagnosed ProgressMatchesResult
PROPERTIES EveryCallReturns
CHECK_DEADLOCK FALSE
