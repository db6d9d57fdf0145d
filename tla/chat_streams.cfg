\* Two requests on one thread, every fault, one that may hang, and a limit too small for tool calls.
SPECIFICATION FairChatSpec
CONSTANTS
  Threads = {t1}
  Runs = {r1, r2}
  None = None
  Namespaces = {}
  NamespacedTools = {}
  OtherTools = {"get_nodes"}
  UnknownTools = {}
  ScopeAnswers <- ChatScopes
  PlanAnswers <- ChatPlans
  DiagnosisAnswers <- ChatDiagnoses
  ReplyTexts = {"", "text"}
  ToolResults = {"data"}
  Pages = {"p1"}
  LOOP_GUARD_MAX = 2
  FOLLOWUP_TURNS = 1
  GROUNDING_DOCS = 1
  GROUNDING_CHUNKS = 1
  Rag = TRUE
  SearchAnswers <- ChatSearches
  Serial = TRUE
  Faults = {"model_error", "disconnect", "restart"}
  Hanging = {r2}
  RecursionLimit = 9
INVARIANTS TrailReloads ReplyReloads EndingIsTrue OneEnding
PROPERTIES EveryRequestAnswered
CHECK_DEADLOCK FALSE
