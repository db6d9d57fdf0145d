\* Two clients of one thread whose turns overlap.
SPECIFICATION Spec
CONSTANTS
  Threads = {t1}
  Runs = {r1, r2}
  None = None
  Namespaces = {}
  NamespacedTools = {}
  OtherTools = {"get_nodes"}
  UnknownTools = {}
  ScopeAnswers <- SmallScopes
  PlanAnswers <- SmallPlans
  DiagnosisAnswers <- SmallDiagnoses
  ReplyTexts = {"text"}
  ToolResults = {"data"}
  Pages = {}
  LOOP_GUARD_MAX = 1
  FOLLOWUP_TURNS = 1
  GROUNDING_DOCS = 1
  GROUNDING_CHUNKS = 0
  Rag = TRUE
  SearchAnswers <- SmallSearches
  Serial = FALSE
  Faults = {}
  Hanging = {}
  RecursionLimit = 9
PROPERTIES TurnsAppendOnly
CHECK_DEADLOCK FALSE
