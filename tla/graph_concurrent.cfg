\* Clients of a thread that do not wait for each other, and a second thread.
SPECIFICATION Spec
CONSTANTS
  Threads = {t1, t2}
  Runs = {r1, r2, r3}
  None = None
  Namespaces = {}
  NamespacedTools = {}
  OtherTools = {"get_nodes"}
  UnknownTools = {}
  ScopeAnswers <- SmallScopes
  PlanAnswers <- SmallPlans
  DiagnosisAnswers <- SmallDiagnoses
  ReplyTexts = {"text"}
  ToolResults = {"data"}
  Pages = {}
  LOOP_GUARD_MAX = 1
  FOLLOWUP_TURNS = 1
  GROUNDING_DOCS = 1
  GROUNDING_CHUNKS = 0
  Rag = TRUE
  SearchAnswers <- SmallSearches
  Serial = FALSE
  Faults = {"model_error", "disconnect"}
  Hanging = {}
  RecursionLimit = 9
SYMMETRY Symmetry
INVARIANTS EvidenceIsOwn OnlyFinishedTurns
CHECK_DEADLOCK FALSE
