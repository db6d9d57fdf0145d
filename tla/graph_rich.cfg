\* Two turns of a thread with everything a turn's data may be, and one that may hang.
SPECIFICATION FairSpec
CONSTANTS
  Threads = {t1}
  Runs = {r1, r2}
  None = None
  Namespaces = {"shop", "warehouse"}
  NamespacedTools = {"get_logs"}
  OtherTools = {}
  UnknownTools = {"initial_sweep"}
  ScopeAnswers <- RichScopes
  PlanAnswers <- RichPlans
  DiagnosisAnswers <- RichDiagnoses
  ReplyTexts = {"", "which?"}
  ToolResults = {"data", "error"}
  Pages = {"p1", "p2", "p3"}
  LOOP_GUARD_MAX = 1
  FOLLOWUP_TURNS = 3
  GROUNDING_DOCS = 2
  GROUNDING_CHUNKS = 8
  Rag = TRUE
  SearchAnswers <- RichSearches
  Serial = TRUE
  Faults = {}
  Hanging = {r2}
  RecursionLimit = 10
INVARIANTS RouteMatchesWork NoMisroutedCall CitablePages NeverOutOfSupersteps
PROPERTIES EveryTurnFinishes
CHECK_DEADLOCK FALSE
