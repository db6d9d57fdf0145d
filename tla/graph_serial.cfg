\* One thread, its clients taking turns, every fault, and a limit of supersteps some turns meet.
SPECIFICATION Spec
CONSTANTS
  Threads = {t1}
  Runs = {r1, r2, r3}
  None = None
  Namespaces = {}
  NamespacedTools = {}
  OtherTools = {"get_nodes"}
  UnknownTools = {}
  ScopeAnswers <- SmallScopes
  PlanAnswers <- SmallPlans
  DiagnosisAnswers <- SmallDiagnoses
  ReplyTexts = {"text"}
  ToolResults = {"data"}
  Pages = {}
  LOOP_GUARD_MAX = 1
  FOLLOWUP_TURNS = 1
  GROUNDING_DOCS = 1
  GROUNDING_CHUNKS = 0
  Rag = TRUE
  SearchAnswers <- SmallSearches
  Serial = TRUE
  Faults = {"model_error", "disconnect", "restart"}
  Hanging = {}
  RecursionLimit = 8
SYMMETRY RunSymmetry
INVARIANTS TypeOK FollowupUsesLatest MessagesMatchTurns FinishedTurnsKept
PROPERTIES TurnsAppendOnly ImplementsConversation
CHECK_DEADLOCK FALSE
