\* Two scenarios over whatever an earlier use left, everything going wrong; in the
\* second, a call may hang.
SPECIFICATION FairSpec
CONSTANTS
  Order <- TwoScenarios
  Difficulty <- Tiers
  WithAux = {"crossns"}
  REQUIRED <- Signals
  EXPECTED = {"get_pod_status_tool", "get_logs_tool"}
  CorpusPages = {"services"}
  EXPECTED_ROUTE = "followup"
  FOLLOW_UP <- ReplySignals
  FinalStates <- States
  FollowUpTurns <- Turns
  FollowUps = 1
  UseJudge = TRUE
  KeepNamespaces = FALSE
  JUDGE_ATTEMPTS = 2
  Faults = {"kubectl_fails", "kubectl_hangs", "agent_raises", "judge_malformed", "judge_raises"}
  Hanging = {2}
INVARIANTS HarnessTypeOK AgentSeesItsScenario NothingLeftUp VerdictsAreEarned ReportAddsUp
PROPERTIES HarnessEnds
CHECK_DEADLOCK FALSE
