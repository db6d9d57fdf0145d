--------------------------- MODULE MCMcpInvestigate ---------------------------
(***************************************************************************)
(* Instances of McpInvestigate for TLC.                                    *)
(***************************************************************************)
EXTENDS McpInvestigate, TLC

Answer(clarify, followup) ==
  [namespace |-> None, needs_clarification |-> clarify,
   clarifying_question |-> None, is_followup |-> followup]

\* Investigate, ask, and take an unrelated request for a follow-up.
McpScopes == {Answer(FALSE, FALSE), Answer(TRUE, FALSE), Answer(FALSE, TRUE)}

\* Stop, call a tool, or call one that does not exist.
McpPlans ==
  {[tool_calls |-> <<>>, text |-> "text"],
   [tool_calls |-> <<[name |-> "get_nodes", namespace |-> None]>>, text |-> ""],
   [tool_calls |-> <<[name |-> "no_such_tool", namespace |-> None]>>, text |-> ""]}

McpDiagnoses == [root_cause : {"", "cause"}, confidence : {"high"}]
McpSearches == {<<"p1">>}

Symmetry == Permutations(Runs) \cup Permutations(Threads)
===============================================================================
