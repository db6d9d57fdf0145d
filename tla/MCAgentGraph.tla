----------------------------- MODULE MCAgentGraph -----------------------------
(***************************************************************************)
(* Instances of AgentGraph for TLC.  "Small" answers keep one of each case *)
(* the control flow tells apart; "Rich" ones vary the data of a turn.      *)
(***************************************************************************)
EXTENDS AgentGraphRefinement, TLC

Answer(ns, clarify, question, followup) ==
  [namespace |-> ns, needs_clarification |-> clarify,
   clarifying_question |-> question, is_followup |-> followup]

\* Investigate, clarify, and a follow-up that would otherwise be investigated.
SmallScopes == {Answer(None, FALSE, None, FALSE), Answer(None, TRUE, None, FALSE),
                Answer(None, FALSE, None, TRUE)}

RichScopes == {Answer("shop", FALSE, None, FALSE), Answer(None, TRUE, "", TRUE),
               Answer("shop", TRUE, "which?", FALSE)}

Asks(calls, text) == [tool_calls |-> calls, text |-> text]
Call(name, ns) == [name |-> name, namespace |-> ns]

SmallPlans == {Asks(<<>>, "text"), Asks(<<Call("get_nodes", None)>>, "text")}

RichPlans ==
  {Asks(<<>>, ""), Asks(<<Call("get_logs", None)>>, "which?"),
   Asks(<<Call("get_logs", "warehouse"), Call("get_logs", None)>>, ""),
   Asks(<<Call("initial_sweep", None)>>, "")}

SmallDiagnoses == {[root_cause |-> "cause", confidence |-> "high"]}
RichDiagnoses == [root_cause : {"", "cause"}, confidence : {"low"}]

SmallSearches == {<<>>}
RichSearches == {<<"p1", "p1", None, "p2", "p3">>, <<None, "p2">>}

RunSymmetry == Permutations(Runs)
Symmetry == RunSymmetry \cup Permutations(Threads)
===============================================================================
