------------------------------- MODULE MCChatApi -------------------------------
(***************************************************************************)
(* Instances of ChatApi for TLC.                                           *)
(***************************************************************************)
EXTENDS ChatApi, TLC

Answer(clarify, question, followup) ==
  [namespace |-> None, needs_clarification |-> clarify,
   clarifying_question |-> question, is_followup |-> followup]

\* Investigate, ask (with a question or without), and follow up.
ChatScopes == {Answer(FALSE, None, FALSE), Answer(TRUE, "text", FALSE),
           Answer(TRUE, None, FALSE), Answer(FALSE, None, TRUE)}

ChatPlans == {[tool_calls |-> <<>>, text |-> "text"],
          [tool_calls |-> <<[name |-> "get_nodes", namespace |-> None]>>, text |-> "text"]}

ChatDiagnoses == [root_cause : {"", "cause"}, confidence : {"high"}]
ChatSearches == {<<>>, <<"p1">>}

RunSymmetry == Permutations(Runs)
===============================================================================
