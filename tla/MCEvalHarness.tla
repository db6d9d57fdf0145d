---------------------------- MODULE MCEvalHarness ----------------------------
(***************************************************************************)
(* Instances of EvalHarness for TLC.                                       *)
(***************************************************************************)
EXTENDS EvalHarness

\* A scenario with a second namespace, and another one after it.
TwoScenarios == <<"crossns", "selector">>
Tiers == [s \in {"crossns", "selector"} |-> IF s = "crossns" THEN "hard" ELSE "easy"]

Signals == << {<<"selector">>, <<"label">>}, {<<"payments">>} >>
ReplySignals == << {<<"payments">>} >>

Link(page, anchor, public) == [page |-> page, anchor |-> anchor, public |-> public]
Says(right, made_up, missed) == [right |-> right, made_up |-> made_up, missed |-> missed]

\* The cause by a synonym, with an indexed page cited twice and an address in a
\* command; the wrong service, with a page nobody indexed; a question back.
States ==
  {[diagnosis |-> {<<"label">>, <<"payments">>}, recommendation |-> {<<"payments">>},
    needs_clarification |-> FALSE,
    links |-> <<Link("services", "uses", TRUE), Link("payments:8080", "", FALSE),
                Link("services", "", TRUE)>>,
    log |-> <<INITIAL_SWEEP, "get_logs_tool">>, reader |-> Says(TRUE, 0, {})],
   [diagnosis |-> {<<"selector">>, <<"payments", "api">>}, recommendation |-> {<<"dns">>},
    needs_clarification |-> FALSE,
    links |-> <<Link("invented", "", TRUE), Link("invented", "top", TRUE)>>,
    log |-> <<INITIAL_SWEEP>>, reader |-> Says(FALSE, 1, {"get_logs_tool"})],
   [diagnosis |-> {}, recommendation |-> {}, needs_clarification |-> TRUE,
    links |-> <<>>, log |-> <<>>, reader |-> Says(FALSE, 0, EXPECTED)]}

Turns == {[route |-> "followup", reply |-> {<<"payments">>}],
          [route |-> "investigate", reply |-> {<<"payments", "api">>}]}
===============================================================================
