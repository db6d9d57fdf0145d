----------------------------- MODULE EvalRecords -----------------------------
(***************************************************************************)
(* What the eval harness makes of a finished run: eval/runner.py reads the *)
(* final state of the graph into the record, eval/scorers.py matches the   *)
(* signals of the golden label and the cited pages, eval/report.py counts. *)
(*                                                                         *)
(* A text is the set of identifiers in it, an identifier the sequence of   *)
(* the parts its hyphens join: <<"payments", "api">>.  A link is its page, *)
(* the anchor on it and whether its host is a public one.                  *)
(***************************************************************************)
EXTENDS Integers, Sequences, FiniteSets

CONSTANTS
  REQUIRED,        \* golden.required_signals: each a set of synonyms
  EXPECTED,        \* golden.expected_evidence_tools
  CorpusPages,     \* corpus_urls(): the pages in the docs index
  EXPECTED_ROUTE,  \* of a follow-up
  FOLLOW_UP,       \* the required_signals of its reply
  Difficulty       \* scenario -> its tier

TIERS == <<"easy", "medium", "hard">>
INITIAL_SWEEP == "initial_sweep"
SWEEP_EQUIVALENT_TOOLS == {"get_pod_status_tool", "get_recent_events_tool"}

\* The numbers f has for 1..n, summed up.
SumTo(f, n) ==
  LET total[k \in 0..n] ==
        IF k = 0 THEN 0 ELSE total[k - 1] + (IF k \in DOMAIN f THEN f[k] ELSE 0)
  IN total[n]

-------------------------------------------------------------------------------
\* Mutant of _contains: a term may match inside a longer name.
_contains_Inside(text, term) ==
  \E name \in text : \E i, j \in DOMAIN name : SubSeq(name, i, j) = term

\* Whole identifiers only: a hyphen joins words inside a single one.
_contains(text, term) == term \in text

missing_signals(groups, text) ==
  {i \in DOMAIN groups : ~\E term \in groups[i] : _contains(text, term)}

\* SignalCheck.passed: every group is hit by one of its synonyms.
SignalsPass(found) == missing_signals(REQUIRED, found.diagnosis \cup found.recommendation) = {}

\* Where the citations are: the first link to each page, whatever its anchor; those
\* to in-cluster addresses do not count.
cited_urls(links) ==
  {i \in DOMAIN links :
     links[i].public /\ ~\E j \in 1..(i - 1) : links[j].public /\ links[j].page = links[i].page}

\* The tools asked for, and what the sweep stands in for.
Gathered(log) ==
  LET tools == {log[i] : i \in DOMAIN log}
  IN tools \cup (IF INITIAL_SWEEP \in tools THEN SWEEP_EQUIVALENT_TOOLS ELSE {})

\* What a record keeps of the graph's final state; reader is no field of the code:
\* what one who reads the state finds right, made up and missed in it.
_populate_from_state(state) ==
  [diagnosis |-> state.diagnosis, recommendation |-> state.recommendation,
   clarification_requested |-> state.needs_clarification,
   invalid_citations |->
     Cardinality({i \in cited_urls(state.links) : state.links[i].page \notin CorpusPages}),
   planner_tool_calls |-> Cardinality({i \in DOMAIN state.log : state.log[i] # INITIAL_SWEEP}),
   expected_tools_missed |-> EXPECTED \ Gathered(state.log),
   reader |-> state.reader]

ProducedOutput(found) == found.diagnosis \cup found.recommendation # {}

\* A follow-up's record: the archived turn's route and reply, or the error.
FollowUpRecord(turn) ==
  [route_correct |-> turn.route = EXPECTED_ROUTE,
   answered |-> missing_signals(FOLLOW_UP, turn.reply) = {}]
FollowUpError == [route_correct |-> FALSE, answered |-> FALSE]

-------------------------------------------------------------------------------
With(records, status) == {i \in DOMAIN records : records[i].status = status}
Scored(records) == With(records, "scored")

summarize(records) ==
  LET scored == Scored(records)
      status(s) == Cardinality(With(records, s))
      total(numbers) == SumTo(numbers, Len(records))
      passed(r) == {j \in DOMAIN r.follow_ups : r.follow_ups[j].route_correct
                                                  /\ r.follow_ups[j].answered}
  IN [total |-> Len(records), scored |-> Cardinality(scored),
      correct |-> Cardinality({i \in scored : records[i].correct}),
      failed_setup |-> status("setup_failed"), failed_agent |-> status("agent_failed"),
      failed_scoring |-> status("scoring_failed"),
      tool_calls |-> total([i \in scored |-> records[i].found.planner_tool_calls]),
      disagreements |-> Cardinality({i \in scored : records[i].signals # records[i].correct}),
      clarification_requests |->
        Cardinality({i \in scored : records[i].found.clarification_requested}),
      judge_fallbacks |-> Cardinality({i \in scored : records[i].judge_error}),
      invalid_citations |-> total([i \in scored |-> records[i].found.invalid_citations]),
      follow_ups |-> total([i \in scored |-> Len(records[i].follow_ups)]),
      follow_ups_passed |-> total([i \in scored |-> Cardinality(passed(records[i]))])]

InTier(records, t) == {i \in Scored(records) : Difficulty[records[i].scenario] = TIERS[t]}

\* One row per tier that has a scored record.
summarize_by_tier(records) ==
  [t \in {t \in DOMAIN TIERS : InTier(records, t) # {}} |->
     LET scored == InTier(records, t)
     IN [difficulty |-> TIERS[t], scored |-> Cardinality(scored),
         correct |-> Cardinality({i \in scored : records[i].correct}),
         tool_calls |-> SumTo([i \in scored |-> records[i].found.planner_tool_calls],
                              Len(records))]]

_status_mark(r) ==
  CASE r.status = "setup_failed" -> "SETUP"
    [] r.status = "agent_failed" -> "ERROR"
    [] r.status = "scoring_failed" -> "UNSCORED"
    [] r.status = "scored" /\ r.found.clarification_requested -> "ASKED"
    [] r.status = "scored" /\ ~r.found.clarification_requested ->
         IF r.correct THEN "PASS" ELSE "FAIL"

exit_code(summary) == IF summary.scored = summary.total THEN 0 ELSE 1
===============================================================================
