----------------------------- MODULE EvalHarness -----------------------------
(***************************************************************************)
(* The eval harness: backend/eval/__main__.py runs its scenarios one after *)
(* the other, runner.py takes one through its life (set up, wait until it  *)
(* is broken, ask the agent, score, tear down), cluster.py shells out to   *)
(* kubectl for it, and scorers.py grades the answer.                       *)
(*                                                                         *)
(* External: the cluster (namespaces terminate and scenarios break in      *)
(* their own time), kubectl, which may fail or run into its 120 s timeout, *)
(* the agent's graph (AgentGraph) and the judging model, which may also    *)
(* never answer, as may the API server the harness polls.                  *)
(***************************************************************************)
EXTENDS EvalRecords

CONSTANTS
  Order,           \* the scenarios asked for, one run for each
  WithAux,         \* those that need a second namespace
  FinalStates,     \* what the graph may end in, on the scenario's request
  FollowUpTurns,   \* and as the turn of a follow-up
  FollowUps,       \* later turns on the scenario's thread
  UseJudge, KeepNamespaces,
  JUDGE_ATTEMPTS,
  Faults,          \* what may go wrong
  Hanging          \* runs in which a call without a timeout may never come back

ASSUME HarnessAssumption ==
  /\ Order \in Seq(STRING) \ {<<>>}
  /\ \A i \in DOMAIN Order : \E t \in DOMAIN TIERS : Difficulty[Order[i]] = TIERS[t]
  /\ \A f \in FinalStates :
       /\ f.links \in Seq([page : STRING, anchor : STRING, public : BOOLEAN])
       /\ f.log \in Seq(STRING) /\ f.needs_clarification \in BOOLEAN
  /\ FollowUps \in Nat /\ JUDGE_ATTEMPTS \in Nat \ {0}
  /\ UseJudge \in BOOLEAN /\ KeepNamespaces \in BOOLEAN
  /\ Faults \subseteq {"kubectl_fails", "kubectl_hangs", "agent_raises",
                       "judge_malformed", "judge_raises"}
  /\ Hanging \subseteq DOMAIN Order

\* What one who reads a final state finds made up and missed in it: the public pages
\* the docs index does not have, the tools neither called nor stood in for.
ASSUME ReaderAssumption ==
  \A f \in FinalStates :
    LET cited == {f.links[i].page : i \in {j \in DOMAIN f.links : f.links[j].public}}
        called(tool) == \E i \in DOMAIN f.log : f.log[i] = tool
    IN /\ f.reader.made_up = Cardinality(cited \ CorpusPages)
       /\ f.reader.missed =
            {tool \in EXPECTED : ~called(tool) /\ ~(called(INITIAL_SWEEP)
                                                     /\ tool \in SWEEP_EQUIVALENT_TOOLS)}

VARIABLES
  run,       \* which scenario of Order is under way
  at,        \* where its run stands
  done,      \* kubectl commands of its current step that are behind it
  cluster,   \* namespace -> what the cluster has of it
  record,    \* the record the run fills in
  attempts,  \* malformed verdicts the judge gave
  records,   \* the records of the runs before
  undeleted  \* namespaces whose last delete failed, or hung

vars == <<run, at, done, cluster, record, attempts, records, undeleted>>

Scenarios == {Order[i] : i \in DOMAIN Order}
Namespaces == (Scenarios \X {"main"}) \cup (WithAux \X {"aux"})

\* phase: as the API server has it; made: the run that created it, 0 if some
\* earlier use of the harness did; manifests applied; failure observable.
Namespace == [phase : {"absent", "live", "terminating"}, made : Nat,
              applied : BOOLEAN, broken : BOOLEAN]
Absent == [phase |-> "absent", made |-> 0, applied |-> FALSE, broken |-> FALSE]

Nothing ==
  [diagnosis |-> {}, recommendation |-> {}, clarification_requested |-> FALSE,
   invalid_citations |-> 0, planner_tool_calls |-> 0, expected_tools_missed |-> {},
   reader |-> [right |-> FALSE, made_up |-> 0, missed |-> {}]]

RunRecord ==
  [scenario : Scenarios, status : {"setup_failed", "agent_failed", "scoring_failed", "scored"},
   found : {Nothing} \cup {_populate_from_state(f) : f \in FinalStates},
   follow_ups : Seq([route_correct : BOOLEAN, answered : BOOLEAN]), signals : BOOLEAN,
   judge : {"none", "yes", "no"}, judge_error : BOOLEAN, correct : BOOLEAN]

NewRecord(s) ==
  [scenario |-> s, status |-> "setup_failed", found |-> Nothing, follow_ups |-> <<>>,
   signals |-> FALSE, judge |-> "none", judge_error |-> FALSE, correct |-> FALSE]

\* Whatever an earlier, aborted use of the harness left.
Leftovers == {[phase |-> "live", made |-> 0, applied |-> a, broken |-> a] : a \in BOOLEAN}

Init ==
  /\ run = 1 /\ at = "setup" /\ done = 0
  /\ cluster \in [Namespaces -> {Absent} \cup Leftovers]
  /\ record = NewRecord(Order[1])
  /\ attempts = 0 /\ records = <<>> /\ undeleted = {}

-------------------------------------------------------------------------------
Cmd(verb, s, which) == [verb |-> verb, ns |-> <<s, which>>]

Both(s, verb) ==
  <<Cmd(verb, s, "main")>> \o (IF s \in WithAux THEN <<Cmd(verb, s, "aux")>> ELSE <<>>)

\* setup_scenario: delete what an aborted run left and wait for it to be gone;
\* then the namespace the other depends on, then the scenario's own.
SetupCommands(s) ==
  Both(s, "delete_wait")
    \o (IF s \in WithAux THEN <<Cmd("create", s, "aux"), Cmd("apply", s, "aux")>> ELSE <<>>)
    \o <<Cmd("create", s, "main"), Cmd("apply", s, "main")>>

\* teardown_all, which is not waited for.
TeardownCommands(s) == IF KeepNamespaces THEN <<>> ELSE Both(s, "delete")

Steps == IF at = "setup" THEN SetupCommands(Order[run]) ELSE TeardownCommands(Order[run])

\* Mutant of Checked: a namespace that is there already is good enough.
Checked_ExceptCreate(verb) == verb = "apply"

\* Whose failure raises ScenarioSetupError; a delete is run with check=False.
Checked(verb) == verb \in {"create", "apply"}

\* What a command that succeeds makes of its namespace; a create fails when the
\* name is taken, an apply when the namespace is not there for it.
CanSucceed(c) ==
  /\ c.verb = "create" => cluster[c.ns].phase = "absent"
  /\ c.verb = "apply" => cluster[c.ns].phase = "live"

AfterCommand(c) ==
  CASE c.verb = "create" -> [Absent EXCEPT !.phase = "live", !.made = run]
    [] c.verb = "apply" -> [cluster[c.ns] EXCEPT !.applied = TRUE]
    [] c.verb = "delete_wait" -> Absent
    [] c.verb = "delete" -> IF cluster[c.ns].phase = "absent" THEN Absent
                            ELSE [cluster[c.ns] EXCEPT !.phase = "terminating"]

Deletes(c) == c.verb \in {"delete", "delete_wait"}

\* The run leaves its block with an exception: straight to the teardown.
Fails(status) ==
  /\ record' = [record EXCEPT !.status = status]
  /\ at' = "teardown" /\ done' = 0

\* A delete that did not succeed may be under way on the API server all the same.
MayHaveBegun(c) ==
  \/ UNCHANGED cluster
  \/ /\ Deletes(c) /\ cluster[c.ns].phase = "live"
     /\ cluster' = [cluster EXCEPT ![c.ns].phase = "terminating"]

_kubectl_ok(c) ==
  /\ CanSucceed(c)
  /\ cluster' = [cluster EXCEPT ![c.ns] = AfterCommand(c)]
  /\ undeleted' = IF Deletes(c) THEN undeleted \ {c.ns} ELSE undeleted
  /\ done' = done + 1 /\ UNCHANGED <<at, record>>

_kubectl_fails(c) ==
  /\ ~CanSucceed(c) \/ "kubectl_fails" \in Faults
  /\ undeleted' = IF Deletes(c) THEN undeleted \cup {c.ns} ELSE undeleted
  /\ IF Checked(c.verb) THEN Fails("setup_failed")
     ELSE done' = done + 1 /\ UNCHANGED <<at, record>>
  /\ MayHaveBegun(c)

\* subprocess.TimeoutExpired, raised by a checked command and an unchecked one
\* alike: from a teardown it leaves run_scenario and the whole harness.
_kubectl_hangs(c) ==
  /\ "kubectl_hangs" \in Faults
  /\ MayHaveBegun(c)
  /\ undeleted' = IF Deletes(c) THEN undeleted \cup {c.ns} ELSE undeleted
  /\ IF at = "setup" THEN Fails("setup_failed")
     ELSE at' = "aborted" /\ UNCHANGED <<done, record>>

Kubectl ==
  /\ at \in {"setup", "teardown"} /\ done < Len(Steps)
  /\ LET c == Steps[done + 1]
     IN _kubectl_ok(c) \/ _kubectl_fails(c) \/ _kubectl_hangs(c)
  /\ UNCHANGED <<run, attempts, records>>

SetupDone ==
  /\ at = "setup" /\ done = Len(Steps)
  /\ at' = "waiting"
  /\ UNCHANGED <<run, done, cluster, record, attempts, records, undeleted>>

\* The scenario's predicates hold.
Observed(ns) == cluster[ns].phase = "live" /\ cluster[ns].broken

\* Mutant of wait_until_broken: no deadline.
wait_until_broken_ForEver ==
  /\ at = "waiting"
  /\ Observed(<<Order[run], "main">>) /\ at' = "agent" /\ UNCHANGED <<done, record>>
  /\ UNCHANGED <<run, cluster, attempts, records, undeleted>>

\* Polls until the failure is seen, or until the deadline.
wait_until_broken ==
  /\ at = "waiting"
  /\ \/ Observed(<<Order[run], "main">>) /\ at' = "agent" /\ UNCHANGED <<done, record>>
     \/ Fails("setup_failed")
  /\ UNCHANGED <<run, cluster, attempts, records, undeleted>>

\* Mutant of AgentRaises: what the agent left on the cluster is left there.
AgentRaises_LeavesItUp ==
  /\ at = "agent" /\ "agent_raises" \in Faults
  /\ record' = [record EXCEPT !.status = "agent_failed"]
  /\ at' = "teardown" /\ done' = Len(TeardownCommands(Order[run]))
  /\ UNCHANGED <<run, cluster, attempts, records, undeleted>>

AgentRaises ==
  /\ at = "agent" /\ "agent_raises" \in Faults
  /\ Fails("agent_failed")
  /\ UNCHANGED <<run, cluster, attempts, records, undeleted>>

AgentAnswers ==
  /\ at = "agent"
  /\ \E final_state \in FinalStates :
       record' = [record EXCEPT !.found = _populate_from_state(final_state), !.status = "scored"]
  /\ at' = "follow_ups"
  /\ UNCHANGED <<run, done, cluster, attempts, records, undeleted>>

\* A later turn, on the scenario as it stands; one that raises is recorded so.
_run_follow_up ==
  /\ at = "follow_ups" /\ Len(record.follow_ups) < FollowUps
  /\ \E f \in {FollowUpRecord(turn) : turn \in FollowUpTurns} \cup {FollowUpError} :
       record' = [record EXCEPT !.follow_ups = Append(@, f)]
  /\ UNCHANGED <<run, at, done, cluster, attempts, records, undeleted>>

-------------------------------------------------------------------------------
\* Without a verdict of the judge, the signals decide; nothing said never passes.
Graded(verdict, error) ==
  LET signals == SignalsPass(record.found)
  IN record' = [record EXCEPT
       !.signals = signals, !.judge = verdict, !.judge_error = error,
       !.correct = IF verdict # "none" THEN verdict = "yes"
                   ELSE signals /\ ProducedOutput(record.found)]

ToTeardown == at' = "teardown" /\ done' = 0

\* Without a judge, or with nothing to judge, the deterministic check decides.
score_diagnosis ==
  /\ at = "follow_ups" /\ Len(record.follow_ups) = FollowUps
  /\ IF UseJudge /\ ProducedOutput(record.found)
     THEN at' = "judging" /\ UNCHANGED <<done, record>>
     ELSE Graded("none", FALSE) /\ ToTeardown
  /\ attempts' = 0
  /\ UNCHANGED <<run, cluster, records, undeleted>>

\* Mutant of OutOfAttempts: one attempt too many.
OutOfAttempts_Late == attempts >= JUDGE_ATTEMPTS

OutOfAttempts == attempts + 1 >= JUDGE_ATTEMPTS

\* _judge_with_retry: a malformed verdict is asked for again, then given up on.
JudgeMalformed ==
  /\ at = "judging" /\ "judge_malformed" \in Faults
  /\ attempts' = attempts + 1
  /\ IF OutOfAttempts THEN Graded("none", TRUE) /\ ToTeardown
     ELSE UNCHANGED <<record, at, done>>
  /\ UNCHANGED <<run, cluster, records, undeleted>>

JudgeSays ==
  /\ at = "judging"
  /\ \E verdict \in {"yes", "no"} : Graded(verdict, FALSE)
  /\ ToTeardown
  /\ UNCHANGED <<run, cluster, attempts, records, undeleted>>

\* The record has no score then: it is counted out, not as incorrect.
JudgeRaises ==
  /\ at = "judging" /\ "judge_raises" \in Faults
  /\ Fails("scoring_failed")
  /\ UNCHANGED <<run, cluster, attempts, records, undeleted>>

\* Mutant of Kept: a scenario that could not be set up is left out.
Kept_IfSetUp(rs, r) == IF r.status = "setup_failed" THEN rs ELSE Append(rs, r)

Kept(rs, r) == Append(rs, r)

\* run_scenario returns; main_async goes on, or reports and exits.
NextScenario ==
  /\ at = "teardown" /\ done = Len(Steps)
  /\ records' = Kept(records, record)
  /\ done' = 0
  /\ IF run < Len(Order)
     THEN /\ run' = run + 1 /\ at' = "setup"
          /\ record' = NewRecord(Order[run + 1]) /\ attempts' = 0
     ELSE at' = "reported" /\ UNCHANGED <<run, record, attempts>>
  /\ UNCHANGED <<cluster, undeleted>>

\* The cluster's own time.
NamespaceGone(ns) ==
  /\ cluster[ns].phase = "terminating"
  /\ cluster' = [cluster EXCEPT ![ns] = Absent]
  /\ UNCHANGED <<run, at, done, record, attempts, records, undeleted>>

Breaks(ns) ==
  /\ cluster[ns].phase = "live" /\ cluster[ns].applied /\ ~cluster[ns].broken
  /\ cluster' = [cluster EXCEPT ![ns].broken = TRUE]
  /\ UNCHANGED <<run, at, done, record, attempts, records, undeleted>>

HarnessStep ==
  \/ Kubectl \/ SetupDone \/ wait_until_broken \/ AgentRaises \/ AgentAnswers
  \/ _run_follow_up \/ score_diagnosis \/ JudgeMalformed \/ JudgeSays \/ JudgeRaises
  \/ NextScenario

Next == HarnessStep \/ \E ns \in Namespaces : NamespaceGone(ns) \/ Breaks(ns)

Spec == Init /\ [][Next]_vars

\* The harness is one process, and goes on once what it called is back.  kubectl
\* always is: subprocess.run has a timeout (cluster.py:38).  Nothing else has one:
\* not the graph (runner.py:172, 211), not the judge, and not the predicates' reads,
\* between which alone the deadline of wait_until_broken is looked at.
FairSpec ==
  /\ Spec
  /\ WF_vars(Kubectl \/ SetupDone \/ score_diagnosis \/ NextScenario)
  /\ WF_vars(run \notin Hanging /\ HarnessStep)

-------------------------------------------------------------------------------
HarnessTypeOK ==
  /\ run \in DOMAIN Order
  /\ at \in {"setup", "waiting", "agent", "follow_ups", "judging", "teardown",
             "reported", "aborted"}
  /\ done \in 0..6 /\ attempts \in 0..JUDGE_ATTEMPTS
  /\ cluster \in [Namespaces -> Namespace]
  /\ record \in RunRecord /\ records \in Seq(RunRecord)
  /\ undeleted \subseteq Namespaces

Own(s) == {ns \in Namespaces : ns[1] = s}

\* Whenever the agent works on a scenario, first turn or follow-up, all of the
\* scenario is there and of this run's making, and its failure has shown: never
\* half a scenario, another run's, or one that has not broken yet.
AgentSeesItsScenario ==
  at \in {"agent", "follow_ups"} =>
    /\ \A ns \in Own(Order[run]) :
         cluster[ns].phase = "live" /\ cluster[ns].made = run /\ cluster[ns].applied
    /\ cluster[<<Order[run], "main">>].broken

\* When the harness has reported, every namespace it created is deleted or on
\* its way out, unless kubectl failed to delete it or it was asked to keep them.
NothingLeftUp ==
  at = "reported" /\ ~KeepNamespaces =>
    \A ns \in Namespaces \ undeleted :
      cluster[ns].made # 0 => cluster[ns].phase # "live"

Final == {records[i] : i \in DOMAIN records}

\* A run is only called correct on the word of the judge, or, when there was none
\* to ask (none wanted, two malformed verdicts), for an answer that a reader would
\* call right; and never when the agent asked back or said nothing.
VerdictsAreEarned ==
  \A r \in Final :
    /\ r.correct => /\ r.status = "scored" /\ ProducedOutput(r.found)
                    /\ ~r.found.clarification_requested
    /\ r.status = "scored" /\ r.judge # "none" => (r.correct <=> r.judge = "yes")
    /\ r.correct /\ r.judge = "none" =>
         r.found.reader.right /\ (UseJudge => r.judge_error)

\* The report stands for the runs: a record for each scenario asked for, in order;
\* the counts of the headline, the rows and the tiers agree and leave none out of
\* the denominator; the exit code tells whether all were scored; and the sources
\* counted as made up, and the evidence as missed, are those a reader finds.
ReportAddsUp ==
  at = "reported" =>
    LET s == summarize(records)
        tiers == summarize_by_tier(records)
        marked(set) == Cardinality({i \in DOMAIN records : _status_mark(records[i]) \in set})
        overTiers(numbers) == SumTo(numbers, Len(TIERS))
        made_up == [i \in Scored(records) |-> records[i].found.reader.made_up]
    IN /\ s.total = Len(Order)
       /\ \A i \in DOMAIN Order : records[i].scenario = Order[i]
       /\ s.total = s.scored + s.failed_setup + s.failed_agent + s.failed_scoring
       /\ marked({"PASS"}) = s.correct
       /\ marked({"FAIL", "ASKED"}) = s.scored - s.correct
       /\ exit_code(s) = 0 <=> marked({"SETUP", "ERROR", "UNSCORED"}) = 0
       /\ s.scored = overTiers([t \in DOMAIN tiers |-> tiers[t].scored])
       /\ s.correct = overTiers([t \in DOMAIN tiers |-> tiers[t].correct])
       /\ s.tool_calls = overTiers([t \in DOMAIN tiers |-> tiers[t].tool_calls])
       /\ s.follow_ups = FollowUps * s.scored /\ s.follow_ups_passed <= s.follow_ups
       /\ s.invalid_citations = SumTo(made_up, Len(records))
       /\ \A r \in Final : r.status = "scored" =>
            r.found.expected_tools_missed = r.found.reader.missed

\* The harness comes to an end: it reports, or a teardown that hangs aborts it.  It
\* stays in a scenario for good only where a call without a timeout can hang, and
\* then with neither a record nor a teardown of that scenario: whatever kubectl does,
\* setting up and tearing down are got over with.
HarnessEnds ==
  \/ <>(at \in {"reported", "aborted"})
  \/ <>[](run \in Hanging /\ at \in {"waiting", "agent", "follow_ups", "judging"})
===============================================================================
