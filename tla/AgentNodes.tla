------------------------------ MODULE AgentNodes ------------------------------
(***************************************************************************)
(* The node functions of backend/agent/nodes.py, as operators from a State *)
(* (and what the outside answered: a model, the cluster, the docs index)   *)
(* to the State with the node's update applied, and the two routing        *)
(* functions.  The graph that schedules them is AgentGraph.                *)
(***************************************************************************)
EXTENDS AgentState

CONSTANT Rag  \* TRUE unless the caller opted out of docs retrieval
ASSUME RagAssumption == Rag \in BOOLEAN

\* Positions of the archived turns that left evidence behind.
InvestigatedTurns(turns) ==
  {i \in DOMAIN turns : /\ turns[i].route = "investigate"
                        /\ turns[i].investigation_log # <<>>}

\* Mutant of FollowupTurns: the first ones instead of the last.
FollowupTurns_First(turns) ==
  {i \in InvestigatedTurns(turns) :
     Cardinality({j \in InvestigatedTurns(turns) : j < i}) < FOLLOWUP_TURNS}

\* The last FOLLOWUP_TURNS of them.
FollowupTurns(turns) ==
  {i \in InvestigatedTurns(turns) :
     Cardinality({j \in InvestigatedTurns(turns) : j > i}) < FOLLOWUP_TURNS}

ScopeNamespace(s) == IF s.scope = None THEN None ELSE s.scope.val.namespace

-------------------------------------------------------------------------------
intake(s, answer) == [s EXCEPT !.scope = Tag(s.user_request, answer)]

\* Mutant of route_after_intake: the model's word is enough for a follow-up.
route_after_intake_Trusting(s) ==
  IF s.scope.val.is_followup THEN "answer_followup"
  ELSE IF s.scope.val.needs_clarification THEN "finalize" ELSE "gather_context"

route_after_intake(s) ==
  IF s.scope # None /\ s.scope.val.is_followup /\ InvestigatedTurns(s.turns) # {}
  THEN "answer_followup"
  ELSE IF s.scope # None /\ s.scope.val.needs_clarification
  THEN "finalize"
  ELSE "gather_context"

\* A sweep that fails is a result like any other: its error becomes data.
gather_context(s, result) ==
  [s EXCEPT
     !.context_snapshot = Tag(s.user_request, result),
     !.investigation_log =
        Append(@, [by |-> s.user_request, tool_name |-> INITIAL_SWEEP,
                   namespace |-> ScopeNamespace(s), namespace_filled |-> FALSE,
                   result |-> result, rationale |-> None])]

\* Mutant of AtLoopGuard: one tool call too many.
AtLoopGuard_Late(s) == s.step_count > LOOP_GUARD_MAX

AtLoopGuard(s) == s.step_count >= LOOP_GUARD_MAX

plan_at_guard(s) ==
  [s EXCEPT !.loop_guard_triggered = TRUE, !.pending_tool_call = None]

\* Only the first of the calls the planner asked for is kept, and an answer
\* without text leaves the hypothesis as it was.
plan(s, answer) ==
  [s EXCEPT
     !.hypothesis = IF answer.text = "" THEN @ ELSE Tag(s.user_request, answer.text),
     !.pending_tool_call = IF answer.tool_calls = <<>> THEN None
                           ELSE Tag(s.user_request, Head(answer.tool_calls)),
     !.plan_rationale = Tag(s.user_request, answer.text)]

route_after_plan(s) ==
  IF s.loop_guard_triggered \/ s.pending_tool_call = None
  THEN "diagnose" ELSE "execute_tool"

\* Mutant of FillsNamespace: an omitted namespace is left to the default one.
FillsNamespace_Never(s, call) == FALSE

FillsNamespace(s, call) ==
  /\ call.name \in NamespacedTools
  /\ call.namespace = None
  /\ ScopeNamespace(s) # None

\* An unknown tool and a tool that raises are both recorded as an error.
ToolOutcomes(call) == IF call.name \in UnknownTools THEN {"error"} ELSE ToolResults

execute_tool(s, result) ==
  LET call == s.pending_tool_call.val
      filled == FillsNamespace(s, call)
      record == [by |-> s.user_request, tool_name |-> call.name,
                 namespace |-> IF filled THEN ScopeNamespace(s) ELSE call.namespace,
                 namespace_filled |-> filled, result |-> result,
                 rationale |-> s.plan_rationale]
  IN [s EXCEPT !.investigation_log = Append(@, record),
               !.pending_tool_call = None,
               !.step_count = @ + 1]

\* A triggered loop guard only adds a note to the prompt.
diagnose(s, answer) == [s EXCEPT !.diagnosis = Tag(s.user_request, answer)]

-------------------------------------------------------------------------------
\* Mutant of FirstOf: every chunk with an URL makes an excerpt.
FirstOf_EveryChunk(chunks) == {i \in DOMAIN chunks : chunks[i] # None}

\* Where a page first appears among the retrieved chunks; a chunk without an
\* URL has page None.
FirstOf(chunks) ==
  {i \in DOMAIN chunks : /\ chunks[i] # None
                         /\ \A j \in 1..(i - 1) : chunks[j] # chunks[i]}

\* One excerpt per page, best chunk first, at most GROUNDING_DOCS pages.
DistinctPages(chunks) ==
  LET found == Cardinality(FirstOf(chunks))
      kth(k) == CHOOSE i \in FirstOf(chunks) :
                  Cardinality({j \in FirstOf(chunks) : j <= i}) = k
  IN [k \in 1..(IF found < GROUNDING_DOCS THEN found ELSE GROUNDING_DOCS) |->
        chunks[kth(k)]]

Searches(s) == Rag /\ s.diagnosis # None /\ s.diagnosis.val.root_cause # ""

ground_without_search(s) == [s EXCEPT !.reference_docs = <<>>]

ground(s, chunks) ==
  LET pages == DistinctPages(chunks)
  IN [s EXCEPT !.reference_docs =
        [k \in 1..Len(pages) |-> Tag(s.user_request, pages[k])]]

ground_failed(s) ==
  [s EXCEPT !.reference_docs = <<>>, !.grounding_error = s.user_request]

recommend(s, text) == [s EXCEPT !.recommendation = Tag(s.user_request, text)]

answer_followup(s, text) ==
  [s EXCEPT !.followup_answer =
     [by |-> s.user_request, val |-> text,
      evidence |-> {s.turns[i].user_request : i \in FollowupTurns(s.turns)}]]

-------------------------------------------------------------------------------
\* Mutant of TurnRouteOf: an empty recommendation counts as none.
TurnRouteOf_ByText(s) ==
  IF s.followup_answer # None THEN "followup"
  ELSE IF s.recommendation # None /\ s.recommendation.val # "" THEN "investigate"
  ELSE "clarify"

\* A field that was written counts as an answer even when its text is empty.
TurnRouteOf(s) ==
  IF s.followup_answer # None THEN "followup"
  ELSE IF s.recommendation # None THEN "investigate"
  ELSE "clarify"

HasQuestion(s) ==
  s.scope # None /\ s.scope.val.clarifying_question \notin {None, ""}

\* Mutant of ReplyText: no fallback when the model asked no question.
ReplyText_NoDefault(s) ==
  IF s.followup_answer # None
  THEN Tag(s.followup_answer.by, s.followup_answer.val)
  ELSE IF s.recommendation # None
  THEN s.recommendation
  ELSE Tag(s.scope.by, s.scope.val.clarifying_question)

ReplyText(s) ==
  IF s.followup_answer # None
  THEN Tag(s.followup_answer.by, s.followup_answer.val)
  ELSE IF s.recommendation # None
  THEN s.recommendation
  ELSE IF HasQuestion(s)
  THEN Tag(s.scope.by, s.scope.val.clarifying_question)
  ELSE Tag(s.user_request, DEFAULT_CLARIFYING_QUESTION)

Archived(s) ==
  [user_request |-> s.user_request, route |-> TurnRouteOf(s), reply |-> ReplyText(s),
   scope |-> s.scope, investigation_log |-> s.investigation_log,
   diagnosis |-> s.diagnosis, reference_docs |-> s.reference_docs,
   recommendation |-> s.recommendation,
   loop_guard_triggered |-> s.loop_guard_triggered]

Spoken(r) == <<[role |-> "human", turn |-> r], [role |-> "ai", turn |-> r]>>

\* Mutant of finalize: turns without its reducer, so the list is replaced.
finalize_Replaces(s) ==
  [s EXCEPT !.messages = @ \o Spoken(s.user_request), !.turns = <<Archived(s)>>]

\* The only node that writes the conversation fields; both are appended to.
finalize(s) ==
  [s EXCEPT !.messages = @ \o Spoken(s.user_request), !.turns = Append(@, Archived(s))]
===============================================================================
