------------------------------ MODULE AgentState ------------------------------
(***************************************************************************)
(* The data of backend/graph/state.py: the state one run of the graph      *)
(* carries, and the records it is built from.                              *)
(*                                                                         *)
(* A turn is identified with its request: run r is the one turn whose      *)
(* user_request is r.  Whatever a node computes is tagged with the turn    *)
(* that computed it (by) so that "this evidence belongs to this turn" can  *)
(* be said; the tags are not in the program.  Contents are abstract: a     *)
(* model's answer is a member of the set of answers it may give.           *)
(***************************************************************************)
EXTENDS Naturals, Sequences, FiniteSets

CONSTANTS
  Threads,           \* conversation ids, minted by the clients
  Runs,              \* turns, each started at most once
  None,              \* Python's None, and the default of an optional field
  Namespaces,
  NamespacedTools,   \* catalogue tools that take a namespace argument
  OtherTools,        \* catalogue tools that do not
  UnknownTools,      \* names a model may make up
  ScopeAnswers,      \* what the intake model may answer
  PlanAnswers,       \* what the planner may answer: text and tool calls
  DiagnosisAnswers,  \* what the diagnosing model may answer
  ReplyTexts,        \* prose the models may answer with ("" is possible)
  ToolResults,       \* outcomes of a sweep or of a tool call
  Pages,             \* documentation pages
  LOOP_GUARD_MAX, FOLLOWUP_TURNS, GROUNDING_DOCS, GROUNDING_CHUNKS

\* The question finalize falls back to when the intake model gave none.
DEFAULT_CLARIFYING_QUESTION == "Could you say more?"

Maybe(S) == S \cup {None}

Scope == [namespace : Maybe(Namespaces), needs_clarification : BOOLEAN,
          clarifying_question : Maybe(ReplyTexts), is_followup : BOOLEAN]

ToolNames == NamespacedTools \cup OtherTools \cup UnknownTools
ToolCall == [name : ToolNames, namespace : Maybe(Namespaces)]
PlanAnswer == [tool_calls : Seq(ToolCall), text : ReplyTexts]

Diagnosis == [root_cause : {"", "cause"}, confidence : {"high", "medium", "low"}]

ASSUME AnswersAssumption ==
  /\ ScopeAnswers \subseteq Scope
  /\ PlanAnswers \subseteq PlanAnswer
  /\ DiagnosisAnswers \subseteq Diagnosis

ASSUME ToolsAssumption == UnknownTools # {} => "error" \in ToolResults

ASSUME BoundsAssumption ==
  /\ LOOP_GUARD_MAX \in Nat
  /\ FOLLOWUP_TURNS \in Nat \ {0}
  /\ GROUNDING_DOCS \in Nat \ {0}
  /\ GROUNDING_CHUNKS \in Nat

-------------------------------------------------------------------------------
Tag(r, v) == [by |-> r, val |-> v]
Tagged(S) == [by : Runs, val : S]

INITIAL_SWEEP == "initial_sweep"

ToolCallRecord ==
  [by : Runs, tool_name : ToolNames \cup {INITIAL_SWEEP},
   namespace : Maybe(Namespaces), namespace_filled : BOOLEAN,
   result : ToolResults, rationale : Maybe(Tagged(ReplyTexts))]

\* evidence: the earlier turns whose records the answer was drawn from.
FollowupAnswer == [by : Runs, val : ReplyTexts, evidence : SUBSET Runs]

ASSUME NoneAssumption ==
  /\ None \notin Threads \cup Runs \cup Namespaces \cup ReplyTexts \cup Pages
  /\ None \notin Tagged(ReplyTexts) \cup Tagged(ScopeAnswers)
  /\ None \notin Tagged(DiagnosisAnswers) \cup Tagged(ToolCall)
  /\ None \notin Tagged(ToolResults) \cup FollowupAnswer

TurnRoute == {"investigate", "followup", "clarify"}

TurnRecord ==
  [user_request : Runs, route : TurnRoute,
   reply : Tagged(ReplyTexts \cup {DEFAULT_CLARIFYING_QUESTION}),
   scope : Maybe(Tagged(ScopeAnswers)), investigation_log : Seq(ToolCallRecord),
   diagnosis : Maybe(Tagged(DiagnosisAnswers)), reference_docs : Seq(Tagged(Pages)),
   recommendation : Maybe(Tagged(ReplyTexts)), loop_guard_triggered : BOOLEAN]

\* Only who said it and on which turn: the text is the turn's request or reply.
Message == [role : {"human", "ai"}, turn : Runs]

State ==
  [user_request : Maybe(Runs), messages : Seq(Message), turns : Seq(TurnRecord),
   scope : Maybe(Tagged(ScopeAnswers)), context_snapshot : Maybe(Tagged(ToolResults)),
   investigation_log : Seq(ToolCallRecord), hypothesis : Maybe(Tagged(ReplyTexts)),
   diagnosis : Maybe(Tagged(DiagnosisAnswers)), reference_docs : Seq(Tagged(Pages)),
   grounding_error : Maybe(Runs), recommendation : Maybe(Tagged(ReplyTexts)),
   followup_answer : Maybe(FollowupAnswer), step_count : Nat,
   loop_guard_triggered : BOOLEAN, pending_tool_call : Maybe(Tagged(ToolCall)),
   plan_rationale : Maybe(Tagged(ReplyTexts))]

\* Every field at its default: a thread nothing was ever saved for.
Defaults ==
  [user_request |-> None, messages |-> <<>>, turns |-> <<>>,
   scope |-> None, context_snapshot |-> None, investigation_log |-> <<>>,
   hypothesis |-> None, diagnosis |-> None, reference_docs |-> <<>>,
   grounding_error |-> None, recommendation |-> None, followup_answer |-> None,
   step_count |-> 0, loop_guard_triggered |-> FALSE, pending_tool_call |-> None,
   plan_rationale |-> None]

\* Mutants of NewTurn: nothing reset; a conversation field reset; both reset.
NewTurn_ResetsNothing(saved, request) == [saved EXCEPT !.user_request = request]
NewTurn_ResetsMessages(saved, request) ==
  [Defaults EXCEPT !.user_request = request, !.turns = saved.turns]
NewTurn_ResetsAll(saved, request) == [Defaults EXCEPT !.user_request = request]

\* A turn's input merged into the saved state: the request, every run field at
\* its default, and the two conversation fields kept.
NewTurn(saved, request) ==
  [Defaults EXCEPT !.user_request = request,
                   !.messages = saved.messages,
                   !.turns = saved.turns]
===============================================================================
