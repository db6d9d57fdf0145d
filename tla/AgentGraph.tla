------------------------------ MODULE AgentGraph ------------------------------
(***************************************************************************)
(* The conversation service: the compiled graph of backend/graph/build.py  *)
(* run turn by turn over a checkpointer, as api.main.chat drives it.       *)
(*                                                                         *)
(* Each turn works on its own copy of the state (state[r]).  LangGraph     *)
(* saves the whole copy when a turn's input is merged and after every      *)
(* superstep, and a thread reads back whichever checkpoint was created     *)
(* last (saved[t]).  Nothing in the server keeps two turns of one thread   *)
(* apart: Serial = TRUE stands for clients that wait for a turn to end, as *)
(* one chat page does, and Serial = FALSE for several clients of a thread. *)
(*                                                                         *)
(* External, modelled from how src/ uses it: the checkpointer, LangGraph's *)
(* scheduler and its limit on supersteps, the ASGI server that cancels a   *)
(* turn whose client went away, and the models' errors.                    *)
(***************************************************************************)
EXTENDS AgentNodes

CONSTANTS
  SearchAnswers,    \* what the docs index may answer, best chunk first
  Serial,           \* do the clients of a thread wait for each other?
  Faults,           \* which of the three kinds of fault happen
  Hanging,          \* runs with a call, to a model or a tool, that may never return
  RecursionLimit    \* LangGraph's limit on the supersteps of one run

ASSUME GraphAssumption ==
  /\ SearchAnswers \subseteq Seq(Maybe(Pages))
  /\ \A chunks \in SearchAnswers : Len(chunks) <= GROUNDING_CHUNKS
  /\ Serial \in BOOLEAN
  /\ Faults \subseteq {"model_error", "disconnect", "restart"}
  /\ Hanging \subseteq Runs
  /\ RecursionLimit \in Nat

VARIABLES
  saved,       \* thread -> the state its latest checkpoint holds
  state,       \* run -> the copy of the state the run works on
  node,        \* run -> the node scheduled next, or how the run stands
  thread,      \* run -> the thread it was started on
  supersteps   \* run -> nodes it has completed

vars == <<saved, state, node, thread, supersteps>>

ModelNodes == {"intake", "plan", "diagnose", "recommend", "answer_followup"}
Nodes == ModelNodes \cup {"gather_context", "execute_tool", "ground", "finalize"}
Ended == {"done", "failed", "cancelled", "lost"}

Active(r) == node[r] \in Nodes

TypeOK ==
  /\ saved \in [Threads -> State]
  /\ state \in [Runs -> State]
  /\ node \in [Runs -> Nodes \cup Ended \cup {"unused"}]
  /\ thread \in [Runs -> Maybe(Threads)]
  /\ supersteps \in [Runs -> Nat]

Init ==
  /\ saved = [t \in Threads |-> Defaults]
  /\ state = [r \in Runs |-> Defaults]
  /\ node = [r \in Runs |-> "unused"]
  /\ thread = [r \in Runs |-> None]
  /\ supersteps = [r \in Runs |-> 0]

-------------------------------------------------------------------------------
\* The edges of the graph, given the state the node left.
Successor(n, s) ==
  CASE n = "intake" -> route_after_intake(s)
    [] n = "gather_context" -> "plan"
    [] n = "plan" -> route_after_plan(s)
    [] n = "execute_tool" -> "plan"
    [] n = "diagnose" -> "ground"
    [] n = "ground" -> "recommend"
    [] n = "recommend" -> "finalize"
    [] n = "answer_followup" -> "finalize"
    [] n = "finalize" -> "done"

StartTurn(r, t) ==
  LET s == NewTurn(saved[t], r)
  IN /\ node[r] = "unused"
     /\ Serial => \A q \in Runs : Active(q) => thread[q] # t
     /\ state' = [state EXCEPT ![r] = s]
     /\ saved' = [saved EXCEPT ![t] = s]
     /\ node' = [node EXCEPT ![r] = "intake"]
     /\ thread' = [thread EXCEPT ![r] = t]
     /\ UNCHANGED supersteps

\* LangGraph spends a superstep on its hidden __start__ node, too, and tests the
\* limit before it looks whether anything is scheduled: a run of n nodes needs n + 1.
StepsLeft(r) == supersteps[r] + 1 <= RecursionLimit

\* Node n may run for r.
Ready(r, n) == node[r] = n /\ StepsLeft(r)

\* The run is through, finalize is checkpointed, and still it ends with an error.
RaisesAtEnd(r) == node[r] = "done" /\ ~StepsLeft(r)

\* The run completes its node with state s, which becomes the thread's latest
\* checkpoint whatever another run saved meanwhile.
Complete(r, s) ==
  /\ state' = [state EXCEPT ![r] = s]
  /\ saved' = [saved EXCEPT ![thread[r]] = s]
  /\ node' = [node EXCEPT ![r] = Successor(node[r], s)]
  /\ supersteps' = [supersteps EXCEPT ![r] = @ + 1]
  /\ UNCHANGED thread

Intake(r) ==
  /\ Ready(r, "intake")
  /\ \E answer \in ScopeAnswers : Complete(r, intake(state[r], answer))

GatherContext(r) ==
  /\ Ready(r, "gather_context")
  /\ \E result \in ToolResults : Complete(r, gather_context(state[r], result))

PlanAtGuard(r) ==
  /\ Ready(r, "plan")
  /\ AtLoopGuard(state[r])
  /\ Complete(r, plan_at_guard(state[r]))

Plan(r) ==
  /\ Ready(r, "plan")
  /\ ~AtLoopGuard(state[r])
  /\ \E answer \in PlanAnswers : Complete(r, plan(state[r], answer))

ExecuteTool(r) ==
  /\ Ready(r, "execute_tool")
  /\ \E result \in ToolOutcomes(state[r].pending_tool_call.val) :
       Complete(r, execute_tool(state[r], result))

Diagnose(r) ==
  /\ Ready(r, "diagnose")
  /\ \E answer \in DiagnosisAnswers : Complete(r, diagnose(state[r], answer))

GroundSkipped(r) ==
  /\ Ready(r, "ground")
  /\ ~Searches(state[r])
  /\ Complete(r, ground_without_search(state[r]))

Ground(r) ==
  /\ Ready(r, "ground")
  /\ Searches(state[r])
  /\ \/ \E chunks \in SearchAnswers : Complete(r, ground(state[r], chunks))
     \/ Complete(r, ground_failed(state[r]))

Recommend(r) ==
  /\ Ready(r, "recommend")
  /\ \E text \in ReplyTexts : Complete(r, recommend(state[r], text))

AnswerFollowup(r) ==
  /\ Ready(r, "answer_followup")
  /\ \E text \in ReplyTexts : Complete(r, answer_followup(state[r], text))

Finalize(r) ==
  /\ Ready(r, "finalize")
  /\ Complete(r, finalize(state[r]))

-------------------------------------------------------------------------------
\* The run stops where it is; what it has checkpointed stays.
End(r, how) ==
  /\ Active(r)
  /\ node' = [node EXCEPT ![r] = how]
  /\ UNCHANGED <<saved, state, thread, supersteps>>

\* Mutant of ModelError: the half-done turn is archived as it stands.
ModelError_Archives(r) ==
  /\ "model_error" \in Faults
  /\ node[r] \in ModelNodes
  /\ saved' = [saved EXCEPT ![thread[r]] = finalize(state[r])]
  /\ node' = [node EXCEPT ![r] = "failed"]
  /\ UNCHANGED <<state, thread, supersteps>>

\* Nodes that gather facts turn errors into data; a model's error escapes.
ModelError(r) ==
  /\ "model_error" \in Faults
  /\ node[r] \in ModelNodes
  /\ End(r, "failed")

\* The limit of supersteps is met with work left.
RecursionError(r) ==
  /\ ~StepsLeft(r)
  /\ End(r, "failed")

Disconnect(r) ==
  /\ "disconnect" \in Faults
  /\ End(r, "cancelled")

\* The process dies and comes back: the database file is all that survives.
Restart ==
  /\ "restart" \in Faults
  /\ \E r \in Runs : Active(r)
  /\ node' = [r \in Runs |-> IF Active(r) THEN "lost" ELSE node[r]]
  /\ UNCHANGED <<saved, state, thread, supersteps>>

NodeStep(r) ==
  \/ Intake(r) \/ GatherContext(r) \/ PlanAtGuard(r) \/ Plan(r) \/ ExecuteTool(r)
  \/ Diagnose(r) \/ GroundSkipped(r) \/ Ground(r) \/ Recommend(r)
  \/ AnswerFollowup(r) \/ Finalize(r)

Next ==
  \/ \E r \in Runs : \/ \E t \in Threads : StartTurn(r, t)
                     \/ NodeStep(r)
                     \/ ModelError(r) \/ RecursionError(r) \/ Disconnect(r)
  \/ Restart

Spec == Init /\ [][Next]_vars

\* A scheduled node runs to its end, if its calls come back.  Nothing bounds how
\* long one takes: the model is given no timeout (models/config.py:44-49), the
\* Kubernetes client none (tools/client.py), and no node waits for one with a limit.
\* A call that hangs holds its own run only: models are awaited, tools run in threads.
FairSpec == Spec /\ \A r \in Runs \ Hanging : WF_vars(NodeStep(r) \/ RecursionError(r))

-------------------------------------------------------------------------------
(***************************************************************************)
(* Safety of what a thread keeps                                           *)
(***************************************************************************)
OwnEvidence(turn) ==
  LET own(x) == x # None => x.by = turn.user_request
  IN /\ own(turn.reply) /\ own(turn.scope)
     /\ own(turn.diagnosis) /\ own(turn.recommendation)
     /\ \A i \in DOMAIN turn.investigation_log :
          own(turn.investigation_log[i]) /\ own(turn.investigation_log[i].rationale)
     /\ \A i \in DOMAIN turn.reference_docs : own(turn.reference_docs[i])

OwnTurns(turns) == \A i \in DOMAIN turns : OwnEvidence(turns[i])

\* An archived turn holds its own evidence and nothing an earlier turn, one
\* that failed half way, or one running beside it left in the run fields
\* (graph.state.new_turn_input resets them over the saved state).
EvidenceIsOwn == \A t \in Threads : OwnTurns(saved[t].turns)

\* The sweep, then at most LOOP_GUARD_MAX tool calls the planner asked for.
SweepThenTools(records) ==
  /\ Len(records) \in 1..(LOOP_GUARD_MAX + 1)
  /\ records[1].tool_name = INITIAL_SWEEP
  /\ \A i \in DOMAIN records : records[i].rationale = None <=> i = 1

Investigation(turn) ==
  /\ SweepThenTools(turn.investigation_log)
  /\ turn.diagnosis # None /\ turn.recommendation # None
  /\ turn.reply = turn.recommendation
  /\ turn.loop_guard_triggered
       <=> Len(turn.investigation_log) = LOOP_GUARD_MAX + 1

NoEvidence(turn) ==
  /\ turn.investigation_log = <<>> /\ turn.reference_docs = <<>>
  /\ turn.diagnosis = None /\ turn.recommendation = None
  /\ ~turn.loop_guard_triggered

RoutesMatch(turns) ==
  \A i \in DOMAIN turns :
    /\ turns[i].route = "investigate" => Investigation(turns[i])
    /\ turns[i].route # "investigate" => NoEvidence(turns[i])
    /\ turns[i].route = "followup" => \E j \in InvestigatedTurns(turns) : j < i

\* The route finalize derives from the fields is the route the turn took: an
\* investigation has its sweep, diagnosis and recommendation, and says that the
\* guard cut it short exactly when it used up its tool calls; a follow-up and a
\* clarification have no evidence of their own, and a follow-up stands on an
\* investigation earlier in the same thread.
RouteMatchesWork == \A t \in Threads : RoutesMatch(saved[t].turns)

Paired(messages, turns) ==
  /\ Len(messages) = 2 * Len(turns)
  /\ \A i \in DOMAIN turns :
       /\ messages[2 * i - 1] = [role |-> "human", turn |-> turns[i].user_request]
       /\ messages[2 * i] = [role |-> "ai", turn |-> turns[i].user_request]

\* The messages replayed to the models are the archived turns, request and
\* reply, in the same order: neither list of the conversation runs ahead.
MessagesMatchTurns == \A t \in Threads : Paired(saved[t].messages, saved[t].turns)

\* A turn that failed, was cancelled or died with the server, and one still
\* running, is in no thread; a finished one is archived at most once.
OnlyFinishedTurns ==
  \A t \in Threads : \A i \in DOMAIN saved[t].turns :
    LET r == saved[t].turns[i].user_request
    IN /\ node[r] = "done" /\ thread[r] = t
       /\ \A j \in DOMAIN saved[t].turns : saved[t].turns[j].user_request = r => j = i

\* A finished turn stays in its thread.  Holds when the clients of a thread wait
\* for each other; lost updates break it when they do not.
FinishedTurnsKept ==
  \A r \in Runs : node[r] = "done" =>
    \E i \in DOMAIN saved[thread[r]].turns : saved[thread[r]].turns[i].user_request = r

\* The conversation fields of a thread only ever grow at the end.
TurnsAppendOnly ==
  [][\A t \in Threads :
       \E n \in 0..1 : /\ Len(saved'[t].turns) = Len(saved[t].turns) + n
                       /\ SubSeq(saved'[t].turns, 1, Len(saved[t].turns)) = saved[t].turns]_vars

\* A follow-up is answered from the newest FOLLOWUP_TURNS investigations of the
\* conversation it continues, and from at least one.
FollowupUsesLatest ==
  \A r \in Runs : state[r].followup_answer # None =>
    LET turns == state[r].turns
        used == {i \in InvestigatedTurns(turns) :
                   turns[i].user_request \in state[r].followup_answer.evidence}
    IN /\ used # {} /\ Cardinality(used) <= FOLLOWUP_TURNS
       /\ \A i \in InvestigatedTurns(turns) \ used : \A j \in used : i < j
       /\ InvestigatedTurns(turns) # used => Cardinality(used) = FOLLOWUP_TURNS

\* A tool that works on a namespace was sent to one whenever the turn's scope
\* names one: an omitted argument never falls back to the configured default.
NoMisroutedCall ==
  \A t \in Threads : \A i \in DOMAIN saved[t].turns :
    LET turn == saved[t].turns[i]
    IN \A k \in DOMAIN turn.investigation_log :
         LET record == turn.investigation_log[k]
         IN record.tool_name \in NamespacedTools /\ turn.scope.val.namespace # None
              => /\ record.namespace # None
                 /\ record.namespace_filled
                      => record.namespace = turn.scope.val.namespace

Citable(turn) ==
  LET docs == turn.reference_docs
  IN /\ Len(docs) <= GROUNDING_DOCS
     /\ \A j, k \in DOMAIN docs : docs[j].val = docs[k].val => j = k
     /\ docs # <<>> => /\ Rag /\ turn.diagnosis # None
                       /\ turn.diagnosis.val.root_cause # ""

\* The pages a recommendation could cite are distinct, few, and were only looked
\* for when a cause had been diagnosed (nodes.ground).
CitablePages == \A t \in Threads : \A i \in DOMAIN saved[t].turns : Citable(saved[t].turns[i])

\* No turn runs out of supersteps, at a node or after its last one: the loop guard
\* ends the plan loop first, after at most 2 * LOOP_GUARD_MAX + 7 nodes, and the
\* step LangGraph takes besides makes that 2 * LOOP_GUARD_MAX + 8.
NeverOutOfSupersteps ==
  RecursionLimit >= 2 * LOOP_GUARD_MAX + 8 =>
    \A r \in Runs : Active(r) \/ node[r] = "done" => StepsLeft(r)

-------------------------------------------------------------------------------
(***************************************************************************)
(* Liveness, under FairSpec                                                *)
(***************************************************************************)
\* With no faults and the proper limit, every turn whose calls come back is answered
\* and archived, and ends without an error, whatever calls of other turns hang.
EveryTurnFinishes ==
  \A r \in Runs \ Hanging : node[r] = "intake" ~> node[r] = "done" /\ StepsLeft(r)
===============================================================================
