-------------------------- MODULE ConversationProofs --------------------------
(***************************************************************************)
(* What a thread keeps: only turns that finished, each once, and, when its *)
(* clients wait for each other, every one of them, as Conversation has it. *)
(***************************************************************************)
EXTENDS AgentGraphRefinement, AgentGraphProofs

Once(turns) ==
  \A i, j \in DOMAIN turns : turns[i].user_request = turns[j].user_request => i = j

FinishedIn(t, turns) ==
  \A i \in DOMAIN turns : /\ node[turns[i].user_request] = "done"
                          /\ thread[turns[i].user_request] = t

\* Holds for every thread's checkpoint and for every copy a run works on: the
\* copy becomes the checkpoint when the run completes a node.
FinishedInv ==
  /\ IInv
  /\ \A t \in Threads : Once(saved[t].turns) /\ FinishedIn(t, saved[t].turns)
  /\ \A r \in Runs : Active(r) => /\ Once(state[r].turns)
                                  /\ FinishedIn(thread[r], state[r].turns)

-------------------------------------------------------------------------------
\* What a node does to the conversation: nothing, or finalize's one turn.
Ends(r, s2) ==
  /\ node[r] = "finalize"
  /\ Successor(node[r], s2) = "done"
  /\ s2.turns = Append(state[r].turns, Archived(state[r]))

GoesOn(r, s2) ==
  /\ Successor(node[r], s2) \in Nodes
  /\ s2.turns = state[r].turns

LEMMA NodesKeepTurns ==
  ASSUME NEW s \in State, NEW x
  PROVE  /\ intake(s, x).turns = s.turns /\ gather_context(s, x).turns = s.turns
         /\ plan_at_guard(s).turns = s.turns /\ plan(s, x).turns = s.turns
         /\ execute_tool(s, x).turns = s.turns /\ diagnose(s, x).turns = s.turns
         /\ ground_without_search(s).turns = s.turns /\ ground(s, x).turns = s.turns
         /\ ground_failed(s).turns = s.turns /\ recommend(s, x).turns = s.turns
         /\ answer_followup(s, x).turns = s.turns
         /\ finalize(s).turns = Append(s.turns, Archived(s))
BY DEF State, intake, gather_context, plan_at_guard, plan, execute_tool, diagnose,
       ground_without_search, ground, ground_failed, recommend, answer_followup, finalize

LEMMA NodeStepShape ==
  ASSUME IInv, NEW r \in Runs, NodeStep(r)
  PROVE  /\ Active(r)
         /\ \E s2 : Complete(r, s2) /\ (Ends(r, s2) \/ GoesOn(r, s2))
<1> DEFINE s == state[r]
<1>1. s \in State
  BY DEF IInv, TypeOK
<1>2. /\ "done" \notin Nodes /\ Active(r) <=> node[r] \in Nodes
      /\ {"intake", "gather_context", "plan", "execute_tool", "diagnose", "ground",
          "recommend", "answer_followup", "finalize"} \subseteq Nodes
  BY DEF Active, Nodes, ModelNodes
<1> HIDE DEF s
<1>3. ASSUME NEW s2, Complete(r, s2), s2.turns = s.turns,
             node[r] \in Nodes, Successor(node[r], s2) \in Nodes
      PROVE  Active(r) /\ \E x : Complete(r, x) /\ (Ends(r, x) \/ GoesOn(r, x))
  BY <1>2, <1>3 DEF GoesOn, s
<1>4. \A x : /\ Successor("intake", x) \in Nodes /\ Successor("gather_context", x) \in Nodes
             /\ Successor("plan", x) \in Nodes /\ Successor("execute_tool", x) \in Nodes
             /\ Successor("diagnose", x) \in Nodes /\ Successor("ground", x) \in Nodes
             /\ Successor("recommend", x) \in Nodes
             /\ Successor("answer_followup", x) \in Nodes
             /\ Successor("finalize", x) = "done"
  BY <1>2 DEF Successor, route_after_intake, route_after_plan
<1>5. CASE Intake(r)
  <2>1. PICK x \in ScopeAnswers : Complete(r, intake(s, x))
    BY <1>5 DEF Intake, s
  <2>2. node[r] = "intake"
    BY <1>5 DEF Intake, Ready
  <2>3. QED
    BY <1>1, <1>2, <1>3, <1>4, <2>1, <2>2, NodesKeepTurns
<1>6. CASE GatherContext(r)
  <2>1. PICK x \in ToolResults : Complete(r, gather_context(s, x))
    BY <1>6 DEF GatherContext, s
  <2>2. node[r] = "gather_context"
    BY <1>6 DEF GatherContext, Ready
  <2>3. QED
    BY <1>1, <1>2, <1>3, <1>4, <2>1, <2>2, NodesKeepTurns
<1>7. CASE PlanAtGuard(r) \/ Plan(r)
  <2>1. Complete(r, plan_at_guard(s)) \/ \E x \in PlanAnswers : Complete(r, plan(s, x))
    BY <1>7 DEF PlanAtGuard, Plan, s
  <2>2. node[r] = "plan"
    BY <1>7 DEF PlanAtGuard, Plan, Ready
  <2>3. QED
    BY <1>1, <1>2, <1>3, <1>4, <2>1, <2>2, NodesKeepTurns
<1>8. CASE ExecuteTool(r)
  <2>1. PICK x \in ToolOutcomes(s.pending_tool_call.val) : Complete(r, execute_tool(s, x))
    BY <1>8 DEF ExecuteTool, s
  <2>2. node[r] = "execute_tool"
    BY <1>8 DEF ExecuteTool, Ready
  <2>3. QED
    BY <1>1, <1>2, <1>3, <1>4, <2>1, <2>2, NodesKeepTurns
<1>9. CASE Diagnose(r)
  <2>1. PICK x \in DiagnosisAnswers : Complete(r, diagnose(s, x))
    BY <1>9 DEF Diagnose, s
  <2>2. node[r] = "diagnose"
    BY <1>9 DEF Diagnose, Ready
  <2>3. QED
    BY <1>1, <1>2, <1>3, <1>4, <2>1, <2>2, NodesKeepTurns
<1>10. CASE GroundSkipped(r) \/ Ground(r)
  <2>1. \/ Complete(r, ground_without_search(s)) \/ Complete(r, ground_failed(s))
        \/ \E x \in SearchAnswers : Complete(r, ground(s, x))
    BY <1>10 DEF GroundSkipped, Ground, s
  <2>2. node[r] = "ground"
    BY <1>10 DEF GroundSkipped, Ground, Ready
  <2>3. QED
    BY <1>1, <1>2, <1>3, <1>4, <2>1, <2>2, NodesKeepTurns
<1>11. CASE Recommend(r)
  <2>1. PICK x \in ReplyTexts : Complete(r, recommend(s, x))
    BY <1>11 DEF Recommend, s
  <2>2. node[r] = "recommend"
    BY <1>11 DEF Recommend, Ready
  <2>3. QED
    BY <1>1, <1>2, <1>3, <1>4, <2>1, <2>2, NodesKeepTurns
<1>12. CASE AnswerFollowup(r)
  <2>1. PICK x \in ReplyTexts : Complete(r, answer_followup(s, x))
    BY <1>12 DEF AnswerFollowup, s
  <2>2. node[r] = "answer_followup"
    BY <1>12 DEF AnswerFollowup, Ready
  <2>3. QED
    BY <1>1, <1>2, <1>3, <1>4, <2>1, <2>2, NodesKeepTurns
<1>13. CASE Finalize(r)
  <2>1. node[r] = "finalize" /\ Complete(r, finalize(s))
    BY <1>13 DEF Finalize, Ready, s
  <2>2. Ends(r, finalize(s))
    BY <1>1, <1>4, <2>1, NodesKeepTurns DEF Ends, s
  <2>3. QED
    BY <1>2, <2>1, <2>2
<1>14. QED
  BY <1>5, <1>6, <1>7, <1>8, <1>9, <1>10, <1>11, <1>12, <1>13 DEF NodeStep

LEMMA StopShape ==
  ASSUME IInv, Restart \/ \E r \in Runs : ModelError(r) \/ RecursionError(r) \/ Disconnect(r)
  PROVE  /\ UNCHANGED <<saved, state, thread, supersteps>>
         /\ \A q \in Runs : IF node'[q] = node[q] THEN TRUE
                            ELSE Active(q) /\ node'[q] \in Ended \ {"done"}
BY DEF Restart, ModelError, RecursionError, Disconnect, End, Ended, IInv, TypeOK

\* A finished turn is finished for good.
LEMMA DoneStays ==
  ASSUME IInv, [Next]_vars, NEW q \in Runs, node[q] = "done"
  PROVE  node'[q] = "done" /\ thread'[q] = thread[q]
<1>1. ~Active(q)
  BY DEF Active, Nodes, ModelNodes
<1>2. CASE \E r \in Runs, t \in Threads : StartTurn(r, t)
  BY <1>2 DEF StartTurn, IInv, TypeOK
<1>3. CASE \E r \in Runs : NodeStep(r)
  BY <1>1, <1>3, NodeStepShape DEF Complete, IInv, TypeOK
<1>4. CASE Restart \/ \E r \in Runs : ModelError(r) \/ RecursionError(r) \/ Disconnect(r)
  BY <1>1, <1>4, StopShape
<1>5. CASE UNCHANGED vars
  BY <1>5 DEF vars
<1>6. QED
  BY <1>2, <1>3, <1>4, <1>5 DEF Next

LEMMA OneMore ==
  ASSUME NEW turns \in Seq(TurnRecord), Once(turns), NEW turn \in TurnRecord,
         \A i \in DOMAIN turns : turns[i].user_request # turn.user_request
  PROVE  Once(Append(turns, turn))
<1> DEFINE longer == Append(turns, turn)
<1>1. /\ Len(turns) \in Nat /\ DOMAIN turns = 1..Len(turns)
      /\ DOMAIN longer = 1..(Len(turns) + 1) /\ longer[Len(turns) + 1] = turn
      /\ \A i \in 1..Len(turns) : longer[i] = turns[i]
  OBVIOUS
<1> HIDE DEF longer
<1>2. ASSUME NEW i \in DOMAIN longer, NEW j \in DOMAIN longer,
             longer[i].user_request = longer[j].user_request
      PROVE  i = j
  BY <1>1, <1>2 DEF Once
<1>3. Once(longer)
  BY <1>2 DEF Once
<1>4. QED
  BY <1>3 DEF longer

-------------------------------------------------------------------------------
LEMMA InitFinished == Init => FinishedInv
BY InitIInv DEF Init, FinishedInv, Once, FinishedIn, Defaults, Active, Nodes, ModelNodes

LEMMA NextFinished == FinishedInv /\ [Next]_vars => FinishedInv'
<1> SUFFICES ASSUME FinishedInv, [Next]_vars PROVE FinishedInv'
  OBVIOUS
<1>1. IInv /\ IInv'
  BY NextKeeps DEF FinishedInv
<1>2. /\ \A t \in Threads : saved[t].turns \in Seq(TurnRecord)
      /\ \A r \in Runs : state[r].turns \in Seq(TurnRecord)
  BY <1>1 DEF IInv, TypeOK, State
\* What is finished in a copy or a checkpoint is still finished after the step.
<1>3. /\ \A t \in Threads : FinishedIn(t, saved[t].turns) =>
            \A i \in DOMAIN saved[t].turns :
              LET q == saved[t].turns[i].user_request
              IN node'[q] = "done" /\ thread'[q] = t
      /\ \A r \in Runs : \A t \in Threads : FinishedIn(t, state[r].turns) =>
            \A i \in DOMAIN state[r].turns :
              LET q == state[r].turns[i].user_request
              IN node'[q] = "done" /\ thread'[q] = t
  <2>1. ASSUME NEW turns \in Seq(TurnRecord), NEW t \in Threads, FinishedIn(t, turns)
        PROVE  \A i \in DOMAIN turns : LET q == turns[i].user_request
                                       IN node'[q] = "done" /\ thread'[q] = t
    <3>1. \A i \in DOMAIN turns : turns[i].user_request \in Runs
      <4>1. \A i \in DOMAIN turns : turns[i] \in TurnRecord
        OBVIOUS
      <4>2. QED
        BY <4>1 DEF TurnRecord
    <3>2. QED
      BY <1>1, <2>1, <3>1, DoneStays DEF FinishedIn
  <2>2. QED
    BY <1>2, <2>1
<1>4. SUFFICES
        /\ \A t \in Threads :
             /\ Once(saved'[t].turns)
             /\ \A i \in DOMAIN saved'[t].turns :
                  LET q == saved'[t].turns[i].user_request
                  IN node'[q] = "done" /\ thread'[q] = t
        /\ \A r \in Runs : node'[r] \in Nodes =>
             /\ Once(state'[r].turns)
             /\ \A i \in DOMAIN state'[r].turns :
                  LET q == state'[r].turns[i].user_request
                  IN node'[q] = "done" /\ thread'[q] = thread'[r]
  BY <1>1 DEF FinishedInv, FinishedIn, Once, Active
<1>5. CASE \E r \in Runs, t \in Threads : StartTurn(r, t)
  <2>1. PICK r \in Runs, t \in Threads : StartTurn(r, t)
    BY <1>5
  <2> DEFINE s2 == NewTurn(saved[t], r)
  <2>2. s2.turns = saved[t].turns
    BY DEF NewTurn, Defaults
  <2> HIDE DEF s2
  <2>3. /\ state' = [state EXCEPT ![r] = s2] /\ saved' = [saved EXCEPT ![t] = s2]
        /\ node' = [node EXCEPT ![r] = "intake"] /\ thread' = [thread EXCEPT ![r] = t]
    BY <2>1 DEF StartTurn, s2
  <2>4. \A u \in Threads : saved'[u].turns = saved[u].turns
    BY <1>1, <2>2, <2>3 DEF IInv, TypeOK
  <2>5. /\ state'[r].turns = saved[t].turns /\ thread'[r] = t
        /\ \A q \in Runs \ {r} : /\ state'[q] = state[q] /\ node'[q] = node[q]
                                 /\ thread'[q] = thread[q]
    BY <1>1, <2>2, <2>3 DEF IInv, TypeOK
  <2>6. QED
    BY <1>1, <1>3, <2>4, <2>5 DEF FinishedInv, IInv, Active
<1>6. CASE \E r \in Runs : NodeStep(r)
  <2>1. PICK r \in Runs : NodeStep(r)
    BY <1>6
  <2>2. PICK s2 : Complete(r, s2) /\ (Ends(r, s2) \/ GoesOn(r, s2))
    BY <1>1, <2>1, NodeStepShape
  <2>3. Active(r) /\ thread[r] \in Threads
    BY <1>1, <2>1, NodeStepShape DEF IInv
  <2>4. /\ state'[r] = s2 /\ saved'[thread[r]] = s2
        /\ node'[r] = Successor(node[r], s2) /\ thread' = thread
        /\ \A u \in Threads \ {thread[r]} : saved'[u] = saved[u]
        /\ \A q \in Runs \ {r} : state'[q] = state[q] /\ node'[q] = node[q]
    BY <1>1, <2>2, <2>3 DEF Complete, IInv, TypeOK
  <2>5. /\ Once(state[r].turns)
        /\ FinishedIn(thread[r], state[r].turns)
        /\ \A i \in DOMAIN state[r].turns :
             LET q == state[r].turns[i].user_request
             IN node'[q] = "done" /\ thread'[q] = thread[r]
    BY <1>3, <2>3 DEF FinishedInv
  <2>6. CASE GoesOn(r, s2)
    BY <1>1, <1>3, <2>3, <2>4, <2>5, <2>6 DEF FinishedInv, GoesOn, IInv, Active
  <2>7. CASE Ends(r, s2)
    <3> DEFINE turns == state[r].turns
               turn == Archived(state[r])
    <3>1. /\ s2.turns = Append(turns, turn) /\ node'[r] = "done" /\ node[r] = "finalize"
      BY <2>4, <2>7 DEF Ends
    <3>2. turn.user_request = r /\ turn \in TurnRecord
      BY <1>1, <2>3, ArchivedType DEF IInv, TypeOK, Archived
    <3>3. turns \in Seq(TurnRecord)
      BY <1>2
    <3>4. \A i \in DOMAIN turns : turns[i].user_request # r
      BY <2>5, <3>1 DEF FinishedIn
    <3> HIDE DEF turn, turns
    <3>5. Once(Append(turns, turn))
      BY <2>5, <3>2, <3>3, <3>4, OneMore DEF turns
    <3>6. \A i \in DOMAIN Append(turns, turn) :
            LET q == Append(turns, turn)[i].user_request
            IN node'[q] = "done" /\ thread'[q] = thread[r]
      <4>1. TAKE i \in DOMAIN Append(turns, turn)
      <4>2. \/ i \in DOMAIN turns /\ Append(turns, turn)[i] = turns[i]
            \/ Append(turns, turn)[i] = turn
        BY <3>2, <3>3
      <4>3. QED
        BY <2>4, <2>5, <3>1, <3>2, <4>2 DEF turns
    <3>7. "done" \notin Nodes
      BY DEF Nodes, ModelNodes
    <3> DEFINE longer == Append(turns, turn)
    <3>8. saved'[thread[r]].turns = longer
      BY <2>4, <3>1
    <3>9. /\ Once(longer)
          /\ \A i \in DOMAIN longer : LET q == longer[i].user_request
                                      IN node'[q] = "done" /\ thread'[q] = thread[r]
      BY <3>5, <3>6
    <3> HIDE DEF longer
    <3>10. ASSUME NEW u \in Threads
           PROVE  /\ Once(saved'[u].turns)
                  /\ \A i \in DOMAIN saved'[u].turns :
                       LET q == saved'[u].turns[i].user_request
                       IN node'[q] = "done" /\ thread'[q] = u
      <4>1. CASE u = thread[r]
        BY <3>8, <3>9, <4>1
      <4>2. CASE u # thread[r]
        BY <1>3, <2>4, <4>2 DEF FinishedInv
      <4>3. QED
        BY <4>1, <4>2
    <3>11. ASSUME NEW q \in Runs, node'[q] \in Nodes
           PROVE  /\ Once(state'[q].turns)
                  /\ \A i \in DOMAIN state'[q].turns :
                       LET p == state'[q].turns[i].user_request
                       IN node'[p] = "done" /\ thread'[p] = thread'[q]
      <4>1. q # r /\ state'[q] = state[q] /\ thread'[q] = thread[q] /\ Active(q)
        BY <2>4, <3>1, <3>7, <3>11 DEF Active
      <4>2. thread[q] \in Threads
        BY <1>1, <4>1 DEF IInv
      <4>3. QED
        BY <1>3, <4>1, <4>2 DEF FinishedInv
    <3>12. QED
      BY <3>10, <3>11
  <2>8. QED
    BY <2>2, <2>6, <2>7
<1>7. CASE Restart \/ \E r \in Runs : ModelError(r) \/ RecursionError(r) \/ Disconnect(r)
  <2>1. /\ UNCHANGED <<saved, state, thread>>
        /\ \A q \in Runs : node'[q] \in Nodes => Active(q)
    BY <1>1, <1>7, StopShape DEF Active
  <2>2. QED
    BY <1>1, <1>3, <2>1 DEF FinishedInv, IInv
<1>8. CASE UNCHANGED vars
  BY <1>1, <1>3, <1>8 DEF FinishedInv, vars, Active, IInv
<1>9. QED
  BY <1>5, <1>6, <1>7, <1>8 DEF Next

LEMMA FinishedInvariance == Spec => []FinishedInv
BY InitFinished, NextFinished, PTL DEF Spec

\* Whatever fails, is cancelled or runs beside it: what is in a thread is a turn
\* that was finished there, and is in it once.
THEOREM OnlyFinishedKept == Spec => []OnlyFinishedTurns
<1>1. FinishedInv => OnlyFinishedTurns
  BY DEF FinishedInv, FinishedIn, Once, OnlyFinishedTurns
<1>2. QED
  BY <1>1, FinishedInvariance, PTL

-------------------------------------------------------------------------------
(***************************************************************************)
(* Where the tools of a turn were sent.                                    *)
(***************************************************************************)
\* record went to a namespace whenever the scope names one (scoped), and to that
\* one when the planner had left the argument out.
SentByScope(record, scoped) ==
  record.tool_name \in NamespacedTools /\ scoped # None
    => /\ record.namespace # None
       /\ record.namespace_filled => record.namespace = scoped

Routed(records, scoped) == \A k \in DOMAIN records : SentByScope(records[k], scoped)

RoutedTurns(turns) ==
  \A i \in DOMAIN turns : Routed(turns[i].investigation_log, turns[i].scope.val.namespace)

\* The scope is there from the first call on, and no node after intake writes it:
\* what the log has is judged by the scope finalize archives beside it.
RoutedRun(n, s) ==
  n \in Nodes => /\ RoutedTurns(s.turns)
                 /\ n # "intake" => s.scope # None
                 /\ Routed(s.investigation_log, ScopeNamespace(s))

RoutedInv ==
  /\ IInv
  /\ \A t \in Threads : RoutedTurns(saved[t].turns)
  /\ \A r \in Runs : RoutedRun(node[r], state[r])

LEMMA RoutedGrows ==
  ASSUME NEW records \in Seq(ToolCallRecord), NEW record \in ToolCallRecord, NEW scoped,
         Routed(records, scoped), SentByScope(record, scoped)
  PROVE  Routed(Append(records, record), scoped)
<1> DEFINE longer == Append(records, record)
<1>1. \A k \in DOMAIN longer : (k \in DOMAIN records /\ longer[k] = records[k])
                               \/ longer[k] = record
  OBVIOUS
<1> HIDE DEF longer
<1>2. Routed(longer, scoped)
  BY <1>1 DEF Routed
<1> QED
  BY <1>2 DEF longer

LEMMA RoutedTurnsGrow ==
  ASSUME NEW turns \in Seq(TurnRecord), NEW turn \in TurnRecord, RoutedTurns(turns),
         Routed(turn.investigation_log, turn.scope.val.namespace)
  PROVE  RoutedTurns(Append(turns, turn))
<1> DEFINE longer == Append(turns, turn)
<1>1. \A i \in DOMAIN longer : (i \in DOMAIN turns /\ longer[i] = turns[i])
                               \/ longer[i] = turn
  OBVIOUS
<1> HIDE DEF longer
<1>2. RoutedTurns(longer)
  BY <1>1 DEF RoutedTurns
<1> QED
  BY <1>2 DEF longer

LEMMA GatherRoutes ==
  ASSUME NEW s \in State, s.user_request \in Runs, NEW res \in ToolResults,
         Routed(s.investigation_log, ScopeNamespace(s))
  PROVE  Routed(gather_context(s, res).investigation_log, ScopeNamespace(s))
<1> DEFINE record == [by |-> s.user_request, tool_name |-> INITIAL_SWEEP,
                      namespace |-> ScopeNamespace(s), namespace_filled |-> FALSE,
                      result |-> res, rationale |-> None]
<1>1. record \in ToolCallRecord
  BY ScopeNamespaceType DEF ToolCallRecord, Maybe
<1>2. gather_context(s, res).investigation_log = Append(s.investigation_log, record)
  BY DEF gather_context, State
<1>3. s.investigation_log \in Seq(ToolCallRecord)
  BY DEF State
<1>4. SentByScope(record, ScopeNamespace(s))
  BY DEF SentByScope
<1> HIDE DEF record
<1> QED
  BY <1>1, <1>2, <1>3, <1>4, RoutedGrows

LEMMA ToolRoutes ==
  ASSUME NEW s \in State, s.user_request \in Runs, s.pending_tool_call \in Tagged(ToolCall),
         NEW res \in ToolOutcomes(s.pending_tool_call.val),
         Routed(s.investigation_log, ScopeNamespace(s))
  PROVE  Routed(execute_tool(s, res).investigation_log, ScopeNamespace(s))
<1> DEFINE call == s.pending_tool_call.val
           filled == FillsNamespace(s, call)
           record == [by |-> s.user_request, tool_name |-> call.name,
                      namespace |-> IF filled THEN ScopeNamespace(s) ELSE call.namespace,
                      namespace_filled |-> filled, result |-> res,
                      rationale |-> s.plan_rationale]
<1>1. execute_tool(s, res).investigation_log = Append(s.investigation_log, record)
  BY DEF execute_tool, State
<1>2. /\ s.investigation_log \in Seq(ToolCallRecord)
      /\ execute_tool(s, res).investigation_log \in Seq(ToolCallRecord)
  BY ExecuteToolType DEF State
<1>3. SentByScope(record, ScopeNamespace(s))
  <2>1. CASE filled
    <3>1. record.namespace = ScopeNamespace(s)
      BY <2>1
    <3> QED
      BY <3>1 DEF SentByScope
  <2>2. CASE ~filled
    <3>1. /\ record.namespace = call.namespace /\ record.tool_name = call.name
          /\ ~record.namespace_filled
      BY <2>2
    <3>2. call.name \in NamespacedTools /\ ScopeNamespace(s) # None
            => call.namespace # None
      BY <2>2 DEF FillsNamespace
    <3> HIDE DEF record, call
    <3> QED
      BY <3>1, <3>2 DEF SentByScope
  <2> QED
    BY <2>1, <2>2
<1> HIDE DEF record
<1>4. record \in ToolCallRecord
  <2> DEFINE longer == Append(s.investigation_log, record)
             n == Len(s.investigation_log) + 1
  <2>1. longer \in Seq(ToolCallRecord)
    BY <1>1, <1>2
  <2>2. n \in DOMAIN longer /\ longer[n] = record
    BY <1>2
  <2> QED
    BY <2>1, <2>2
<1> QED
  BY <1>1, <1>2, <1>3, <1>4, RoutedGrows

LEMMA NodesKeepScope ==
  ASSUME NEW s \in State, NEW x
  PROVE  LET Same(s2) == /\ s2.scope = s.scope
                         /\ s2.investigation_log = s.investigation_log
         IN /\ Same(plan_at_guard(s)) /\ Same(plan(s, x)) /\ Same(diagnose(s, x))
            /\ Same(ground_without_search(s)) /\ Same(ground(s, x))
            /\ Same(ground_failed(s)) /\ Same(recommend(s, x))
            /\ Same(answer_followup(s, x)) /\ Same(finalize(s))
            /\ gather_context(s, x).scope = s.scope
            /\ execute_tool(s, x).scope = s.scope
            /\ intake(s, x).investigation_log = s.investigation_log
            /\ intake(s, x).scope = Tag(s.user_request, x)
BY DEF State, intake, gather_context, plan_at_guard, plan, execute_tool, diagnose,
       ground_without_search, ground, ground_failed, recommend, answer_followup, finalize

\* Whatever node runs, the run has its scope and its log is sent by it.
LEMMA NodeStepRoutes ==
  ASSUME IInv, NEW r \in Runs, NodeStep(r), RoutedRun(node[r], state[r])
  PROVE  \E s2 : /\ Complete(r, s2) /\ (Ends(r, s2) \/ GoesOn(r, s2))
                 /\ s2.scope # None
                 /\ Routed(s2.investigation_log, ScopeNamespace(s2))
<1> DEFINE s == state[r]
<1>1. PICK s2 : Complete(r, s2) /\ (Ends(r, s2) \/ GoesOn(r, s2))
  BY NodeStepShape
<1>2. Active(r) /\ state'[r] = s2
  BY <1>1, NodeStepShape DEF Complete, IInv, TypeOK
<1>3. /\ s \in State /\ s.user_request \in Runs /\ Stage(node[r], s, supersteps[r])
      /\ node[r] # "intake" => s.scope # None
      /\ Routed(s.investigation_log, ScopeNamespace(s))
  BY <1>2 DEF IInv, TypeOK, RoutedRun, Active
<1>4. \A x : Complete(r, x) => s2 = x
  BY <1>2 DEF Complete, IInv, TypeOK
<1> SUFFICES s2.scope # None /\ Routed(s2.investigation_log, ScopeNamespace(s2))
  BY <1>1
<1> HIDE DEF s
<1>5. CASE Intake(r)
  <2>1. PICK a \in ScopeAnswers : s2 = intake(s, a)
    BY <1>4, <1>5 DEF Intake, s
  <2>2. s.investigation_log = <<>>
    BY <1>3, <1>5 DEF Intake, Ready, Stage, Untouched
  <2>3. s2.scope = Tag(s.user_request, a) /\ s2.investigation_log = <<>>
    BY <1>3, <2>1, <2>2, NodesKeepScope
  <2>4. Tag(s.user_request, a) \in Tagged(ScopeAnswers)
    BY <1>3 DEF Tag, Tagged
  <2> QED
    BY <2>3, <2>4, NoneAssumption DEF Routed
<1>6. CASE /\ node[r] # "intake" /\ s2.scope = s.scope
           /\ Routed(s2.investigation_log, ScopeNamespace(s))
  BY <1>3, <1>6 DEF ScopeNamespace
<1>7. CASE GatherContext(r)
  BY <1>3, <1>4, <1>6, <1>7, GatherRoutes, NodesKeepScope DEF GatherContext, Ready, s
<1>8. CASE ExecuteTool(r)
  <2>1. s.pending_tool_call \in Tagged(ToolCall)
    BY <1>3, <1>8 DEF ExecuteTool, Ready, Stage, State, Maybe
  <2> QED
    BY <1>3, <1>4, <1>6, <1>8, <2>1, ToolRoutes, NodesKeepScope DEF ExecuteTool, Ready, s
<1>9. CASE PlanAtGuard(r) \/ Plan(r) \/ Diagnose(r)
  BY <1>3, <1>4, <1>6, <1>9, NodesKeepScope DEF PlanAtGuard, Plan, Diagnose, Ready, s
<1>10. CASE GroundSkipped(r) \/ Ground(r)
  BY <1>3, <1>4, <1>6, <1>10, NodesKeepScope DEF GroundSkipped, Ground, Ready, s
<1>11. CASE Recommend(r) \/ AnswerFollowup(r) \/ Finalize(r)
  BY <1>3, <1>4, <1>6, <1>11, NodesKeepScope
     DEF Recommend, AnswerFollowup, Finalize, Ready, s
<1> QED
  BY <1>5, <1>7, <1>8, <1>9, <1>10, <1>11 DEF NodeStep

LEMMA InitRouted == Init => RoutedInv
BY InitIInv DEF Init, RoutedInv, RoutedTurns, RoutedRun, Defaults, Nodes, ModelNodes

LEMMA NextRouted == RoutedInv /\ [Next]_vars => RoutedInv'
<1> SUFFICES ASSUME RoutedInv, [Next]_vars PROVE RoutedInv'
  OBVIOUS
<1>1. IInv /\ IInv'
  BY NextKeeps DEF RoutedInv
<1>2. /\ saved \in [Threads -> State] /\ state \in [Runs -> State]
      /\ node \in [Runs -> Nodes \cup Ended \cup {"unused"}]
      /\ "done" \notin Nodes /\ "failed" \notin Nodes /\ "cancelled" \notin Nodes
      /\ "lost" \notin Nodes
  BY <1>1 DEF IInv, TypeOK, Nodes, ModelNodes
<1>3. SUFFICES /\ \A t \in Threads : RoutedTurns(saved'[t].turns)
               /\ \A r \in Runs : RoutedRun(node'[r], state'[r])
  BY <1>1 DEF RoutedInv
<1>4. CASE \E r \in Runs, t \in Threads : StartTurn(r, t)
  <2>1. PICK r \in Runs, t \in Threads : StartTurn(r, t)
    BY <1>4
  <2> DEFINE s2 == NewTurn(saved[t], r)
  <2>2. s2.turns = saved[t].turns /\ s2.investigation_log = <<>>
    BY DEF NewTurn, Defaults
  <2> HIDE DEF s2
  <2>3. /\ state' = [state EXCEPT ![r] = s2] /\ saved' = [saved EXCEPT ![t] = s2]
        /\ node' = [node EXCEPT ![r] = "intake"]
    BY <2>1 DEF StartTurn, s2
  <2>4. RoutedTurns(s2.turns) /\ Routed(s2.investigation_log, ScopeNamespace(s2))
    BY <2>2 DEF RoutedInv, Routed
  <2>5. RoutedRun("intake", s2)
    BY <2>4 DEF RoutedRun
  <2> QED
    BY <1>2, <2>3, <2>4, <2>5 DEF RoutedInv
<1>5. CASE \E r \in Runs : NodeStep(r)
  <2>1. PICK r \in Runs : NodeStep(r)
    BY <1>5
  <2>2. PICK s2 : /\ Complete(r, s2) /\ (Ends(r, s2) \/ GoesOn(r, s2))
                  /\ s2.scope # None /\ Routed(s2.investigation_log, ScopeNamespace(s2))
    BY <1>1, <2>1, NodeStepRoutes DEF RoutedInv
  <2>3. /\ node[r] \in Nodes /\ thread[r] \in Threads
        /\ state[r].user_request = r /\ RoutedRun(node[r], state[r])
    BY <1>1, <2>1, NodeStepShape DEF IInv, RoutedInv, Active
  <2>4. /\ state' = [state EXCEPT ![r] = s2] /\ saved' = [saved EXCEPT ![thread[r]] = s2]
        /\ node' = [node EXCEPT ![r] = Successor(node[r], s2)]
    BY <2>2 DEF Complete
  <2>5. RoutedTurns(s2.turns)
    <3>1. CASE GoesOn(r, s2)
      BY <2>3, <3>1 DEF GoesOn, RoutedRun
    <3>2. CASE Ends(r, s2)
      <4> DEFINE s == state[r]
                 turn == Archived(s)
      <4>1. s \in State /\ s.turns \in Seq(TurnRecord) /\ turn \in TurnRecord
        BY <1>2, <2>3, ArchivedType DEF State
      <4>2. /\ turn.investigation_log = s.investigation_log /\ turn.scope = s.scope
            /\ s2.turns = Append(s.turns, turn)
        BY <3>2 DEF Archived, Ends
      <4>3. ScopeNamespace(s) = s.scope.val.namespace
        BY <2>3, <3>2 DEF Ends, RoutedRun, ScopeNamespace
      <4>4. Routed(turn.investigation_log, turn.scope.val.namespace) /\ RoutedTurns(s.turns)
        BY <2>3, <4>2, <4>3 DEF RoutedRun
      <4> HIDE DEF turn, s
      <4> QED
        BY <4>1, <4>2, <4>4, RoutedTurnsGrow
    <3> QED
      BY <2>2, <3>1, <3>2
  <2>6. RoutedRun(Successor(node[r], s2), s2)
    BY <2>2, <2>5 DEF RoutedRun
  <2> QED
    BY <1>2, <2>3, <2>4, <2>5, <2>6 DEF RoutedInv
<1>6. CASE Restart \/ \E r \in Runs : ModelError(r) \/ RecursionError(r) \/ Disconnect(r)
  <2>1. /\ UNCHANGED <<saved, state>>
        /\ \A q \in Runs : node'[q] \in Nodes => node'[q] = node[q]
    BY <1>1, <1>2, <1>6, StopShape DEF Ended
  <2> QED
    BY <2>1 DEF RoutedInv, RoutedRun
<1>7. CASE UNCHANGED vars
  BY <1>7 DEF RoutedInv, vars
<1> QED
  BY <1>4, <1>5, <1>6, <1>7 DEF Next

\* No tool that works on a namespace falls back to the configured default when
\* the turn's scope names one, whatever the planner leaves out.
THEOREM NoCallMisrouted == Spec => []NoMisroutedCall
<1>1. RoutedInv => NoMisroutedCall
  BY DEF RoutedInv, RoutedTurns, Routed, SentByScope,
     NoMisroutedCall
<1> QED
  BY <1>1, InitRouted, NextRouted, PTL DEF Spec

-------------------------------------------------------------------------------
(***************************************************************************)
(* What a follow-up is answered from.                                      *)
(***************************************************************************)
Used(s) ==
  {i \in InvestigatedTurns(s.turns) : s.turns[i].user_request \in s.followup_answer.evidence}

DrawnFromLatest(s) ==
  s.followup_answer # None =>
    /\ Used(s) # {} /\ Cardinality(Used(s)) <= FOLLOWUP_TURNS
    /\ \A i \in InvestigatedTurns(s.turns) \ Used(s) : \A j \in Used(s) : i < j
    /\ InvestigatedTurns(s.turns) # Used(s) => Cardinality(Used(s)) = FOLLOWUP_TURNS

\* An answer names its evidence by turn, so that a turn is in a copy at most once
\* (FinishedInv) is what makes the names stand for the newest positions.
LatestInv == FinishedInv /\ \A r \in Runs : DrawnFromLatest(state[r])

LEMMA AnswerDraws ==
  ASSUME NEW s \in State, s.user_request \in Runs, NEW text \in ReplyTexts,
         Once(s.turns), InvestigatedTurns(s.turns) # {}
  PROVE  DrawnFromLatest(answer_followup(s, text))
<1> DEFINE s2 == answer_followup(s, text)
           newest == FollowupTurns(s.turns)
<1>1. /\ s2.turns = s.turns
      /\ s2.followup_answer.evidence = {s.turns[i].user_request : i \in newest}
  BY DEF answer_followup, State
<1>2. s.turns \in Seq(TurnRecord)
  BY DEF State
<1>3. newest \subseteq InvestigatedTurns(s.turns)
  BY DEF FollowupTurns
<1>4. InvestigatedTurns(s.turns) \subseteq DOMAIN s.turns
  BY DEF InvestigatedTurns
<1> HIDE DEF s2, newest
<1>5. Used(s2) = newest
  BY <1>1, <1>3, <1>4 DEF Used, Once
<1>6. /\ newest # {} /\ Cardinality(newest) <= FOLLOWUP_TURNS
      /\ \A i \in InvestigatedTurns(s.turns) \ newest : \A j \in newest : i < j
      /\ InvestigatedTurns(s.turns) # newest => Cardinality(newest) = FOLLOWUP_TURNS
  BY <1>2, FollowupTurnsFacts DEF newest
<1>7. DrawnFromLatest(s2)
  BY <1>1, <1>5, <1>6 DEF DrawnFromLatest
<1> QED
  BY <1>7 DEF s2

\* The turn finalize appends is the follow-up: it adds no investigation.
LEMMA FinalizeDraws ==
  ASSUME NEW s \in State, s.user_request \in Runs, DrawnFromLatest(s)
  PROVE  DrawnFromLatest(finalize(s))
<1> DEFINE s2 == finalize(s)
           turn == Archived(s)
<1>1. /\ s2.turns = Append(s.turns, turn) /\ s2.followup_answer = s.followup_answer
      /\ s.turns \in Seq(TurnRecord) /\ turn \in TurnRecord
  BY ArchivedType DEF finalize, State
<1> SUFFICES ASSUME s.followup_answer # None PROVE DrawnFromLatest(s2)
  BY <1>1 DEF DrawnFromLatest
<1>2. turn.route = "followup"
  BY DEF Archived, TurnRouteOf
<1> HIDE DEF s2, turn
<1>3. /\ DOMAIN s2.turns = DOMAIN s.turns \cup {Len(s.turns) + 1}
      /\ s2.turns[Len(s.turns) + 1] = turn
      /\ \A i \in DOMAIN s.turns : s2.turns[i] = s.turns[i]
  <2>1. /\ DOMAIN Append(s.turns, turn) = 1..(Len(s.turns) + 1)
        /\ DOMAIN s.turns = 1..Len(s.turns) /\ Len(s.turns) \in Nat
        /\ Append(s.turns, turn)[Len(s.turns) + 1] = turn
        /\ \A i \in DOMAIN s.turns : Append(s.turns, turn)[i] = s.turns[i]
    BY <1>1
  <2>2. 1..(Len(s.turns) + 1) = 1..Len(s.turns) \cup {Len(s.turns) + 1}
    BY <2>1
  <2> QED
    BY <1>1, <2>1, <2>2
<1>4. InvestigatedTurns(s2.turns) = InvestigatedTurns(s.turns)
  BY <1>2, <1>3 DEF InvestigatedTurns
<1>5. Used(s2) = Used(s)
  <2>1. InvestigatedTurns(s.turns) \subseteq DOMAIN s.turns
    BY DEF InvestigatedTurns
  <2> QED
    BY <1>1, <1>3, <1>4, <2>1 DEF Used
<1> QED
  BY <1>1, <1>4, <1>5 DEF DrawnFromLatest

LEMMA NodesKeepAnswer ==
  ASSUME NEW s \in State, NEW x
  PROVE  LET Same(s2) == s2.turns = s.turns /\ s2.followup_answer = s.followup_answer
         IN /\ Same(intake(s, x)) /\ Same(gather_context(s, x))
            /\ Same(plan_at_guard(s)) /\ Same(plan(s, x)) /\ Same(execute_tool(s, x))
            /\ Same(diagnose(s, x)) /\ Same(ground_without_search(s))
            /\ Same(ground(s, x)) /\ Same(ground_failed(s)) /\ Same(recommend(s, x))
BY DEF State, intake, gather_context, plan_at_guard, plan, execute_tool, diagnose,
       ground_without_search, ground, ground_failed, recommend

LEMMA NodeStepDraws ==
  ASSUME LatestInv, NEW r \in Runs, NodeStep(r)
  PROVE  \A q \in Runs : DrawnFromLatest(state'[q])
<1> DEFINE s == state[r]
<1>1. PICK s2 : Complete(r, s2)
  BY NodeStepShape DEF LatestInv, FinishedInv
<1>2. Active(r) /\ state' = [state EXCEPT ![r] = s2] /\ state \in [Runs -> State]
  BY <1>1, NodeStepShape DEF Complete, LatestInv, FinishedInv, IInv, TypeOK
<1>3. /\ s \in State /\ s.user_request \in Runs /\ Stage(node[r], s, supersteps[r])
      /\ Once(s.turns) /\ DrawnFromLatest(s)
  BY <1>2 DEF LatestInv, FinishedInv, IInv, TypeOK
<1>4. \A x : Complete(r, x) => s2 = x
  BY <1>2 DEF Complete
<1> SUFFICES DrawnFromLatest(s2)
  BY <1>2 DEF LatestInv
<1> HIDE DEF s
<1>5. CASE AnswerFollowup(r)
  <2>1. InvestigatedTurns(s.turns) # {}
    BY <1>3, <1>5 DEF AnswerFollowup, Ready, Stage
  <2> QED
    BY <1>3, <1>4, <1>5, <2>1, AnswerDraws DEF AnswerFollowup, s
<1>6. CASE Finalize(r)
  BY <1>3, <1>4, <1>6, FinalizeDraws DEF Finalize, s
<1>7. CASE s2.turns = s.turns /\ s2.followup_answer = s.followup_answer
  BY <1>3, <1>7 DEF DrawnFromLatest, Used
<1>8. CASE Intake(r) \/ GatherContext(r) \/ ExecuteTool(r)
  BY <1>3, <1>4, <1>7, <1>8, NodesKeepAnswer DEF Intake, GatherContext, ExecuteTool, s
<1>9. CASE PlanAtGuard(r) \/ Plan(r) \/ Diagnose(r)
  BY <1>3, <1>4, <1>7, <1>9, NodesKeepAnswer DEF PlanAtGuard, Plan, Diagnose, s
<1>10. CASE GroundSkipped(r) \/ Ground(r) \/ Recommend(r)
  BY <1>3, <1>4, <1>7, <1>10, NodesKeepAnswer DEF GroundSkipped, Ground, Recommend, s
<1> QED
  BY <1>5, <1>6, <1>8, <1>9, <1>10 DEF NodeStep

LEMMA InitLatest == Init => LatestInv
BY InitFinished DEF Init, LatestInv, DrawnFromLatest, Defaults

LEMMA NextLatest == LatestInv /\ [Next]_vars => LatestInv'
<1> SUFFICES ASSUME LatestInv, [Next]_vars PROVE LatestInv'
  OBVIOUS
<1>1. FinishedInv'
  BY NextFinished DEF LatestInv
<1>2. state \in [Runs -> State]
  BY DEF LatestInv, FinishedInv, IInv, TypeOK
<1>3. SUFFICES \A q \in Runs : DrawnFromLatest(state'[q])
  BY <1>1 DEF LatestInv
<1>4. CASE \E r \in Runs, t \in Threads : StartTurn(r, t)
  <2>1. PICK r \in Runs, t \in Threads : StartTurn(r, t)
    BY <1>4
  <2>2. NewTurn(saved[t], r).followup_answer = None
    BY DEF NewTurn, Defaults
  <2>3. DrawnFromLatest(NewTurn(saved[t], r))
    BY <2>2 DEF DrawnFromLatest
  <2> QED
    BY <1>2, <2>1, <2>3 DEF StartTurn, LatestInv
<1>5. CASE \E r \in Runs : NodeStep(r)
  BY <1>5, NodeStepDraws
<1>6. CASE Restart \/ \E r \in Runs : ModelError(r) \/ RecursionError(r) \/ Disconnect(r)
  BY <1>6 DEF Restart, ModelError, RecursionError, Disconnect, End, LatestInv
<1>7. CASE UNCHANGED vars
  BY <1>7 DEF LatestInv, vars
<1> QED
  BY <1>4, <1>5, <1>6, <1>7 DEF Next

\* A follow-up is answered from the newest FOLLOWUP_TURNS investigations of its
\* conversation, all of them when there are fewer, and never from none.
THEOREM FollowupsDrawOnLatest == Spec => []FollowupUsesLatest
<1>1. LatestInv => FollowupUsesLatest
  BY DEF LatestInv, DrawnFromLatest, Used, FollowupUsesLatest
<1> QED
  BY <1>1, InitLatest, NextLatest, PTL DEF Spec

-------------------------------------------------------------------------------
(***************************************************************************)
(* Clients that wait for each other.                                       *)
(***************************************************************************)
\* Then a thread has one turn under way at a time, its copy is the thread's
\* checkpoint, and so finalize appends to all that finished before.
SerialInv ==
  /\ FinishedInv
  /\ FinishedTurnsKept
  /\ \A r \in Runs : node[r] # "unused" => thread[r] \in Threads
  /\ \A r \in Runs : Active(r) => state[r] = saved[thread[r]]
  /\ \A q, r \in Runs : Active(q) /\ Active(r) /\ thread[q] = thread[r] => q = r

LEMMA InitSerial == Init => SerialInv
BY InitFinished DEF SerialInv, Init, FinishedTurnsKept, Active, Nodes, ModelNodes

\* A step as the other turns and the threads see it.
Opens(r, t) ==
  /\ node[r] = "unused" /\ node'[r] = "intake" /\ thread'[r] = t
  /\ \A q \in Runs : Active(q) => thread[q] # t
  /\ state'[r] = saved'[t] /\ saved'[t].turns = saved[t].turns

Advances(r, t) ==
  /\ Active(r) /\ thread[r] = t /\ thread'[r] = t
  /\ state'[r] = saved'[t]
  /\ \/ node'[r] \in Nodes /\ saved'[t].turns = saved[t].turns
     \/ /\ node[r] = "finalize" /\ node'[r] = "done"
        /\ saved'[t].turns = Append(saved[t].turns, Archived(saved[t]))

OthersStay(r, t) ==
  /\ \A u \in Threads \ {t} : saved'[u] = saved[u]
  /\ \A q \in Runs \ {r} : /\ state'[q] = state[q] /\ node'[q] = node[q]
                           /\ thread'[q] = thread[q]

Stops ==
  /\ UNCHANGED <<saved, state, thread>>
  /\ \A q \in Runs : IF node'[q] = node[q] THEN TRUE
                     ELSE Active(q) /\ node'[q] \in Ended \ {"done"}

LEMMA SerialStep ==
  ASSUME Serial, SerialInv, [Next]_vars
  PROVE  \/ \E r \in Runs, t \in Threads : Opens(r, t) /\ OthersStay(r, t)
         \/ \E r \in Runs, t \in Threads : Advances(r, t) /\ OthersStay(r, t)
         \/ Stops
<1>0. IInv
  BY DEF SerialInv, FinishedInv
<1>1. CASE \E r \in Runs, t \in Threads : StartTurn(r, t)
  <2>1. PICK r \in Runs, t \in Threads : StartTurn(r, t)
    BY <1>1
  <2> DEFINE s2 == NewTurn(saved[t], r)
  <2>2. s2.turns = saved[t].turns
    BY DEF NewTurn, Defaults
  <2> HIDE DEF s2
  <2>3. /\ node[r] = "unused" /\ \A q \in Runs : Active(q) => thread[q] # t
        /\ state' = [state EXCEPT ![r] = s2] /\ saved' = [saved EXCEPT ![t] = s2]
        /\ node' = [node EXCEPT ![r] = "intake"] /\ thread' = [thread EXCEPT ![r] = t]
    BY <2>1 DEF StartTurn, s2
  <2>4. Opens(r, t) /\ OthersStay(r, t)
    BY <1>0, <2>2, <2>3 DEF Opens, OthersStay, IInv, TypeOK
  <2>5. QED
    BY <2>4
<1>2. CASE \E r \in Runs : NodeStep(r)
  <2>1. PICK r \in Runs : NodeStep(r)
    BY <1>2
  <2>2. PICK s2 : Complete(r, s2) /\ (Ends(r, s2) \/ GoesOn(r, s2))
    BY <1>0, <2>1, NodeStepShape
  <2>3. Active(r) /\ thread[r] \in Threads /\ state[r] = saved[thread[r]]
    BY <1>0, <2>1, NodeStepShape DEF IInv, SerialInv
  <2>4. /\ state'[r] = s2 /\ saved'[thread[r]] = s2
        /\ node'[r] = Successor(node[r], s2) /\ thread' = thread
        /\ \A u \in Threads \ {thread[r]} : saved'[u] = saved[u]
        /\ \A q \in Runs \ {r} : state'[q] = state[q] /\ node'[q] = node[q]
    BY <1>0, <2>2, <2>3 DEF Complete, IInv, TypeOK
  <2>5. Advances(r, thread[r]) /\ OthersStay(r, thread[r])
    BY <2>2, <2>3, <2>4 DEF Advances, OthersStay, Ends, GoesOn
  <2>6. QED
    BY <2>3, <2>5
<1>3. CASE Restart \/ \E r \in Runs : ModelError(r) \/ RecursionError(r) \/ Disconnect(r)
  BY <1>0, <1>3, StopShape DEF Stops
<1>4. CASE UNCHANGED vars
  BY <1>4 DEF vars, Stops
<1>5. QED
  BY <1>1, <1>2, <1>3, <1>4 DEF Next

LEMMA AppendFacts ==
  ASSUME NEW S, NEW a \in Seq(S), NEW x \in S
  PROVE  /\ Append(a, x) \in Seq(S) /\ Len(a) \in Nat /\ Len(Append(a, x)) = Len(a) + 1
         /\ DOMAIN a = 1..Len(a) /\ DOMAIN Append(a, x) = 1..(Len(a) + 1)
         /\ Append(a, x)[Len(a) + 1] = x
         /\ \A i \in 1..Len(a) : Append(a, x)[i] = a[i]
         /\ SubSeq(Append(a, x), 1, Len(a)) = a
OBVIOUS

LEMMA NextSerial ==
  ASSUME Serial, SerialInv, [Next]_vars
  PROVE  SerialInv'
<1>1. FinishedInv /\ FinishedInv' /\ IInv
  BY NextFinished DEF SerialInv, FinishedInv
<1>2. /\ "unused" \notin Nodes /\ "done" \notin Nodes /\ "intake" \in Nodes
      /\ "unused" \notin Ended /\ Nodes \cap Ended = {}
  BY DEF Nodes, ModelNodes, Ended
<1> DEFINE After ==
        /\ \A r \in Runs : node'[r] = "done" =>
             \E i \in DOMAIN saved'[thread'[r]].turns :
               saved'[thread'[r]].turns[i].user_request = r
        /\ \A r \in Runs : node'[r] # "unused" => thread'[r] \in Threads
        /\ \A r \in Runs : node'[r] \in Nodes => state'[r] = saved'[thread'[r]]
        /\ \A q, r \in Runs : node'[q] \in Nodes /\ node'[r] \in Nodes
                                /\ thread'[q] = thread'[r] => q = r
<1>3. SUFFICES After
  BY <1>1 DEF SerialInv, FinishedTurnsKept, Active
<1>4. /\ \A r \in Runs : node[r] = "done" =>
           \E i \in DOMAIN saved[thread[r]].turns :
             saved[thread[r]].turns[i].user_request = r
      /\ \A r \in Runs : node[r] # "unused" => thread[r] \in Threads
      /\ \A r \in Runs : node[r] \in Nodes => state[r] = saved[thread[r]]
      /\ \A q, r \in Runs : node[q] \in Nodes /\ node[r] \in Nodes
                              /\ thread[q] = thread[r] => q = r
  BY DEF SerialInv, FinishedTurnsKept, Active
<1>5. ASSUME NEW r \in Runs, NEW t \in Threads, Opens(r, t), OthersStay(r, t)
      PROVE  After
  BY <1>2, <1>4, <1>5 DEF Opens, OthersStay, Active
<1>6. ASSUME NEW r \in Runs, NEW t \in Threads, Advances(r, t), OthersStay(r, t)
      PROVE  After
  <2>1. CASE node'[r] \in Nodes /\ saved'[t].turns = saved[t].turns
    BY <1>2, <1>4, <1>6, <2>1 DEF Advances, OthersStay, Active
  <2>2. CASE /\ node[r] = "finalize" /\ node'[r] = "done"
             /\ saved'[t].turns = Append(saved[t].turns, Archived(saved[t]))
    <3> DEFINE turns == saved[t].turns
               turn == Archived(saved[t])
    <3>1. turns \in Seq(TurnRecord) /\ turn \in TurnRecord /\ turn.user_request = r
      <4>1. saved[t] \in State /\ saved[t].user_request = r
        BY <1>1, <1>4, <1>6 DEF Advances, IInv, TypeOK, Active
      <4>2. QED
        BY <4>1, ArchivedType DEF Archived, State
    <3> HIDE DEF turns, turn
    <3>2. saved'[t].turns = Append(turns, turn)
      BY <2>2 DEF turns, turn
    <3>3. \E i \in DOMAIN saved'[t].turns : saved'[t].turns[i].user_request = r
      BY <3>1, <3>2, AppendFacts
    <3>4. ASSUME NEW q, \E i \in DOMAIN turns : turns[i].user_request = q
          PROVE  \E i \in DOMAIN saved'[t].turns : saved'[t].turns[i].user_request = q
      BY <3>1, <3>2, <3>4, AppendFacts
    <3>5. \A q \in Runs : node'[q] = "done" =>
            \E i \in DOMAIN saved'[thread'[q]].turns :
              saved'[thread'[q]].turns[i].user_request = q
      <4>1. TAKE q \in Runs
      <4>2. CASE q = r
        BY <1>6, <3>3, <4>2 DEF Advances
      <4>3. CASE q # r /\ thread[q] = t
        BY <1>4, <1>6, <3>4, <4>3 DEF OthersStay, turns
      <4>4. CASE q # r /\ thread[q] # t
        BY <1>2, <1>4, <1>6, <4>4 DEF OthersStay
      <4>5. QED
        BY <4>2, <4>3, <4>4
    <3>6. QED
      BY <1>2, <1>4, <1>6, <2>2, <3>5 DEF Advances, OthersStay, Active
  <2>3. QED
    BY <1>6, <2>1, <2>2 DEF Advances
<1>7. CASE Stops
  BY <1>2, <1>4, <1>7 DEF Stops, Active
<1>8. QED
  BY <1>5, <1>6, <1>7, SerialStep

LEMMA SerialInvariance ==
  ASSUME Serial
  PROVE  Spec => []SerialInv
<1>1. SerialInv /\ [Next]_vars => SerialInv'
  BY NextSerial
<1>2. QED
  BY <1>1, InitSerial, PTL DEF Spec

\* Clients that wait for each other lose no finished turn.
THEOREM NoFinishedTurnLost ==
  ASSUME Serial
  PROVE  Spec => []FinishedTurnsKept
<1>1. SerialInv => FinishedTurnsKept
  BY DEF SerialInv
<1>2. QED
  BY <1>1, SerialInvariance, PTL

LEMMA SubSeqSelf ==
  ASSUME NEW S, NEW a \in Seq(S)
  PROVE  SubSeq(a, 1, Len(a)) = a
OBVIOUS

\* Clients that wait for each other see a thread only grow at its end.
THEOREM ThreadsAppendOnly ==
  ASSUME Serial
  PROVE  Spec => TurnsAppendOnly
<1> DEFINE Grows(t) ==
      \E n \in 0..1 :
        /\ Len(saved'[t].turns) = Len(saved[t].turns) + n
        /\ SubSeq(saved'[t].turns, 1, Len(saved[t].turns)) = saved[t].turns
<1>1. ASSUME SerialInv, [Next]_vars, NEW t \in Threads
      PROVE  Grows(t)
  <2>1. saved[t].turns \in Seq(TurnRecord)
    BY <1>1 DEF SerialInv, FinishedInv, IInv, TypeOK, State
  <2>2. CASE saved'[t].turns = saved[t].turns
    <3>1. Len(saved[t].turns) \in Nat
      BY <2>1
    <3>2. QED
      BY <2>1, <2>2, <3>1, SubSeqSelf
  <2>3. CASE /\ saved'[t].turns = Append(saved[t].turns, Archived(saved[t]))
             /\ Archived(saved[t]) \in TurnRecord
    BY <2>1, <2>3, AppendFacts
  <2>4. ASSUME NEW r \in Runs, Advances(r, t) PROVE Archived(saved[t]) \in TurnRecord
    <3>1. saved[t] \in State /\ saved[t].user_request \in Runs
      BY <1>1, <2>4 DEF Advances, SerialInv, FinishedInv, IInv, TypeOK
    <3>2. QED
      BY <3>1, ArchivedType
  <2>5. QED
    BY <1>1, <2>2, <2>3, <2>4, SerialStep DEF Opens, Advances, OthersStay, Stops
<1>2. SerialInv /\ [Next]_vars => [\A t \in Threads : Grows(t)]_vars
  BY <1>1
<1> HIDE DEF Grows
<1>3. Spec => [][\A t \in Threads : Grows(t)]_vars
  BY <1>2, SerialInvariance, PTL DEF Spec
<1>4. QED
  BY <1>3 DEF TurnsAppendOnly, Grows

-------------------------------------------------------------------------------
(***************************************************************************)
(* The refinement: StartTurn opens, Finalize archives, an error, a         *)
(* disconnection or a restart drops, and every other node stutters.        *)
(***************************************************************************)
LEMMA PhaseFacts ==
  ASSUME TypeOK, NEW r \in Runs
  PROVE  /\ PhaseOf(r) = "new" <=> node[r] = "unused"
         /\ PhaseOf(r) = "open" <=> Active(r)
         /\ PhaseOf(r) = "archived" <=> node[r] = "done"
         /\ PhaseOf(r) = "dropped" <=> node[r] \in Ended \ {"done"}
BY DEF TypeOK, PhaseOf, Active, Nodes, ModelNodes, Ended

LEMMA RefinesInit == Init => C!CInit
<1> SUFFICES ASSUME Init PROVE C!CInit
  OBVIOUS
<1>1. \A t \in Threads : saved[t].turns = <<>>
  BY DEF Init, Defaults
<1>2. \A t \in Threads : HistoryOf(t) = <<>>
  BY <1>1 DEF HistoryOf
<1>3. \A r \in Runs : PhaseOf(r) = "new"
  BY DEF Init, PhaseOf, Active, Nodes, ModelNodes
<1>4. QED
  BY <1>2, <1>3 DEF Init, C!CInit

LEMMA HistoryUnchanged ==
  ASSUME NEW t \in Threads, saved'[t].turns = saved[t].turns
  PROVE  HistoryOf(t)' = HistoryOf(t)
BY DEF HistoryOf

LEMMA HistoryAppended ==
  ASSUME NEW t \in Threads, saved[t].turns \in Seq(TurnRecord),
         NEW turn \in TurnRecord, saved'[t].turns = Append(saved[t].turns, turn)
  PROVE  HistoryOf(t)'
           = Append(HistoryOf(t), [turn |-> turn.user_request, route |-> turn.route])
<1> DEFINE entry(x) == [turn |-> x.user_request, route |-> x.route]
           a == saved[t].turns
           b == Append(a, turn)
<1>1. HistoryOf(t)' = [i \in DOMAIN b |-> entry(b[i])]
  BY DEF HistoryOf
<1>2. HistoryOf(t) = [i \in DOMAIN a |-> entry(a[i])]
  BY DEF HistoryOf
<1>3. /\ Len(a) \in Nat /\ DOMAIN a = 1..Len(a) /\ DOMAIN b = 1..(Len(a) + 1)
      /\ b[Len(a) + 1] = turn /\ \A i \in 1..Len(a) : b[i] = a[i]
  BY AppendFacts
<1> HIDE DEF a, b, entry
<1>4. [i \in DOMAIN b |-> entry(b[i])] = Append([i \in DOMAIN a |-> entry(a[i])], entry(turn))
  BY <1>3
<1>5. QED
  BY <1>1, <1>2, <1>4 DEF entry

LEMMA RefinesNext ==
  ASSUME Serial, SerialInv, [Next]_vars
  PROVE  [C!CNext]_(C!cvars)
<1>1. IInv /\ IInv'
  BY NextKeeps DEF SerialInv, FinishedInv
<1>2. /\ thread \in [Runs -> Maybe(Threads)] /\ thread' \in [Runs -> Maybe(Threads)]
  BY <1>1 DEF IInv, TypeOK
<1>3. \A q \in Runs : /\ PhaseOf(q) = "new" <=> node[q] = "unused"
                      /\ PhaseOf(q) = "open" <=> Active(q)
  BY <1>1, PhaseFacts DEF IInv
<1>4. \A q \in Runs : /\ node'[q] = node[q] => PhaseOf(q)' = PhaseOf(q)
                      /\ node'[q] \in Nodes => PhaseOf(q)' = "open"
                      /\ node'[q] = "done" => PhaseOf(q)' = "archived"
                      /\ node'[q] \in Ended \ {"done"} => PhaseOf(q)' = "dropped"
  BY DEF PhaseOf, Active, Nodes, ModelNodes, Ended
<1>5. ASSUME NEW r \in Runs, NEW t \in Threads, Opens(r, t), OthersStay(r, t)
      PROVE  C!Open(r, t)
  <2>1. node'[r] \in Nodes
    BY <1>5 DEF Opens, Nodes, ModelNodes
  <2>2. [q \in Runs |-> PhaseOf(q)]' = [[q \in Runs |-> PhaseOf(q)] EXCEPT ![r] = "open"]
    BY <1>4, <1>5, <2>1 DEF OthersStay
  <2>3. thread' = [thread EXCEPT ![r] = t]
    BY <1>2, <1>5 DEF Opens, OthersStay
  <2>4. [u \in Threads |-> HistoryOf(u)]' = [u \in Threads |-> HistoryOf(u)]
    BY <1>5, HistoryUnchanged DEF Opens, OthersStay
  <2>5. PhaseOf(r) = "new" /\ \A q \in Runs : PhaseOf(q) = "open" => thread[q] # t
    BY <1>3, <1>5 DEF Opens
  <2>6. QED
    BY <2>2, <2>3, <2>4, <2>5 DEF C!Open
<1>6. ASSUME NEW r \in Runs, NEW t \in Threads, Advances(r, t), OthersStay(r, t)
      PROVE  [C!CNext]_(C!cvars)
  <2>1. thread' = thread
    BY <1>2, <1>6 DEF Advances, OthersStay
  <2>2. CASE node'[r] \in Nodes /\ saved'[t].turns = saved[t].turns
    <3>1. [q \in Runs |-> PhaseOf(q)]' = [q \in Runs |-> PhaseOf(q)]
      BY <1>3, <1>4, <1>6, <2>2 DEF Advances, OthersStay
    <3>2. [u \in Threads |-> HistoryOf(u)]' = [u \in Threads |-> HistoryOf(u)]
      BY <1>6, <2>2, HistoryUnchanged DEF OthersStay
    <3>3. QED
      BY <2>1, <3>1, <3>2 DEF C!cvars
  <2>3. CASE /\ node[r] = "finalize" /\ node'[r] = "done"
             /\ saved'[t].turns = Append(saved[t].turns, Archived(saved[t]))
    <3> DEFINE turn == Archived(saved[t])
    <3>1. /\ saved[t] \in State /\ saved[t].user_request = r
          /\ saved[t].turns \in Seq(TurnRecord) /\ thread[r] = t
      BY <1>1, <1>6 DEF Advances, SerialInv, IInv, TypeOK, State
    <3>2. turn \in TurnRecord /\ turn.user_request = r /\ turn.route \in TurnRoute
      BY <3>1, ArchivedType DEF Archived, TurnRecord
    <3> HIDE DEF turn
    <3>3. HistoryOf(t)' = Append(HistoryOf(t), [turn |-> r, route |-> turn.route])
      BY <2>3, <3>1, <3>2, HistoryAppended DEF turn
    <3>4. [u \in Threads |-> HistoryOf(u)]'
            = [[u \in Threads |-> HistoryOf(u)] EXCEPT
                 ![thread[r]] = Append(@, [turn |-> r, route |-> turn.route])]
      BY <1>6, <3>1, <3>3, HistoryUnchanged DEF OthersStay
    <3>5. [q \in Runs |-> PhaseOf(q)]'
            = [[q \in Runs |-> PhaseOf(q)] EXCEPT ![r] = "archived"]
      BY <1>4, <1>6, <2>3 DEF OthersStay
    <3>6. turn.route = "followup" =>
            \E i \in DOMAIN HistoryOf(t) : HistoryOf(t)[i].route = "investigate"
      <4>1. OwnFields(saved[t]) /\ Stage("finalize", saved[t], supersteps[r])
        BY <1>1, <1>6, <2>3 DEF Advances, SerialInv, IInv
      <4>2. supersteps[r] \in Nat
        BY <1>1 DEF IInv, TypeOK
      <4>3. turn.route = "followup" => InvestigatedTurns(saved[t].turns) # {}
        BY <3>1, <4>1, <4>2, ArchivedRoute DEF turn
      <4>4. QED
        BY <4>3 DEF InvestigatedTurns, HistoryOf
    <3>7. PhaseOf(r) = "open" /\ thread[r] \in Threads
      BY <1>3, <1>6, <3>1 DEF Advances
    <3>8. C!Archive(r, turn.route)
      BY <2>1, <3>1, <3>4, <3>5, <3>6, <3>7 DEF C!Archive
    <3>9. QED
      BY <3>2, <3>8 DEF C!CNext, C!Route, TurnRoute
  <2>4. QED
    BY <1>6, <2>2, <2>3 DEF Advances
<1>7. CASE Stops
  <2> DEFINE us == {q \in Runs : node'[q] # node[q]}
  <2>1. /\ [u \in Threads |-> HistoryOf(u)]' = [u \in Threads |-> HistoryOf(u)]
        /\ thread' = thread
    BY <1>7, HistoryUnchanged DEF Stops
  <2>2. \A q \in us : PhaseOf(q) = "open" /\ PhaseOf(q)' = "dropped"
    BY <1>3, <1>4, <1>7 DEF Stops
  <2>3. [q \in Runs |-> PhaseOf(q)]'
          = [q \in Runs |-> IF q \in us THEN "dropped" ELSE PhaseOf(q)]
    BY <1>4, <2>2
  <2>4. CASE us = {}
    BY <2>1, <2>3, <2>4 DEF C!cvars
  <2>5. CASE us # {}
    <3>1. C!Drop(us)
      BY <2>1, <2>2, <2>3, <2>5 DEF C!Drop
    <3>2. QED
      BY <3>1 DEF C!CNext
  <2>6. QED
    BY <2>4, <2>5
<1>8. QED
  BY <1>5, <1>6, <1>7, SerialStep DEF C!CNext

\* The graph over its checkpointer keeps the promise Conversation states, for
\* clients that wait for each other.
THEOREM Refinement ==
  ASSUME Serial
  PROVE  Spec => ImplementsConversation
<1>1. SerialInv /\ [Next]_vars => [C!CNext]_(C!cvars)
  BY RefinesNext
<1>2. Spec => C!CInit /\ [][C!CNext]_(C!cvars)
  BY <1>1, RefinesInit, SerialInvariance, PTL DEF Spec
<1>3. QED
  BY <1>2 DEF ImplementsConversation, C!CSpec
===============================================================================
