---------------------------- MODULE McpInvestigate ----------------------------
(***************************************************************************)
(* backend/mcp_server/investigate.py: the MCP tool investigate runs one    *)
(* turn of AgentGraph on a thread of its own, reports progress as nodes    *)
(* finish, and returns what the archived turn holds.  The server keeps its *)
(* checkpoints in memory, so a restart (not modelled) forgets them all.    *)
(***************************************************************************)
EXTENDS AgentGraph, Trail

VARIABLES
  progress,   \* call -> the reports its client was sent
  result      \* call -> what it returned, None before that, or an error

mcpvars == <<saved, state, node, thread, supersteps, progress, result>>

\* The nodes a client is told about.
NODE_PROGRESS ==
  {"intake", "gather_context", "plan", "execute_tool", "diagnose", "ground", "recommend"}

Raised == [status |-> "error"]

McpInit ==
  /\ Init
  /\ progress = [r \in Runs |-> <<>>]
  /\ result = [r \in Runs |-> None]

-------------------------------------------------------------------------------
\* Mutant of Fresh: the thread of an earlier call is taken up again.
Fresh_Never(t) == TRUE

\* A new uuid: no call had this thread before.
Fresh(t) == \A q \in Runs : thread[q] # t

run_investigation(r, t) ==
  /\ Fresh(t)
  /\ StartTurn(r, t)
  /\ UNCHANGED <<progress, result>>

NodeDone(r) ==
  /\ NodeStep(r)
  /\ progress' = IF node[r] \in NODE_PROGRESS
                 THEN [progress EXCEPT ![r] =
                         Append(@, [step |-> Len(@) + 1, node |-> node[r]])]
                 ELSE progress
  /\ UNCHANGED result

\* Mutant of tool_calls: the sweep is counted as a call.
tool_calls_All(turn) == Len(turn.investigation_log)

\* The planner's calls, told from the sweep by name.
tool_calls(turn) ==
  Cardinality({i \in DOMAIN turn.investigation_log :
                 turn.investigation_log[i].tool_name # INITIAL_SWEEP})

_to_result(turn) ==
  IF turn.route = "clarify"
  THEN [status |-> "needs_clarification", clarifying_question |-> turn.reply,
        diagnosis |-> None, recommendation |-> None,
        tool_calls |-> 0, hit_step_limit |-> FALSE, trail |-> <<>>]
  ELSE [status |-> "diagnosed", clarifying_question |-> None,
        diagnosis |-> turn.diagnosis, recommendation |-> turn.recommendation,
        tool_calls |-> tool_calls(turn), hit_step_limit |-> turn.loop_guard_triggered,
        trail |-> turn_trail(turn)]

\* Mutant of Return: a question of intake is kept for an answer to come.
Return_Diagnosed(r) ==
  /\ node[r] = "done" /\ StepsLeft(r) /\ result[r] = None
  /\ LET turn == state[r].turns[Len(state[r].turns)]
     IN /\ turn.route # "clarify"
        /\ result' = [result EXCEPT ![r] = _to_result(turn)]
  /\ UNCHANGED <<vars, progress>>

\* The last turn of the final state is the one this call ran.
Return(r) ==
  /\ node[r] = "done" /\ StepsLeft(r) /\ result[r] = None
  /\ result' = [result EXCEPT ![r] = _to_result(state[r].turns[Len(state[r].turns)])]
  /\ UNCHANGED <<vars, progress>>

\* Whatever the graph raises reaches the client as a tool error.
Raise(r) ==
  /\ \/ ModelError(r) \/ RecursionError(r)
     \/ result[r] = None /\ RaisesAtEnd(r) /\ UNCHANGED vars
  /\ result' = [result EXCEPT ![r] = Raised]
  /\ UNCHANGED progress

McpNext ==
  \E r \in Runs : \/ \E t \in Threads : run_investigation(r, t)
                  \/ NodeDone(r) \/ Return(r) \/ Raise(r)

McpSpec == McpInit /\ [][McpNext]_mcpvars

\* A node runs to its end if its calls come back (AgentGraph), and a finished call
\* returns.
FairMcpSpec ==
  /\ McpSpec
  /\ \A r \in Runs \ Hanging : WF_mcpvars(NodeDone(r) \/ (RecursionError(r) /\ Raise(r)))
  /\ \A r \in Runs : WF_mcpvars(Return(r) \/ (RaisesAtEnd(r) /\ Raise(r)))

-------------------------------------------------------------------------------
Reported(r, n) == {i \in DOMAIN progress[r] : progress[r][i].node = n}

\* A result marked diagnosed has a diagnosis and a fix, both of this call: with
\* no earlier turn on its thread, no call is answered as a follow-up, which
\* _to_result would pass off as a diagnosis that is missing.
DiagnosedMeansDiagnosed ==
  \A r \in Runs : result[r] # None /\ result[r].status = "diagnosed" =>
    /\ result[r].diagnosis # None /\ result[r].diagnosis.by = r
    /\ result[r].recommendation # None /\ result[r].recommendation.by = r
    /\ result[r].hit_step_limit <=> result[r].tool_calls = LOOP_GUARD_MAX

\* What a client was told while it waited is what it is given at the end: as
\* many tool calls as it saw reported, each with its step in the trail.
ProgressMatchesResult ==
  \A r \in Runs : result[r] # None /\ result[r].status = "diagnosed" =>
    LET steps == {i \in DOMAIN result[r].trail : result[r].trail[i].type = "tool"}
    IN /\ result[r].tool_calls = Cardinality(Reported(r, "execute_tool"))
       /\ result[r].tool_calls = Cardinality(steps)
       /\ Len(progress[r]) = 2 * result[r].tool_calls + 6

\* Every call returns a result or an error, unless a model or the cluster leaves it
\* hanging, and then no other call waits with it.
EveryCallReturns ==
  \A r \in Runs : node[r] = "done" \/ (node[r] = "intake" /\ r \notin Hanging) ~> result[r] # None
===============================================================================
