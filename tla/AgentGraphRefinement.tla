------------------------- MODULE AgentGraphRefinement -------------------------
(***************************************************************************)
(* The graph over its checkpointer implements Conversation when the        *)
(* clients of a thread wait for each other (Serial).                       *)
(***************************************************************************)
EXTENDS AgentGraph

\* A thread's history is what get_thread would return: the archived turns of
\* its latest checkpoint.
HistoryOf(t) ==
  [i \in DOMAIN saved[t].turns |->
     [turn |-> saved[t].turns[i].user_request, route |-> saved[t].turns[i].route]]

PhaseOf(r) ==
  CASE node[r] = "unused" -> "new"
    [] Active(r) -> "open"
    [] node[r] = "done" -> "archived"
    [] OTHER -> "dropped"

C == INSTANCE Conversation WITH
       Turns <- Runs, Nowhere <- None, where <- thread,
       history <- [t \in Threads |-> HistoryOf(t)],
       phase <- [r \in Runs |-> PhaseOf(r)]

\* Every behaviour of the service is one Conversation allows: no step loses,
\* rewrites or reorders a finished turn, archives one that did not finish, or
\* answers a follow-up nothing precedes (nodes.finalize, route_after_intake).
ImplementsConversation == C!CSpec
===============================================================================
