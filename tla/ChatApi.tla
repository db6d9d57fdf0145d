-------------------------------- MODULE ChatApi --------------------------------
(***************************************************************************)
(* backend/api/main.py: POST /api/chat runs a turn of AgentGraph and       *)
(* streams it to its client as server-sent events; GET /api/threads/{id}   *)
(* rebuilds a conversation from the archived turns.                        *)
(*                                                                         *)
(* The handler pulls the graph: what a node's update gives is sent before  *)
(* the next node starts.  A prose node's tokens are sent while it runs,    *)
(* and stand here for one event with all of their text.                    *)
(***************************************************************************)
EXTENDS AgentGraph, Trail

VARIABLES
  stream,   \* run -> its response: not asked for, open, ended, or cut
  events    \* run -> the events sent so far

chatvars == <<saved, state, node, thread, supersteps, stream, events>>

PROSE_NODES == {"recommend", "answer_followup"}

ChatInit ==
  /\ Init
  /\ stream = [r \in Runs |-> "unused"]
  /\ events = [r \in Runs |-> <<>>]

\* An event's data is a text or a step.
Says(kind, text) == [event |-> kind, text |-> text, step |-> None]
Shows(step) == [event |-> "step", text |-> "", step |-> step]

Send(r, es) == events' = [events EXCEPT ![r] = @ \o es]

\* Where in the stream events of some kinds are.
Told(r, kinds) == {i \in DOMAIN events[r] : events[r][i].event \in kinds}

streamed_reply(r) == Told(r, {"token"}) # {}

-------------------------------------------------------------------------------
\* Mutant of _steps_for_update: the first record of the log, not the last.
_steps_for_update_First(n, s) ==
  CASE n \in {"gather_context", "execute_tool"} -> <<log_step(Head(s.investigation_log))>>
    [] n = "diagnose" -> <<diagnosis_step(s.diagnosis)>>
    [] n = "ground" /\ (s.reference_docs # <<>> \/ s.grounding_error # None) ->
         <<docs_step(s.reference_docs, s.grounding_error)>>
    [] n = "answer_followup" -> <<followup_step>>
    [] OTHER -> <<>>

\* The steps sent for node n, which left state s.
_steps_for_update(n, s) ==
  CASE n \in {"gather_context", "execute_tool"} ->
         <<log_step(s.investigation_log[Len(s.investigation_log)])>>
    [] n = "diagnose" -> <<diagnosis_step(s.diagnosis)>>
    [] n = "ground" /\ (s.reference_docs # <<>> \/ s.grounding_error # None) ->
         <<docs_step(s.reference_docs, s.grounding_error)>>
    [] n = "answer_followup" -> <<followup_step>>
    [] OTHER -> <<>>

\* A prose node's text is what its tokens said, nothing if there were none.
SaysWhatItStreamed(r) ==
  LET said(text) == /\ \A i \in Told(r, {"token"}) : events[r][i].text = text
                    /\ ~streamed_reply(r) => text = ""
  IN /\ node[r] = "recommend" => said(state'[r].recommendation.val)
     /\ node[r] = "answer_followup" => said(state'[r].followup_answer.val)

Chat(r, t) ==
  /\ StartTurn(r, t)
  /\ stream' = [stream EXCEPT ![r] = "open"]
  /\ UNCHANGED events

Token(r) ==
  /\ node[r] \in PROSE_NODES /\ Ready(r, node[r])
  /\ ~streamed_reply(r)
  /\ \E text \in ReplyTexts \ {""} : Send(r, <<Says("token", text)>>)
  /\ UNCHANGED <<vars, stream>>

NodeUpdate(r) ==
  /\ NodeStep(r)
  /\ SaysWhatItStreamed(r)
  /\ LET steps == _steps_for_update(node[r], state'[r])
     IN Send(r, [i \in DOMAIN steps |-> Shows(steps[i])])
  /\ UNCHANGED stream

\* Mutant of FallbackText: the question recorded for the turn is not looked up.
FallbackText_Default(s) == DEFAULT_CLARIFYING_QUESTION

\* What is sent when nothing was streamed: the reply finalize recorded.
FallbackText(s) ==
  LET reply == s.turns[Len(s.turns)].reply.val
  IN IF reply = "" THEN DEFAULT_CLARIFYING_QUESTION ELSE reply

\* The graph is through, its last checkpoint written: the stream ends with done.
Finish(r) ==
  /\ stream[r] = "open" /\ node[r] = "done" /\ StepsLeft(r)
  /\ Send(r, (IF streamed_reply(r) THEN <<>>
              ELSE <<Says("token", FallbackText(state[r]))>>)
             \o <<Says("done", "")>>)
  /\ stream' = [stream EXCEPT ![r] = "ended"]
  /\ UNCHANGED vars

\* Mutants of Failed: nothing is sent, and done is sent after the error.
Failed_Silent(r) == UNCHANGED events
Failed_ThenDone(r) ==
  Send(r, <<Says("error", ""), Says("done", "")>>)

Failed(r) == Send(r, <<Says("error", "")>>)

\* Whatever the graph raises, the limit it meets after its last node included.
Fail(r) ==
  /\ \/ ModelError(r) \/ RecursionError(r)
     \/ stream[r] = "open" /\ RaisesAtEnd(r) /\ UNCHANGED vars
  /\ Failed(r)
  /\ stream' = [stream EXCEPT ![r] = "ended"]

\* The client goes away: the handler is cancelled where it stands, which may be
\* after the turn was archived.  No handler catches that.
GoAway(r) ==
  /\ stream[r] = "open"
  /\ \/ Disconnect(r)
     \/ "disconnect" \in Faults /\ node[r] = "done" /\ UNCHANGED vars
  /\ stream' = [stream EXCEPT ![r] = "cut"]
  /\ UNCHANGED events

\* The server dies with every response it was sending.
Crash ==
  /\ "restart" \in Faults
  /\ \E r \in Runs : stream[r] = "open"
  /\ \/ Restart
     \/ (\A r \in Runs : ~Active(r)) /\ UNCHANGED vars
  /\ stream' = [r \in Runs |-> IF stream[r] = "open" THEN "cut" ELSE stream[r]]
  /\ UNCHANGED events

ChatNext ==
  \/ \E r \in Runs : \/ \E t \in Threads : Chat(r, t)
                     \/ Token(r) \/ NodeUpdate(r) \/ Finish(r) \/ Fail(r) \/ GoAway(r)
  \/ Crash

ChatSpec == ChatInit /\ [][ChatNext]_chatvars

\* A handler's task runs as long as its calls come back, and what is left to send
\* once the graph is through is sent in any case.
FairChatSpec ==
  /\ ChatSpec
  /\ \A r \in Runs \ Hanging : WF_chatvars(Token(r) \/ NodeUpdate(r)
                                              \/ (RecursionError(r) /\ Fail(r)))
  /\ \A r \in Runs : WF_chatvars(Finish(r) \/ (RaisesAtEnd(r) /\ Fail(r)))

-------------------------------------------------------------------------------
\* The two chat messages a turn comes back as.
get_thread(t) ==
  [i \in DOMAIN saved[t].turns |->
     LET turn == saved[t].turns[i]
     IN [user |-> turn.user_request, content |-> turn.reply.val,
         trail |-> turn_trail(turn)]]

\* The steps of a trail are those a client was sent, in the same order: the k-th
\* step event brought the k-th of them.
Streamed(trail, es) ==
  LET steps == {i \in DOMAIN es : es[i].event = "step"}
  IN /\ Cardinality(steps) = Len(trail)
     /\ \A i \in steps : es[i].step = trail[Cardinality({j \in steps : j <= i})]

\* A client was shown a reply, and none but this one.
Shown(content, r) ==
  streamed_reply(r) /\ \A i \in Told(r, {"token"}) : events[r][i].text = content

\* Whether a reloaded answer has what its client was sent, once it ended.
Reloads(P(_, _)) ==
  \A t \in Threads : \A i \in DOMAIN get_thread(t) :
    LET answer == get_thread(t)[i]
    IN stream[answer.user] = "ended" => P(answer, answer.user)

\* A reloaded conversation shows each answer's trail as it was streamed, step
\* for step, unless the turn's docs lookup failed: that is streamed (main.py:96)
\* but not archived, and the rebuilt trail is one step shorter (api/trail.py:111).
TrailReloads ==
  LET same(answer, r) == state[r].grounding_error = None => Streamed(answer.trail, events[r])
  IN Reloads(same)

\* A reloaded conversation shows the reply its client was shown, unless a prose
\* node answered with no text at all, or the client was told of an error instead.
ReplyReloads ==
  LET same(answer, r) == answer.content # "" /\ Told(r, {"error"}) = {} => Shown(answer.content, r)
  IN Reloads(same)

InThread(r, t) == \E i \in DOMAIN saved[t].turns : saved[t].turns[i].user_request = r

\* A client told done finds the turn in its thread; a client told of an error
\* does not, and may ask again without asking twice.  The one error that is not true
\* is the limit met after the last node, which the proper limit rules out
\* (NeverOutOfSupersteps).
EndingIsTrue ==
  \A r \in Runs :
    /\ Told(r, {"done"}) # {} => InThread(r, thread[r])
    /\ Told(r, {"error"}) # {} /\ ~RaisesAtEnd(r) => \A t \in Threads : ~InThread(r, t)

\* A stream that ended says so once, at its end, and a finished one carries one
\* reply and the steps before or while it was spoken.
OneEnding ==
  \A r \in Runs :
    /\ Told(r, {"done", "error"}) = (IF stream[r] = "ended" THEN {Len(events[r])} ELSE {})
    /\ Told(r, {"done"}) # {} => \E i \in DOMAIN events[r] : Told(r, {"token"}) = {i}

\* Every request whose client stays, and whose server stays up, is answered to
\* its end, by done or by an error, unless one of its own calls hangs: its stream
\* then stays open for good, with nothing but pings.  A turn that is through is
\* told to be so in any case.
EveryRequestAnswered ==
  \A r \in Runs : stream[r] = "open" /\ (r \notin Hanging \/ node[r] = "done") ~>
    stream[r] = "cut" \/ Told(r, {"done", "error"}) # {}
===============================================================================
