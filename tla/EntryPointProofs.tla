---------------------------- MODULE EntryPointProofs ----------------------------
(***************************************************************************)
(* What the clients of the two entry points are told, for any number of    *)
(* requests, calls, threads and faults.                                    *)
(*                                                                         *)
(* The chat API: a stream ends once, at its end, with one reply and with   *)
(* the truth about the turn, and a reload shows what was streamed.  The    *)
(* MCP tool: a result marked diagnosed is a diagnosis of that call, and    *)
(* the reports its client was sent add up to it.                           *)
(***************************************************************************)
EXTENDS ChatApi, McpInvestigate, ConversationProofs, SequenceTheorems

Streams == {"unused", "open", "ended", "cut"}

IsSequence(s) == s \in Seq(Range(s))

\* Where events of some kinds are in a sequence of events.
At(es, kinds) == {i \in DOMAIN es : es[i].event \in kinds}

StreamOK(r) ==
  /\ stream[r] \in Streams
  /\ IsSequence(events[r])
  /\ Active(r) => stream[r] = "open"
  /\ stream[r] = "ended" => node[r] \in {"done", "failed"}
  /\ Told(r, {"done"}) # {} => node[r] = "done"
  /\ Told(r, {"error"}) # {} => node[r] = "failed" \/ RaisesAtEnd(r)
  /\ Told(r, {"done", "error"}) = (IF stream[r] = "ended" THEN {Len(events[r])} ELSE {})
  /\ \A i, j \in Told(r, {"token"}) : i = j
  /\ Told(r, {"done"}) # {} => Told(r, {"token"}) # {}

ChatInv ==
  /\ IInv
  /\ stream \in [Runs -> Streams]
  /\ events = [r \in Runs |-> events[r]]
  /\ \A r \in Runs : StreamOK(r)

-------------------------------------------------------------------------------
(***************************************************************************)
(* Sequences of events                                                     *)
(***************************************************************************)
LEMMA Joined ==
  ASSUME NEW s, NEW t, IsSequence(s), IsSequence(t)
  PROVE  /\ IsSequence(s \o t)
         /\ Len(s) \in Nat /\ Len(t) \in Nat /\ Len(s \o t) = Len(s) + Len(t)
         /\ DOMAIN s = 1..Len(s) /\ DOMAIN t = 1..Len(t)
         /\ DOMAIN (s \o t) = 1..(Len(s) + Len(t))
         /\ \A i \in 1..Len(s) : (s \o t)[i] = s[i]
         /\ \A i \in 1..Len(t) : (s \o t)[Len(s) + i] = t[i]
<1> DEFINE S == Range(s) \cup Range(t)
<1>1. s \in Seq(S) /\ t \in Seq(S)
  BY SeqMonotonic DEF IsSequence
<1> HIDE DEF S
<1>2. /\ s \o t \in Seq(S) /\ Len(s \o t) = Len(s) + Len(t)
      /\ \A i \in 1..(Len(s) + Len(t)) :
           (s \o t)[i] = IF i <= Len(s) THEN s[i] ELSE t[i - Len(s)]
  BY <1>1, ConcatProperties
<1>3. IsSequence(s \o t)
  BY <1>2, SeqOfRange DEF IsSequence
<1>4. Len(s) \in Nat /\ Len(t) \in Nat
  BY <1>1
<1>5. \A i \in 1..Len(t) : Len(s) + i \in 1..(Len(s) + Len(t)) /\ ~(Len(s) + i <= Len(s))
                           /\ Len(s) + i - Len(s) = i
  BY <1>4
<1>6. \A i \in 1..Len(s) : i \in 1..(Len(s) + Len(t)) /\ i <= Len(s)
  BY <1>4
<1> QED
  BY <1>1, <1>2, <1>3, <1>4, <1>5, <1>6

\* What is sent comes after what was: events stand where they stood.
LEMMA AtJoined ==
  ASSUME NEW s, NEW t, IsSequence(s), IsSequence(t), NEW kinds
  PROVE  At(s \o t, kinds) = At(s, kinds) \cup {Len(s) + i : i \in At(t, kinds)}
<1>1. /\ Len(s) \in Nat /\ Len(t) \in Nat
      /\ DOMAIN s = 1..Len(s) /\ DOMAIN t = 1..Len(t)
      /\ DOMAIN (s \o t) = 1..(Len(s) + Len(t))
      /\ \A i \in 1..Len(s) : (s \o t)[i] = s[i]
      /\ \A i \in 1..Len(t) : (s \o t)[Len(s) + i] = t[i]
  BY Joined
<1>2. ASSUME NEW k \in 1..(Len(s) + Len(t))
      PROVE  k \in At(s \o t, kinds) <=>
               k \in At(s, kinds) \/ \E i \in At(t, kinds) : k = Len(s) + i
  <2>1. CASE k <= Len(s)
    <3>1. k \in 1..Len(s) /\ \A i \in 1..Len(t) : k # Len(s) + i
      BY <1>1, <2>1
    <3> QED
      BY <1>1, <1>2, <3>1 DEF At
  <2>2. CASE ~(k <= Len(s))
    <3>1. /\ k - Len(s) \in 1..Len(t) /\ k = Len(s) + (k - Len(s)) /\ k \notin 1..Len(s)
          /\ \A i \in 1..Len(t) : k = Len(s) + i => i = k - Len(s)
      BY <1>1, <2>2
    <3>2. (s \o t)[k] = t[k - Len(s)]
      BY <1>1, <3>1
    <3> QED
      BY <1>1, <1>2, <3>1, <3>2 DEF At
  <2> QED
    BY <2>1, <2>2
<1>3. /\ At(s \o t, kinds) \subseteq 1..(Len(s) + Len(t))
      /\ At(s, kinds) \subseteq 1..Len(s) /\ At(t, kinds) \subseteq 1..Len(t)
  BY <1>1 DEF At
<1>4. /\ \A i \in 1..Len(s) : i \in 1..(Len(s) + Len(t))
      /\ \A i \in 1..Len(t) : Len(s) + i \in 1..(Len(s) + Len(t))
  BY <1>1
<1> QED
  BY <1>2, <1>3, <1>4

LEMMA Single ==
  ASSUME NEW x, NEW kinds
  PROVE  /\ IsSequence(<<x>>) /\ IsSequence(<<>>) /\ Len(<<x>>) = 1
         /\ At(<<>>, kinds) = {}
         /\ At(<<x>>, kinds) = IF x.event \in kinds THEN {1} ELSE {}
<1>1. Range(<<x>>) = {x} /\ Range(<<>>) = {}
  BY DEF Range
<1> QED
  BY <1>1 DEF IsSequence, At

Adds(longer, s, x) == longer = s \o <<x>>

AddedOne(longer, s, x) ==
  /\ IsSequence(longer) /\ Len(longer) = Len(s) + 1 /\ Len(s) \in Nat
  /\ \A kinds : x.event \in kinds => At(longer, kinds) = At(s, kinds) \cup {Len(s) + 1}
  /\ \A kinds : x.event \notin kinds => At(longer, kinds) = At(s, kinds)

\* One more event.
LEMMA SendsOne ==
  ASSUME NEW s, IsSequence(s), NEW x, NEW longer, Adds(longer, s, x)
  PROVE  AddedOne(longer, s, x)
<1>1. IsSequence(<<x>>) /\ Len(<<x>>) = 1
  BY Single
<1>2. /\ IsSequence(s \o <<x>>) /\ Len(s \o <<x>>) = Len(s) + 1 /\ Len(s) \in Nat
      /\ DOMAIN s = 1..Len(s)
  BY <1>1, Joined
<1>3. ASSUME NEW kinds
      PROVE  /\ x.event \in kinds => At(s \o <<x>>, kinds) = At(s, kinds) \cup {Len(s) + 1}
             /\ x.event \notin kinds => At(s \o <<x>>, kinds) = At(s, kinds)
  <2>1. At(s \o <<x>>, kinds) = At(s, kinds) \cup {Len(s) + i : i \in At(<<x>>, kinds)}
    BY <1>1, AtJoined
  <2>2. At(<<x>>, kinds) = IF x.event \in kinds THEN {1} ELSE {}
    BY Single
  <2> QED
    BY <2>1, <2>2
<1>4. longer = s \o <<x>>
  BY DEF Adds
<1> QED
  BY <1>2, <1>3, <1>4, Zenon DEF AddedOne

\* The same of a run's stream.
LEMMA SendsEvent ==
  ASSUME NEW r, IsSequence(events[r]), NEW x, Adds(events'[r], events[r], x)
  PROVE  /\ IsSequence(events'[r]) /\ Len(events'[r]) = Len(events[r]) + 1
         /\ Len(events[r]) \in Nat
         /\ \A kinds : x.event \in kinds =>
              Told(r, kinds)' = Told(r, kinds) \cup {Len(events[r]) + 1}
         /\ \A kinds : x.event \notin kinds => Told(r, kinds)' = Told(r, kinds)
<1>1. \A kinds : Told(r, kinds) = At(events[r], kinds) /\ Told(r, kinds)' = At(events'[r], kinds)
  BY DEF Told, At
<1>2. /\ IsSequence(events'[r]) /\ Len(events'[r]) = Len(events[r]) + 1
      /\ Len(events[r]) \in Nat
      /\ \A kinds : x.event \in kinds =>
           At(events'[r], kinds) = At(events[r], kinds) \cup {Len(events[r]) + 1}
      /\ \A kinds : x.event \notin kinds => At(events'[r], kinds) = At(events[r], kinds)
  <2>1. AddedOne(events'[r], events[r], x)
    BY SendsOne, Zenon
  <2> QED
    BY <2>1, Zenon DEF AddedOne
<1> QED
  BY <1>1, <1>2, Zenon

LEMMA JoinedTwice ==
  ASSUME NEW s, NEW t, NEW u, IsSequence(s), IsSequence(t), IsSequence(u)
  PROVE  s \o (t \o u) = (s \o t) \o u
<1> DEFINE S == Range(s) \cup Range(t) \cup Range(u)
<1>1. s \in Seq(S) /\ t \in Seq(S) /\ u \in Seq(S)
  BY SeqMonotonic DEF IsSequence
<1> HIDE DEF S
<1> QED
  BY <1>1, ConcatAssociative

AddsBoth(s, x, y) == s \o (<<x>> \o <<y>>) = (s \o <<x>>) \o <<y>>

LEMMA OneByOne ==
  ASSUME NEW s, IsSequence(s), NEW x, NEW y
  PROVE  AddsBoth(s, x, y)
<1>1. IsSequence(<<x>>) /\ IsSequence(<<y>>)
  BY Single
<1> HIDE DEF IsSequence
<1> DEFINE a == <<x>>
           b == <<y>>
<1>2. IsSequence(a) /\ IsSequence(b)
  BY <1>1
<1> HIDE DEF a, b
<1>3. s \o (a \o b) = (s \o a) \o b
  BY <1>2, JoinedTwice
<1> QED
  BY <1>3 DEF a, b, AddsBoth

LEMMA SendsNothing ==
  ASSUME NEW s, IsSequence(s)
  PROVE  s \o <<>> = s /\ <<>> \o s = s
BY ConcatEmptySeq DEF IsSequence

-------------------------------------------------------------------------------
(***************************************************************************)
(* The steps                                                               *)
(***************************************************************************)
LEMMA ChatIsGraph == ChatNext => [Next]_vars
BY DEF ChatNext, Chat, Token, NodeUpdate, Finish, Fail, GoAway, Crash, Next

LEMMA ToldIsAt == \A r, kinds : Told(r, kinds) = At(events[r], kinds)
BY DEF Told, At

LEMMA Unmoved ==
  ASSUME NEW q, StreamOK(q), UNCHANGED <<node[q], supersteps[q], stream[q], events[q]>>
  PROVE  StreamOK(q)'
BY DEF StreamOK, Active, Told, RaisesAtEnd, StepsLeft

LEMMA Kinds ==
  ASSUME NEW text, NEW step
  PROVE  /\ Says("token", text).event = "token" /\ Says("done", text).event = "done"
         /\ Says("error", text).event = "error" /\ Shows(step).event = "step"
BY DEF Says, Shows

LEMMA ChatStep ==
  ASSUME ChatInv, NEW r \in Runs, NEW t \in Threads, Chat(r, t)
  PROVE  \A q \in Runs : StreamOK(q)'
<1>1. /\ node \in [Runs -> Nodes \cup Ended \cup {"unused"}] /\ stream \in [Runs -> Streams]
      /\ node[r] = "unused" /\ node' = [node EXCEPT ![r] = "intake"]
      /\ stream' = [stream EXCEPT ![r] = "open"] /\ events' = events
      /\ \A q \in Runs \ {r} : supersteps'[q] = supersteps[q]
  BY DEF Chat, StartTurn, ChatInv, IInv, TypeOK
<1>2. StreamOK(r)'
  BY <1>1 DEF ChatInv, StreamOK, Told, Streams
<1> QED
  BY <1>1, <1>2, Unmoved DEF ChatInv

\* A run at work has an open stream, on which nothing has ended.
LEMMA AtWork ==
  ASSUME ChatInv, NEW r \in Runs, Active(r)
  PROVE  /\ stream[r] = "open" /\ IsSequence(events[r])
         /\ Told(r, {"done"}) = {} /\ Told(r, {"error"}) = {} /\ Told(r, {"done", "error"}) = {}
         /\ \A i, j \in Told(r, {"token"}) : i = j
<1>1. node[r] # "done" /\ node[r] # "failed"
  BY DEF Active, Nodes, ModelNodes
<1> QED
  BY <1>1 DEF ChatInv, StreamOK, RaisesAtEnd

LEMMA TokenStep ==
  ASSUME ChatInv, NEW r \in Runs, Token(r)
  PROVE  events' = [q \in Runs |-> events'[q]] /\ \A q \in Runs : StreamOK(q)'
<1>1. PICK text : Send(r, <<Says("token", text)>>)
  BY DEF Token
<1>2. /\ UNCHANGED <<node, supersteps, stream>> /\ Told(r, {"token"}) = {} /\ Active(r)
  BY DEF Token, streamed_reply, vars, Ready, Active, PROSE_NODES, Nodes, ModelNodes
<1>3. events' = [q \in Runs |-> IF q = r THEN events[r] \o <<Says("token", text)>>
                                ELSE events[q]]
  BY <1>1 DEF Send, ChatInv
<1>4. StreamOK(r)'
  <2> DEFINE e == Says("token", text)
  <2>1. e.event = "token"
    BY Kinds
  <2> HIDE DEF e
  <2>2. /\ stream[r] = "open" /\ IsSequence(events[r])
        /\ Told(r, {"done"}) = {} /\ Told(r, {"error"}) = {} /\ Told(r, {"done", "error"}) = {}
    BY <1>2, AtWork
  <2>3. Adds(events'[r], events[r], e)
    BY <1>3 DEF e, Adds
  <2>4. /\ IsSequence(events'[r])
        /\ \A kinds : e.event \in kinds =>
             Told(r, kinds)' = Told(r, kinds) \cup {Len(events[r]) + 1}
        /\ \A kinds : e.event \notin kinds => Told(r, kinds)' = Told(r, kinds)
    BY <2>2, <2>3, SendsEvent, Zenon
  <2>5. /\ Told(r, {"done"})' = {} /\ Told(r, {"error"})' = {}
        /\ Told(r, {"done", "error"})' = {}
        /\ Told(r, {"token"})' = {Len(events[r]) + 1}
    BY <1>2, <2>1, <2>2, <2>4
  <2> QED
    BY <1>2, <2>2, <2>4, <2>5 DEF StreamOK, Active, Streams
<1> QED
  BY <1>2, <1>3, <1>4, Unmoved DEF ChatInv

\* A node sends steps, which are none of the kinds that tell how a turn ended.
LEMMA NodeUpdateStep ==
  ASSUME ChatInv, NEW r \in Runs, NodeUpdate(r)
  PROVE  events' = [q \in Runs |-> events'[q]] /\ \A q \in Runs : StreamOK(q)'
<1>1. /\ Active(r) /\ UNCHANGED stream
      /\ \E s2 : Complete(r, s2) /\ Successor(node[r], s2) \in Nodes \cup {"done"}
  BY NodeStepShape DEF NodeUpdate, ChatInv, Ends, GoesOn
<1>2. /\ node \in [Runs -> Nodes \cup Ended \cup {"unused"}]
      /\ \A q \in Runs \ {r} : node'[q] = node[q] /\ supersteps'[q] = supersteps[q]
      /\ node'[r] \in Nodes \cup {"done"}
  BY <1>1 DEF ChatInv, IInv, TypeOK, Complete
<1>3. PICK steps : /\ steps = <<>> \/ \E step : steps = <<step>>
                   /\ Send(r, [i \in DOMAIN steps |-> Shows(steps[i])])
  <2>1. \A n, s : _steps_for_update(n, s) = <<>> \/ \E step : _steps_for_update(n, s) = <<step>>
    BY DEF _steps_for_update
  <2> QED
    BY <2>1 DEF NodeUpdate
<1> DEFINE sent == [i \in DOMAIN steps |-> Shows(steps[i])]
<1>4. events' = [q \in Runs |-> IF q = r THEN events[r] \o sent ELSE events[q]]
  BY <1>3 DEF Send, ChatInv
<1>5. sent = <<>> \/ \E step : sent = <<Shows(step)>>
  BY <1>3
<1> HIDE DEF sent
<1>6. /\ stream[r] = "open" /\ IsSequence(events[r])
      /\ Told(r, {"done"}) = {} /\ Told(r, {"error"}) = {} /\ Told(r, {"done", "error"}) = {}
      /\ \A i, j \in Told(r, {"token"}) : i = j
  BY <1>1, AtWork
<1>7. IsSequence(events'[r]) /\ \A kinds : "step" \notin kinds => Told(r, kinds)' = Told(r, kinds)
  <2>1. events'[r] = events[r] \o sent
    BY <1>4
  <2>2. CASE sent = <<>>
    BY <1>6, <2>1, <2>2, SendsNothing DEF Told
  <2>3. ASSUME NEW step, sent = <<Shows(step)>>
        PROVE  /\ IsSequence(events'[r])
               /\ \A kinds : "step" \notin kinds => Told(r, kinds)' = Told(r, kinds)
    <3> DEFINE e == Shows(step)
    <3>1. e.event = "step" /\ Adds(events'[r], events[r], e)
      BY <2>1, <2>3, Kinds DEF Adds
    <3> HIDE DEF e
    <3>2. /\ IsSequence(events'[r])
          /\ \A kinds : e.event \notin kinds => Told(r, kinds)' = Told(r, kinds)
      BY <1>6, <3>1, SendsEvent, Zenon
    <3> QED
      BY <3>1, <3>2, Zenon
  <2> QED
    BY <1>5, <2>2, <2>3
<1>8. StreamOK(r)'
  BY <1>1, <1>6, <1>7 DEF StreamOK, Streams
<1> QED
  BY <1>1, <1>2, <1>4, <1>8, Unmoved DEF ChatInv

\* The reply, if nothing was said before, then done.
Before(r) ==
  IF streamed_reply(r) THEN events[r]
  ELSE events[r] \o <<Says("token", FallbackText(state[r]))>>

LEMMA FinishSends ==
  ASSUME ChatInv, NEW r \in Runs, Finish(r)
  PROVE  events' = [q \in Runs |-> IF q = r THEN Before(r) \o <<Says("done", "")>>
                                   ELSE events[q]]
<1> DEFINE token == Says("token", FallbackText(state[r]))
           done == Says("done", "")
<1>1. IsSequence(events[r])
  BY DEF ChatInv, StreamOK
<1> HIDE DEF token, done
<1>2. events' = [events EXCEPT ![r] =
        events[r] \o ((IF streamed_reply(r) THEN <<>> ELSE <<token>>) \o <<done>>)]
  BY DEF Finish, Send, token, done
<1>3. events[r] \o (<<>> \o <<done>>) = events[r] \o <<done>>
  BY Single, SendsNothing
<1>4. events[r] \o (<<token>> \o <<done>>) = (events[r] \o <<token>>) \o <<done>>
  <2>1. AddsBoth(events[r], token, done)
    BY <1>1, OneByOne, Zenon
  <2> QED
    BY <2>1 DEF AddsBoth
<1> QED
  BY <1>2, <1>3, <1>4 DEF ChatInv, Before, token, done

LEMMA FinishStep ==
  ASSUME ChatInv, NEW r \in Runs, Finish(r)
  PROVE  events' = [q \in Runs |-> events'[q]] /\ \A q \in Runs : StreamOK(q)'
<1> DEFINE token == Says("token", FallbackText(state[r]))
           done == Says("done", "")
           before == IF streamed_reply(r) THEN events[r] ELSE events[r] \o <<token>>
<1>1. /\ node[r] = "done" /\ stream[r] = "open" /\ UNCHANGED <<node, supersteps>>
      /\ stream' = [stream EXCEPT ![r] = "ended"] /\ stream \in [Runs -> Streams]
      /\ IsSequence(events[r]) /\ Told(r, {"done"}) = {} /\ Told(r, {"error"}) = {}
      /\ \A i, j \in Told(r, {"token"}) : i = j
  <2>1. Told(r, {"done", "error"}) = {}
    BY DEF ChatInv, StreamOK, Finish
  <2>2. Told(r, {"done"}) \subseteq Told(r, {"done", "error"})
        /\ Told(r, {"error"}) \subseteq Told(r, {"done", "error"})
    BY DEF Told
  <2> QED
    BY <2>1, <2>2 DEF ChatInv, StreamOK, Finish, vars
<1>2. token.event = "token" /\ done.event = "done"
  BY Kinds
<1>3. events' = [q \in Runs |-> IF q = r THEN before \o <<done>> ELSE events[q]]
  BY FinishSends DEF Before
<1> HIDE DEF token, done
<1>4. /\ IsSequence(before) /\ At(before, {"done"}) = {} /\ At(before, {"error"}) = {}
      /\ At(before, {"done", "error"}) = {}
      /\ At(before, {"token"}) # {} /\ \A i, j \in At(before, {"token"}) : i = j
  <2>1. \A kinds : At(events[r], kinds) = Told(r, kinds)
    BY ToldIsAt
  <2>2. Told(r, {"done", "error"}) = {}
    BY <1>1 DEF Told
  <2>3. CASE streamed_reply(r)
    BY <1>1, <2>1, <2>2, <2>3 DEF streamed_reply
  <2>4. CASE ~streamed_reply(r)
    <3>1. Adds(before, events[r], token)
      BY <2>4 DEF Adds
    <3> HIDE DEF before
    <3>2. AddedOne(before, events[r], token)
      BY <1>1, <3>1, SendsOne, Zenon
    <3>3. /\ IsSequence(before) /\ At(before, {"done"}) = At(events[r], {"done"})
          /\ At(before, {"error"}) = At(events[r], {"error"})
          /\ At(before, {"done", "error"}) = At(events[r], {"done", "error"})
          /\ At(before, {"token"}) = At(events[r], {"token"}) \cup {Len(events[r]) + 1}
      BY <1>2, <3>2 DEF AddedOne
    <3> QED
      BY <1>1, <2>1, <2>2, <2>4, <3>3 DEF streamed_reply
  <2> QED
    BY <2>3, <2>4
<1> HIDE DEF before
<1>5. /\ IsSequence(events'[r]) /\ Len(events'[r]) = Len(before) + 1
      /\ Told(r, {"done"})' = {Len(before) + 1} /\ Told(r, {"error"})' = {}
      /\ Told(r, {"done", "error"})' = {Len(before) + 1}
      /\ Told(r, {"token"})' = At(before, {"token"})
  <2>1. Adds(events'[r], before, done)
    BY <1>3 DEF Adds
  <2>2. \A kinds : Told(r, kinds)' = At(events'[r], kinds)
    BY DEF Told, At
  <2>3. AddedOne(events'[r], before, done)
    BY <1>4, <2>1, SendsOne, Zenon
  <2>4. /\ IsSequence(events'[r]) /\ Len(events'[r]) = Len(before) + 1
        /\ At(events'[r], {"done"}) = At(before, {"done"}) \cup {Len(before) + 1}
        /\ At(events'[r], {"error"}) = At(before, {"error"})
        /\ At(events'[r], {"done", "error"}) = At(before, {"done", "error"}) \cup {Len(before) + 1}
        /\ At(events'[r], {"token"}) = At(before, {"token"})
    BY <1>2, <2>3 DEF AddedOne
  <2> QED
    BY <1>4, <2>2, <2>4
<1>6. StreamOK(r)'
  <2>1. ~Active(r)' /\ stream'[r] = "ended" /\ node'[r] = "done"
    BY <1>1 DEF Active, Nodes, ModelNodes
  <2> QED
    BY <1>4, <1>5, <2>1 DEF StreamOK, Streams
<1> QED
  BY <1>1, <1>3, <1>6, Unmoved DEF ChatInv

\* A model's error, or the limit of supersteps, is told and ends the stream.  It
\* ends the turn too, unless the limit is met when the last node is through.
LEMMA FailShape ==
  ASSUME ChatInv, NEW r \in Runs, Fail(r)
  PROVE  /\ stream[r] = "open" /\ stream' = [stream EXCEPT ![r] = "ended"]
         /\ UNCHANGED <<state, supersteps>>
         /\ events' = [q \in Runs |-> IF q = r THEN events[r] \o <<Says("error", "")>>
                                      ELSE events[q]]
         /\ \/ Active(r) /\ node' = [node EXCEPT ![r] = "failed"]
            \/ RaisesAtEnd(r) /\ UNCHANGED vars
<1>1. \/ Active(r) /\ node' = [node EXCEPT ![r] = "failed"] /\ UNCHANGED <<state, supersteps>>
      \/ stream[r] = "open" /\ RaisesAtEnd(r) /\ UNCHANGED vars
  BY DEF Fail, ModelError, RecursionError, End
<1>2. stream[r] = "open" /\ UNCHANGED <<state, supersteps>>
  BY <1>1, AtWork DEF vars
<1>3. /\ stream' = [stream EXCEPT ![r] = "ended"]
      /\ events' = [q \in Runs |-> IF q = r THEN events[r] \o <<Says("error", "")>>
                                   ELSE events[q]]
  BY DEF Fail, Failed, Send, ChatInv
<1> QED
  BY <1>1, <1>2, <1>3

LEMMA FailStep ==
  ASSUME ChatInv, NEW r \in Runs, Fail(r)
  PROVE  events' = [q \in Runs |-> events'[q]] /\ \A q \in Runs : StreamOK(q)'
<1> DEFINE e == Says("error", "")
<1>1. /\ stream[r] = "open" /\ UNCHANGED supersteps
      /\ node \in [Runs -> Nodes \cup Ended \cup {"unused"}]
      /\ stream' = [stream EXCEPT ![r] = "ended"] /\ stream \in [Runs -> Streams]
  BY FailShape DEF ChatInv, IInv, TypeOK
<1>2. events' = [q \in Runs |-> IF q = r THEN events[r] \o <<e>> ELSE events[q]]
  BY FailShape
<1>3. e.event = "error"
  BY Kinds
<1> HIDE DEF e
<1>6. /\ \A q \in Runs \ {r} : node'[q] = node[q]
      /\ \/ node'[r] = "failed"
         \/ node'[r] = "done" /\ RaisesAtEnd(r)'
  <2>1. CASE Active(r) /\ node' = [node EXCEPT ![r] = "failed"]
    BY <1>1, <2>1
  <2>2. CASE RaisesAtEnd(r) /\ UNCHANGED vars
    BY <2>2 DEF RaisesAtEnd, StepsLeft, vars
  <2> QED
    BY <2>1, <2>2, FailShape
<1>4. /\ IsSequence(events[r]) /\ \A i, j \in Told(r, {"token"}) : i = j
      /\ Told(r, {"done"}) = {} /\ Told(r, {"error"}) = {} /\ Told(r, {"done", "error"}) = {}
  <2>1. Told(r, {"done", "error"}) = {}
    BY <1>1 DEF ChatInv, StreamOK
  <2>2. Told(r, {"done"}) \subseteq Told(r, {"done", "error"})
        /\ Told(r, {"error"}) \subseteq Told(r, {"done", "error"})
    BY DEF Told
  <2> QED
    BY <2>1, <2>2 DEF ChatInv, StreamOK
<1>5. StreamOK(r)'
  <2>1. Adds(events'[r], events[r], e)
    BY <1>2 DEF Adds
  <2>2. /\ IsSequence(events'[r]) /\ Len(events'[r]) = Len(events[r]) + 1
        /\ \A kinds : e.event \in kinds =>
             Told(r, kinds)' = Told(r, kinds) \cup {Len(events[r]) + 1}
        /\ \A kinds : e.event \notin kinds => Told(r, kinds)' = Told(r, kinds)
    BY <1>4, <2>1, SendsEvent, Zenon
  <2>3. /\ Told(r, {"done"})' = {} /\ Told(r, {"done", "error"})' = {Len(events'[r])}
        /\ Told(r, {"token"})' = Told(r, {"token"})
    BY <1>3, <1>4, <2>2
  <2>4. stream'[r] = "ended" /\ ~Active(r)'
    BY <1>1, <1>6 DEF Active, Nodes, ModelNodes
  <2> QED
    BY <1>4, <1>6, <2>2, <2>3, <2>4 DEF StreamOK, Streams
<1> QED
  BY <1>1, <1>2, <1>5, <1>6, Unmoved DEF ChatInv

\* A response is cut where it stands.
LEMMA Cut ==
  ASSUME ChatInv, NEW q \in Runs, stream[q] = "open", stream'[q] = "cut",
         events'[q] = events[q], ~Active(q)'
  PROVE  StreamOK(q)'
<1>1. /\ IsSequence(events[q]) /\ Told(q, {"done", "error"}) = {}
      /\ \A i, j \in Told(q, {"token"}) : i = j
      /\ \A kinds : Told(q, kinds)' = Told(q, kinds)
  BY DEF ChatInv, StreamOK, Told
<1>2. Told(q, {"done"}) = {} /\ Told(q, {"error"}) = {}
  BY <1>1 DEF Told
<1> QED
  BY <1>1, <1>2 DEF StreamOK, Streams

LEMMA GoAwayStep ==
  ASSUME ChatInv, NEW r \in Runs, GoAway(r)
  PROVE  \A q \in Runs : StreamOK(q)'
<1>1. /\ stream \in [Runs -> Streams] /\ node \in [Runs -> Nodes \cup Ended \cup {"unused"}]
      /\ stream[r] = "open" /\ stream' = [stream EXCEPT ![r] = "cut"] /\ events' = events
      /\ \A q \in Runs \ {r} : node'[q] = node[q]
      /\ node'[r] \in {"cancelled", "done"} /\ UNCHANGED supersteps
  BY DEF GoAway, Disconnect, End, vars, ChatInv, IInv, TypeOK
<1>2. StreamOK(r)'
  BY <1>1, Cut DEF Active, Nodes, ModelNodes
<1> QED
  BY <1>1, <1>2, Unmoved DEF ChatInv

LEMMA CrashStep ==
  ASSUME ChatInv, Crash
  PROVE  \A q \in Runs : StreamOK(q)'
<1>1. /\ stream' = [q \in Runs |-> IF stream[q] = "open" THEN "cut" ELSE stream[q]]
      /\ events' = events /\ UNCHANGED supersteps
      /\ \A q \in Runs : /\ ~Active(q)'
                         /\ ~Active(q) => node'[q] = node[q]
  BY DEF Crash, Restart, vars, Active, Nodes, ModelNodes
<1> SUFFICES ASSUME NEW q \in Runs PROVE StreamOK(q)'
  OBVIOUS
<1>2. CASE stream[q] = "open"
  BY <1>1, <1>2, Cut
<1>3. CASE stream[q] # "open"
  <2>1. ~Active(q)
    BY <1>3 DEF ChatInv, StreamOK
  <2> QED
    BY <1>1, <1>3, <2>1, Unmoved DEF ChatInv
<1> QED
  BY <1>2, <1>3

-------------------------------------------------------------------------------
(***************************************************************************)
(* The invariant                                                           *)
(***************************************************************************)
LEMMA ChatInitInv == ChatInit => ChatInv
<1> SUFFICES ASSUME ChatInit PROVE ChatInv
  OBVIOUS
<1>1. IInv
  BY InitIInv DEF ChatInit
<1>2. /\ stream = [r \in Runs |-> "unused"] /\ events = [r \in Runs |-> <<>>]
      /\ node = [r \in Runs |-> "unused"]
  BY DEF ChatInit, Init
<1>3. ASSUME NEW r \in Runs PROVE StreamOK(r)
  <2>1. events[r] = <<>> /\ node[r] = "unused" /\ stream[r] = "unused"
    BY <1>2
  <2>2. \A kinds : Told(r, kinds) = {}
    BY <2>1 DEF Told
  <2>3. IsSequence(events[r])
    BY <2>1, Single
  <2> QED
    BY <2>1, <2>2, <2>3 DEF StreamOK, Streams, Active, Nodes, ModelNodes
<1>4. stream \in [Runs -> Streams] /\ events = [r \in Runs |-> events[r]]
  BY <1>2 DEF Streams
<1> QED
  BY <1>1, <1>3, <1>4 DEF ChatInv

LEMMA ChatKeeps == ChatInv /\ [ChatNext]_chatvars => ChatInv'
<1> SUFFICES ASSUME ChatInv, [ChatNext]_chatvars PROVE ChatInv'
  OBVIOUS
<1>1. IInv'
  <2>1. [Next]_vars
    BY ChatIsGraph DEF chatvars, vars
  <2> QED
    BY <2>1, NextKeeps DEF ChatInv
<1>2. stream' \in [Runs -> Streams]
  <2>1. stream \in [Runs -> Streams]
    BY DEF ChatInv
  <2> QED
    BY <2>1 DEF ChatNext, Chat, Token, NodeUpdate, Finish, Fail, GoAway, Crash, chatvars,
                Streams
<1>3. events' = [q \in Runs |-> events'[q]] /\ \A q \in Runs : StreamOK(q)'
  <2>1. CASE \E r \in Runs, t \in Threads : Chat(r, t)
    BY <2>1, ChatStep DEF Chat, ChatInv
  <2>2. CASE \E r \in Runs : Token(r)
    BY <2>2, TokenStep
  <2>3. CASE \E r \in Runs : NodeUpdate(r)
    BY <2>3, NodeUpdateStep
  <2>4. CASE \E r \in Runs : Finish(r)
    BY <2>4, FinishStep
  <2>5. CASE \E r \in Runs : Fail(r)
    BY <2>5, FailStep
  <2>6. CASE \E r \in Runs : GoAway(r)
    BY <2>6, GoAwayStep DEF GoAway, ChatInv
  <2>7. CASE Crash
    BY <2>7, CrashStep DEF Crash, ChatInv
  <2>8. CASE UNCHANGED chatvars
    BY <2>8, Unmoved DEF chatvars, ChatInv
  <2> QED
    BY <2>1, <2>2, <2>3, <2>4, <2>5, <2>6, <2>7, <2>8 DEF ChatNext
<1> QED
  BY <1>1, <1>2, <1>3 DEF ChatInv

LEMMA ChatInvariance == ChatSpec => []ChatInv
BY ChatInitInv, ChatKeeps, PTL DEF ChatSpec

\* The API takes the graph's steps and no other.
LEMMA ChatServesGraph == ChatSpec => Spec
<1>1. ChatInit => Init
  BY DEF ChatInit
<1>2. [ChatNext]_chatvars => [Next]_vars
  BY ChatIsGraph DEF chatvars, vars
<1> QED
  BY <1>1, <1>2, PTL DEF ChatSpec, Spec

-------------------------------------------------------------------------------
\* Whatever fails, is cut off or goes on beside it: a stream says how the turn
\* ended once, as its last event, and one that is done carried one reply.
THEOREM EndsOnce == ChatSpec => []OneEnding
<1>1. ChatInv => OneEnding
  <2> SUFFICES ASSUME ChatInv, NEW r \in Runs, Told(r, {"done"}) # {}
               PROVE  \E i \in DOMAIN events[r] : Told(r, {"token"}) = {i}
    BY DEF OneEnding, ChatInv, StreamOK
  <2>1. PICK i \in Told(r, {"token"}) : TRUE
    BY DEF ChatInv, StreamOK
  <2>2. \A j \in Told(r, {"token"}) : j = i
    BY DEF ChatInv, StreamOK
  <2>3. i \in DOMAIN events[r]
    BY DEF Told
  <2>4. Told(r, {"token"}) = {i}
    BY <2>1, <2>2
  <2> QED
    BY <2>3, <2>4
<1> QED
  BY <1>1, ChatInvariance, PTL

\* A client told of an error finds its turn in no thread; one told done finds it
\* in its thread, where the clients of a thread wait for each other.
THEOREM EndingsTrue ==
  ASSUME Serial
  PROVE  ChatSpec => []EndingIsTrue
<1>1. ChatInv /\ OnlyFinishedTurns /\ FinishedTurnsKept => EndingIsTrue
  <2> SUFFICES ASSUME ChatInv, OnlyFinishedTurns, FinishedTurnsKept, NEW r \in Runs
               PROVE  /\ Told(r, {"done"}) # {} => InThread(r, thread[r])
                      /\ Told(r, {"error"}) # {} /\ ~RaisesAtEnd(r) =>
                           \A t \in Threads : ~InThread(r, t)
    BY DEF EndingIsTrue
  <2>1. Told(r, {"done"}) # {} => node[r] = "done"
    BY DEF ChatInv, StreamOK
  <2>2. Told(r, {"error"}) # {} /\ ~RaisesAtEnd(r) => node[r] = "failed"
    BY DEF ChatInv, StreamOK
  <2>3. \A t \in Threads : InThread(r, t) => node[r] = "done"
    BY DEF OnlyFinishedTurns, InThread
  <2> QED
    BY <2>1, <2>2, <2>3 DEF FinishedTurnsKept, InThread
<1>2. Spec => []OnlyFinishedTurns
  BY OnlyFinishedKept
<1>3. Spec => []FinishedTurnsKept
  BY NoFinishedTurnLost
<1> QED
  BY <1>1, <1>2, <1>3, ChatInvariance, ChatServesGraph, PTL
-------------------------------------------------------------------------------
(***************************************************************************)
(* What a reloaded conversation shows.  While a turn is under way, the     *)
(* steps its client was sent are the trail its state would be archived     *)
(* with; finalize archives exactly that, and nothing of a finished turn is *)
(* sent or written any more but the reply that is its own.                 *)
(***************************************************************************)
TrailOf(s) == turn_trail(Archived(s))

LogSteps(log) == [i \in DOMAIN log |-> log_step(log[i])]

\* No reply was sent, or none but this text.
Quiet(es) == \A i \in DOMAIN es : es[i].event # "token"
Spoke(es, text) == \A i \in DOMAIN es : es[i].event = "token" => es[i].text = text

AtWorkOK(n, s, es) ==
  n \in Nodes =>
    /\ s.grounding_error = None => Streamed(TrailOf(s), es)
    /\ n \notin PROSE_NODES \cup {"finalize"} => Quiet(es)
    /\ n = "finalize" => Spoke(es, ReplyText(s).val)

FiledIn(turn, s, es) ==
  /\ s.turns # <<>> /\ turn = s.turns[Len(s.turns)]
  /\ s.grounding_error = None => Streamed(turn_trail(turn), es)
  /\ turn.reply.val # "" => Spoke(es, turn.reply.val)

\* turns holds what their own runs archived and sent.
AllFiled(turns) ==
  \A i \in DOMAIN turns :
    FiledIn(turns[i], state[turns[i].user_request], events[turns[i].user_request])

ReloadInv ==
  /\ ChatInv /\ FinishedInv
  /\ \A r \in Runs : node[r] = "unused" => events[r] = <<>>
  /\ \A r \in Runs : AtWorkOK(node[r], state[r], events[r])
  /\ \A t \in Threads : AllFiled(saved[t].turns)
  /\ \A r \in Runs : Active(r) => AllFiled(state[r].turns)

-------------------------------------------------------------------------------
LEMMA Longer ==
  ASSUME NEW s, IsSequence(s), NEW x, NEW longer, Adds(longer, s, x)
  PROVE  /\ IsSequence(longer) /\ Len(s) \in Nat /\ Len(longer) = Len(s) + 1
         /\ DOMAIN s = 1..Len(s) /\ DOMAIN longer = 1..(Len(s) + 1)
         /\ \A i \in 1..Len(s) : longer[i] = s[i]
         /\ longer[Len(s) + 1] = x
<1> DEFINE one == <<x>>
<1>1. IsSequence(one) /\ Len(one) = 1 /\ one[1] = x
  BY Single
<1>2. longer = s \o one
  BY DEF Adds
<1> HIDE DEF one
<1>3. /\ IsSequence(s \o one)
      /\ Len(s) \in Nat /\ Len(s \o one) = Len(s) + Len(one)
      /\ DOMAIN s = 1..Len(s) /\ DOMAIN (s \o one) = 1..(Len(s) + Len(one))
      /\ \A i \in 1..Len(s) : (s \o one)[i] = s[i]
      /\ \A i \in 1..Len(one) : (s \o one)[Len(s) + i] = one[i]
  BY <1>1, Joined
<1> QED
  BY <1>1, <1>2, <1>3

\* The ranks of a set of positions, and of one with a later position.
LEMMA RanksGrow ==
  ASSUME NEW n \in Nat, NEW A \in SUBSET (1..n)
  PROVE  LET B == A \cup {n + 1}
         IN /\ Cardinality(A) \in Nat /\ Cardinality(B) = Cardinality(A) + 1
            /\ \A i \in A : /\ {j \in B : j <= i} = {j \in A : j <= i}
                            /\ Cardinality({j \in A : j <= i}) \in 1..Cardinality(A)
            /\ {j \in B : j <= n + 1} = B
<1> DEFINE B == A \cup {n + 1}
           Upto(i) == {j \in A : j <= i}
<1>1. \A i \in A : i \in Nat /\ i < n + 1 /\ i <= i
  OBVIOUS
<1>2. IsFiniteSet(A) /\ Cardinality(A) \in Nat
  <2>1. IsFiniteSet(1..n)
    BY FS_Interval
  <2> QED
    BY <2>1, FS_Subset, FS_CardinalityType
<1>3. n + 1 \notin A
  BY <1>1
<1>4. Cardinality(B) = Cardinality(A) + 1
  BY <1>2, <1>3, FS_AddElement
<1>5. ASSUME NEW i \in A
      PROVE  /\ {j \in B : j <= i} = Upto(i)
             /\ Cardinality(Upto(i)) \in 1..Cardinality(A)
  <2>1. ~(n + 1 <= i)
    BY <1>1
  <2>2. {j \in B : j <= i} = Upto(i)
    BY <2>1, Zenon
  <2>3. Upto(i) \in SUBSET A /\ Upto(i) # {}
    BY <1>1
  <2>4. IsFiniteSet(Upto(i))
    BY <1>2, <2>3, FS_Subset
  <2> HIDE DEF Upto
  <2>5. /\ Cardinality(Upto(i)) \in Nat /\ Cardinality(Upto(i)) <= Cardinality(A)
        /\ Cardinality(Upto(i)) # 0
    BY <1>2, <2>3, <2>4, FS_Subset, FS_CardinalityType, FS_EmptySet
  <2>6. Cardinality(Upto(i)) \in 1..Cardinality(A)
    BY <1>2, <2>5
  <2> QED
    BY <2>2, <2>6
<1>6. {j \in B : j <= n + 1} = B
  <2>1. \A j \in B : j <= n + 1
    BY <1>1
  <2> QED
    BY <2>1, Zenon
<1> QED
  BY <1>2, <1>4, <1>5, <1>6

\* Anything but a step leaves the steps as they were.
LEMMA StreamedOther ==
  ASSUME NEW es, IsSequence(es), NEW x, x.event # "step", NEW longer, Adds(longer, es, x),
         NEW trail, Streamed(trail, es)
  PROVE  Streamed(trail, longer)
<1>1. /\ Len(es) \in Nat /\ DOMAIN es = 1..Len(es) /\ DOMAIN longer = 1..(Len(es) + 1)
      /\ \A i \in 1..Len(es) : longer[i] = es[i]
      /\ longer[Len(es) + 1] = x
  BY Longer
<1>2. 1..(Len(es) + 1) = (1..Len(es)) \cup {Len(es) + 1}
  BY <1>1
<1>3. {i \in DOMAIN longer : longer[i].event = "step"} = {i \in DOMAIN es : es[i].event = "step"}
  BY <1>1, <1>2
<1> QED
  BY <1>1, <1>3 DEF Streamed

\* A step is the next of the trail.
LEMMA StreamedStep ==
  ASSUME NEW es, IsSequence(es), NEW x, x.event = "step", NEW longer, Adds(longer, es, x),
         NEW trail, IsSequence(trail), NEW trail2, Adds(trail2, trail, x.step),
         Streamed(trail, es)
  PROVE  Streamed(trail2, longer)
<1> DEFINE A == {i \in DOMAIN es : es[i].event = "step"}
           B == {i \in DOMAIN longer : longer[i].event = "step"}
           n == Len(es)
           m == Len(trail)
<1>1. /\ n \in Nat /\ DOMAIN es = 1..n /\ DOMAIN longer = 1..(n + 1)
      /\ \A i \in 1..n : longer[i] = es[i]
      /\ longer[n + 1] = x
  BY Longer
<1>2. /\ m \in Nat /\ Len(trail2) = m + 1
      /\ \A k \in 1..m : trail2[k] = trail[k]
      /\ trail2[m + 1] = x.step
  BY Longer
<1>3. Cardinality(A) = m /\ \A i \in A : es[i].step = trail[Cardinality({j \in A : j <= i})]
  BY DEF Streamed
<1>4. 1..(n + 1) = (1..n) \cup {n + 1}
  BY <1>1
<1>5. A \in SUBSET (1..n) /\ B = A \cup {n + 1}
  BY <1>1, <1>4
<1> HIDE DEF A, B, n, m
<1>6. /\ Cardinality(B) = Cardinality(A) + 1
      /\ \A i \in A : /\ {j \in B : j <= i} = {j \in A : j <= i}
                      /\ Cardinality({j \in A : j <= i}) \in 1..Cardinality(A)
      /\ {j \in B : j <= n + 1} = B
  BY <1>1, <1>5, RanksGrow
<1>7. Cardinality(B) = Len(trail2)
  BY <1>2, <1>3, <1>6
<1>8. ASSUME NEW i \in B
      PROVE  longer[i].step = trail2[Cardinality({j \in B : j <= i})]
  <2>1. CASE i \in A
    <3>1. longer[i] = es[i]
      BY <1>1, <1>5, <2>1
    <3> QED
      BY <1>2, <1>3, <1>6, <2>1, <3>1
  <2>2. CASE i = n + 1
    BY <1>1, <1>2, <1>3, <1>6, <2>2
  <2> QED
    BY <1>5, <2>1, <2>2
<1> QED
  BY <1>7, <1>8 DEF Streamed, B

LEMMA LogStepsFacts ==
  ASSUME NEW log \in Seq(ToolCallRecord)
  PROVE  /\ IsSequence(LogSteps(log))
         /\ \A record \in ToolCallRecord :
              Adds(LogSteps(Append(log, record)), LogSteps(log), log_step(record))
<1> DEFINE S == {log_step(x) : x \in ToolCallRecord}
<1>1. \A x \in ToolCallRecord : log_step(x) \in S
  OBVIOUS
<1> HIDE DEF S
<1>2. \A l \in Seq(ToolCallRecord) : LogSteps(l) \in Seq(S) /\ Len(LogSteps(l)) = Len(l)
  BY <1>1 DEF LogSteps
<1>3. IsSequence(LogSteps(log))
  BY <1>2, SeqOfRange DEF IsSequence
<1>4. ASSUME NEW record \in ToolCallRecord
      PROVE  LogSteps(Append(log, record)) = LogSteps(log) \o <<log_step(record)>>
  <2> DEFINE more == Append(log, record)
             step == log_step(record)
  <2>1. /\ more \in Seq(ToolCallRecord) /\ Len(more) = Len(log) + 1 /\ Len(log) \in Nat
        /\ \A i \in 1..Len(log) : more[i] = log[i]
        /\ more[Len(log) + 1] = record
    OBVIOUS
  <2>2. step \in S
    BY <1>1
  <2>3. /\ \A i \in 1..Len(log) : LogSteps(more)[i] = LogSteps(log)[i]
        /\ LogSteps(more)[Len(log) + 1] = step
    <3>1. DOMAIN more = 1..(Len(log) + 1) /\ DOMAIN log = 1..Len(log)
      BY <2>1
    <3> HIDE DEF more
    <3> QED
      BY <2>1, <3>1 DEF LogSteps
  <2>4. LogSteps(more) \in Seq(S) /\ LogSteps(log) \in Seq(S) /\ Len(LogSteps(log)) = Len(log)
        /\ Len(LogSteps(more)) = Len(log) + 1
    BY <1>2, <2>1
  <2> HIDE DEF step, more
  <2> DEFINE a == LogSteps(more)
             b == LogSteps(log)
             c == b \o <<step>>
  <2> HIDE DEF a, b
  <2>5. c \in Seq(S) /\ Len(c) = Len(log) + 1 /\ c[Len(log) + 1] = step
        /\ \A i \in 1..Len(log) : c[i] = b[i]
    BY <2>1, <2>2, <2>4 DEF a, b
  <2>6. a \in Seq(S) /\ Len(a) = Len(c) /\ \A i \in 1..Len(c) : a[i] = c[i]
    BY <2>1, <2>3, <2>4, <2>5 DEF a, b
  <2> HIDE DEF c
  <2>7. a = c
    BY <2>5, <2>6
  <2> QED
    BY <2>7 DEF a, b, c, more, step
<1> QED
  BY <1>3, <1>4 DEF Adds

\* The trail a state would be archived with, by what it has.
LEMMA TrailShape ==
  ASSUME NEW s \in State
  PROVE  /\ IsSequence(TrailOf(s))
         /\ s.followup_answer # None => TrailOf(s) = <<followup_step>>
         /\ s.followup_answer = None /\ s.diagnosis = None /\ s.reference_docs = <<>>
              => TrailOf(s) = LogSteps(s.investigation_log)
         /\ s.followup_answer = None /\ s.diagnosis # None /\ s.reference_docs = <<>>
              => Adds(TrailOf(s), LogSteps(s.investigation_log), diagnosis_step(s.diagnosis))
         /\ s.followup_answer = None /\ s.diagnosis # None /\ s.reference_docs # <<>>
              => Adds(TrailOf(s), LogSteps(s.investigation_log) \o <<diagnosis_step(s.diagnosis)>>,
                      docs_step(s.reference_docs, None))
<1> DEFINE logs == LogSteps(s.investigation_log)
           told == IF s.diagnosis = None THEN <<>> ELSE <<diagnosis_step(s.diagnosis)>>
           cited == IF s.reference_docs = <<>> THEN <<>>
                    ELSE <<docs_step(s.reference_docs, None)>>
<1>1. TrailOf(s) = IF s.followup_answer # None THEN <<followup_step>>
                   ELSE (logs \o told) \o cited
  BY DEF TrailOf, turn_trail, Archived, TurnRouteOf, LogSteps
<1>2. IsSequence(logs)
  BY LogStepsFacts DEF State
<1>3. IsSequence(told) /\ IsSequence(cited) /\ IsSequence(<<followup_step>>)
  BY Single
<1>4. /\ s.diagnosis = None => told = <<>>
      /\ s.diagnosis # None => told = <<diagnosis_step(s.diagnosis)>>
      /\ s.reference_docs = <<>> => cited = <<>>
      /\ s.reference_docs # <<>> => cited = <<docs_step(s.reference_docs, None)>>
  OBVIOUS
<1> HIDE DEF logs, told, cited
<1>5. IsSequence(logs \o told)
  BY <1>2, <1>3, Joined
<1>6. IsSequence((logs \o told) \o cited)
  BY <1>3, <1>5, Joined
<1>7. logs \o <<>> = logs /\ (logs \o told) \o <<>> = logs \o told
  BY <1>2, <1>5, SendsNothing
<1> QED
  BY <1>1, <1>3, <1>4, <1>6, <1>7 DEF Adds, logs

-------------------------------------------------------------------------------
\* The steps a node sends are what it adds to that trail.
TrailGrows(n, s, s2) ==
  s2.grounding_error = None =>
    /\ s.grounding_error = None
    /\ \/ _steps_for_update(n, s2) = <<>> /\ TrailOf(s2) = TrailOf(s)
       \/ \E step : /\ _steps_for_update(n, s2) = <<step>>
                    /\ Adds(TrailOf(s2), TrailOf(s), step)

SameTrail(s, s2) ==
  /\ s2.followup_answer = s.followup_answer
  /\ s2.investigation_log = s.investigation_log
  /\ s2.diagnosis = s.diagnosis
  /\ s2.grounding_error = s.grounding_error

LEMMA QuietNodes ==
  ASSUME NEW s \in State, NEW n, NEW s2, SameTrail(s, s2),
         s2.reference_docs = s.reference_docs,
         n \in {"intake", "plan", "recommend", "finalize"}
  PROVE  TrailGrows(n, s, s2)
<1>1. TrailOf(s2) = TrailOf(s)
  BY DEF TrailOf, turn_trail, Archived, TurnRouteOf, SameTrail
<1>2. _steps_for_update(n, s2) = <<>>
  BY DEF _steps_for_update
<1> QED
  BY <1>1, <1>2 DEF TrailGrows, SameTrail

LEMMA NodesKeepTrail ==
  ASSUME NEW s \in State, NEW x
  PROVE  LET Same(s2) == /\ SameTrail(s, s2) /\ s2.reference_docs = s.reference_docs
         IN /\ Same(intake(s, x)) /\ Same(plan_at_guard(s)) /\ Same(plan(s, x))
            /\ Same(recommend(s, x)) /\ Same(finalize(s))
BY DEF State, SameTrail, intake, plan_at_guard, plan, recommend, finalize

\* A record at the end of the log, before anything else is found.
LEMMA LoggingNodes ==
  ASSUME NEW s \in State, NEW s2 \in State, NEW n \in {"gather_context", "execute_tool"},
         NEW record, s2.investigation_log = Append(s.investigation_log, record),
         s.followup_answer = None, s2.followup_answer = None,
         s.diagnosis = None, s2.diagnosis = None,
         s.reference_docs = <<>>, s2.reference_docs = <<>>,
         s2.grounding_error = s.grounding_error
  PROVE  TrailGrows(n, s, s2)
<1> DEFINE log == s.investigation_log
           more == s2.investigation_log
<1>1. log \in Seq(ToolCallRecord) /\ more \in Seq(ToolCallRecord)
  BY DEF State
<1>2. /\ Len(more) = Len(log) + 1 /\ Len(log) + 1 \in DOMAIN more
      /\ more[Len(log) + 1] = record
  BY <1>1
<1>3. record \in ToolCallRecord
  BY <1>1, <1>2
<1>4. _steps_for_update(n, s2) = <<log_step(record)>>
  BY <1>2 DEF _steps_for_update
<1>5. TrailOf(s) = LogSteps(log) /\ TrailOf(s2) = LogSteps(more)
  BY TrailShape
<1>6. Adds(LogSteps(more), LogSteps(log), log_step(record))
  BY <1>1, <1>3, LogStepsFacts
<1> HIDE DEF log, more
<1> QED
  BY <1>4, <1>5, <1>6 DEF TrailGrows

LEMMA GatherTrail ==
  ASSUME NEW s \in State, s.user_request \in Runs, NEW k, Stage("gather_context", s, k),
         NEW res \in ToolResults
  PROVE  TrailGrows("gather_context", s, gather_context(s, res))
<1> DEFINE record == [by |-> s.user_request, tool_name |-> INITIAL_SWEEP,
                      namespace |-> ScopeNamespace(s), namespace_filled |-> FALSE,
                      result |-> res, rationale |-> None]
           s2 == gather_context(s, res)
<1>1. s2 \in State
  BY GatherType
<1>2. /\ s2.investigation_log = Append(s.investigation_log, record)
      /\ s2.followup_answer = s.followup_answer /\ s2.diagnosis = s.diagnosis
      /\ s2.reference_docs = s.reference_docs /\ s2.grounding_error = s.grounding_error
  BY DEF gather_context, State
<1>3. s.followup_answer = None /\ s.diagnosis = None /\ s.reference_docs = <<>>
  BY DEF Stage, Untouched
<1> HIDE DEF record, s2
<1>4. TrailGrows("gather_context", s, s2)
  BY <1>1, <1>2, <1>3, LoggingNodes
<1> QED
  BY <1>4 DEF s2

LEMMA ToolTrail ==
  ASSUME NEW s \in State, s.user_request \in Runs, NEW k, Stage("execute_tool", s, k),
         NEW res \in ToolOutcomes(s.pending_tool_call.val)
  PROVE  TrailGrows("execute_tool", s, execute_tool(s, res))
<1> DEFINE s2 == execute_tool(s, res)
<1>1. /\ s.followup_answer = None /\ s.diagnosis = None /\ s.reference_docs = <<>>
      /\ s.pending_tool_call # None
  BY DEF Stage, BeforeDiagnosis, Investigating
<1>2. s2 \in State
  <2>1. s.pending_tool_call \in Tagged(ToolCall)
    BY <1>1 DEF State, Maybe
  <2> QED
    BY <2>1, ExecuteToolType
<1>3. \E record : s2.investigation_log = Append(s.investigation_log, record)
  BY DEF execute_tool, State
<1>4. /\ s2.followup_answer = s.followup_answer /\ s2.diagnosis = s.diagnosis
      /\ s2.reference_docs = s.reference_docs /\ s2.grounding_error = s.grounding_error
  BY DEF execute_tool, State
<1> HIDE DEF s2
<1>5. TrailGrows("execute_tool", s, s2)
  BY <1>1, <1>2, <1>3, <1>4, LoggingNodes
<1> QED
  BY <1>5 DEF s2

LEMMA DiagnoseTrail ==
  ASSUME NEW s \in State, s.user_request \in Runs, NEW k, Stage("diagnose", s, k),
         NEW a \in DiagnosisAnswers
  PROVE  TrailGrows("diagnose", s, diagnose(s, a))
<1> DEFINE s2 == diagnose(s, a)
<1>1. s.followup_answer = None /\ s.diagnosis = None /\ s.reference_docs = <<>>
  BY DEF Stage, BeforeDiagnosis, Investigating
<1>2. s2 \in State
  BY DiagnoseType
<1>3. /\ s2.diagnosis = Tag(s.user_request, a)
      /\ s2.followup_answer = s.followup_answer /\ s2.reference_docs = s.reference_docs
      /\ s2.investigation_log = s.investigation_log
      /\ s2.grounding_error = s.grounding_error
  BY DEF diagnose, State
<1>4. s2.diagnosis # None
  BY <1>3, NoneAssumption DEF Tag, Tagged
<1> HIDE DEF s2
<1>5. _steps_for_update("diagnose", s2) = <<diagnosis_step(s2.diagnosis)>>
  BY DEF _steps_for_update
<1>6. Adds(TrailOf(s2), TrailOf(s), diagnosis_step(s2.diagnosis))
  BY <1>1, <1>2, <1>3, <1>4, TrailShape
<1> QED
  BY <1>3, <1>5, <1>6 DEF TrailGrows, s2

LEMMA GroundTrail ==
  ASSUME NEW s \in State, s.user_request \in Runs, NEW k, Stage("ground", s, k),
         NEW s2 \in State, s2.followup_answer = s.followup_answer,
         s2.diagnosis = s.diagnosis, s2.investigation_log = s.investigation_log,
         s2.grounding_error = None => s.grounding_error = None
  PROVE  TrailGrows("ground", s, s2)
<1>1. s.followup_answer = None /\ s.diagnosis # None /\ s.reference_docs = <<>>
  BY DEF Stage, AfterPlanning, Investigating
<1> SUFFICES ASSUME s2.grounding_error = None
             PROVE \/ _steps_for_update("ground", s2) = <<>> /\ TrailOf(s2) = TrailOf(s)
                   \/ \E step : /\ _steps_for_update("ground", s2) = <<step>>
                                /\ Adds(TrailOf(s2), TrailOf(s), step)
  BY DEF TrailGrows
<1>2. TrailOf(s) = LogSteps(s.investigation_log) \o <<diagnosis_step(s.diagnosis)>>
  BY <1>1, TrailShape DEF Adds
<1>3. CASE s2.reference_docs = <<>>
  <2>1. TrailOf(s2) = LogSteps(s.investigation_log) \o <<diagnosis_step(s.diagnosis)>>
    BY <1>1, <1>3, TrailShape DEF Adds
  <2>2. _steps_for_update("ground", s2) = <<>>
    BY <1>3 DEF _steps_for_update
  <2> QED
    BY <1>2, <2>1, <2>2
<1>4. CASE s2.reference_docs # <<>>
  <2> DEFINE step == docs_step(s2.reference_docs, None)
  <2>1. Adds(TrailOf(s2), LogSteps(s.investigation_log) \o <<diagnosis_step(s.diagnosis)>>, step)
    BY <1>1, <1>4, TrailShape
  <2>2. _steps_for_update("ground", s2) = <<step>>
    BY <1>4 DEF _steps_for_update
  <2> HIDE DEF step
  <2>3. Adds(TrailOf(s2), TrailOf(s), step)
    BY <1>2, <2>1 DEF Adds
  <2> QED
    BY <2>2, <2>3
<1> QED
  BY <1>3, <1>4

LEMMA AnswerTrail ==
  ASSUME NEW s \in State, s.user_request \in Runs, NEW k, Stage("answer_followup", s, k),
         NEW text \in ReplyTexts
  PROVE  TrailGrows("answer_followup", s, answer_followup(s, text))
<1> DEFINE s2 == answer_followup(s, text)
<1>1. /\ s.followup_answer = None /\ s.diagnosis = None /\ s.reference_docs = <<>>
      /\ s.investigation_log = <<>>
  BY DEF Stage, Untouched
<1>2. s2 \in State /\ s2.followup_answer # None
  BY AnswerFollowupType
<1>3. s2.grounding_error = s.grounding_error
  BY DEF answer_followup, State
<1> HIDE DEF s2
<1>4. TrailOf(s) = <<>>
  <2>1. LogSteps(<<>>) = <<>>
    BY DEF LogSteps
  <2> QED
    BY <1>1, <2>1, TrailShape
<1>5. TrailOf(s2) = <<followup_step>>
  BY <1>2, TrailShape
<1>6. <<>> \o <<followup_step>> = <<followup_step>>
  BY Single, SendsNothing
<1>7. _steps_for_update("answer_followup", s2) = <<followup_step>>
  BY DEF _steps_for_update
<1>8. Adds(TrailOf(s2), TrailOf(s), followup_step)
  BY <1>4, <1>5, <1>6 DEF Adds
<1>9. TrailGrows("answer_followup", s, s2)
  BY <1>3, <1>7, <1>8 DEF TrailGrows
<1> QED
  BY <1>9 DEF s2

\* Whatever node runs.
LEMMA NodeTrail ==
  ASSUME IInv, NEW r \in Runs, NodeStep(r), NEW s2, Complete(r, s2)
  PROVE  TrailGrows(node[r], state[r], s2)
<1> DEFINE s == state[r]
<1>1. Active(r) /\ state'[r] = s2
  BY NodeStepShape DEF Complete, IInv, TypeOK
<1>2. s \in State /\ s.user_request \in Runs /\ Stage(node[r], s, supersteps[r])
  BY <1>1 DEF IInv, TypeOK
<1>3. \A x : Complete(r, x) => s2 = x
  BY <1>1 DEF Complete, IInv, TypeOK
<1> HIDE DEF s
<1>4. CASE Intake(r) \/ PlanAtGuard(r) \/ Plan(r)
  <2>1. /\ SameTrail(s, s2) /\ s2.reference_docs = s.reference_docs
        /\ node[r] \in {"intake", "plan"}
    BY <1>2, <1>3, <1>4, NodesKeepTrail DEF Intake, PlanAtGuard, Plan, Ready, s
  <2> QED
    BY <1>2, <2>1, QuietNodes DEF s
<1>5. CASE Recommend(r) \/ Finalize(r)
  <2>1. /\ SameTrail(s, s2) /\ s2.reference_docs = s.reference_docs
        /\ node[r] \in {"recommend", "finalize"}
    BY <1>2, <1>3, <1>5, NodesKeepTrail DEF Recommend, Finalize, Ready, s
  <2> QED
    BY <1>2, <2>1, QuietNodes DEF s
<1>6. CASE GatherContext(r)
  BY <1>2, <1>3, <1>6, GatherTrail DEF GatherContext, Ready, s
<1>7. CASE ExecuteTool(r)
  BY <1>2, <1>3, <1>7, ToolTrail DEF ExecuteTool, Ready, s
<1>8. CASE Diagnose(r)
  BY <1>2, <1>3, <1>8, DiagnoseTrail DEF Diagnose, Ready, s
<1>9. CASE GroundSkipped(r) \/ Ground(r)
  <2>1. node[r] = "ground"
    BY <1>9 DEF GroundSkipped, Ground, Ready
  <2>2. \/ s2 = ground_without_search(s) \/ s2 = ground_failed(s)
        \/ \E chunks \in SearchAnswers : s2 = ground(s, chunks)
    BY <1>3, <1>9 DEF GroundSkipped, Ground, s
  <2>3. s2 \in State
    BY <1>2, <2>2, GraphAssumption, GroundType, GroundNothingType
  <2>4. /\ s2.followup_answer = s.followup_answer /\ s2.diagnosis = s.diagnosis
        /\ s2.investigation_log = s.investigation_log
        /\ s2.grounding_error = s.grounding_error \/ s2.grounding_error = s.user_request
    BY <1>2, <2>2 DEF ground_without_search, ground_failed, ground, State
  <2>5. s.user_request # None
    BY <1>2, NoneAssumption
  <2> QED
    BY <1>2, <2>1, <2>3, <2>4, <2>5, GroundTrail DEF s
<1>10. CASE AnswerFollowup(r)
  BY <1>2, <1>3, <1>10, AnswerTrail DEF AnswerFollowup, Ready, s
<1> QED
  BY <1>4, <1>5, <1>6, <1>7, <1>8, <1>9, <1>10 DEF NodeStep

\* What is said so far after one more event that says nothing.
LEMMA SaysNothing ==
  ASSUME NEW es, IsSequence(es), NEW x, x.event # "token", NEW longer, Adds(longer, es, x)
  PROVE  /\ Quiet(es) => Quiet(longer)
         /\ \A text : Spoke(es, text) => Spoke(longer, text)
<1>1. /\ Len(es) \in Nat /\ DOMAIN es = 1..Len(es) /\ DOMAIN longer = 1..(Len(es) + 1)
      /\ \A i \in 1..Len(es) : longer[i] = es[i]
      /\ longer[Len(es) + 1] = x
  BY Longer
<1>2. 1..(Len(es) + 1) = (1..Len(es)) \cup {Len(es) + 1}
  BY <1>1
<1> QED
  BY <1>1, <1>2 DEF Quiet, Spoke

\* The events of a run after a node: the steps are its trail, nothing is said.
LEMMA NodeSends ==
  ASSUME ChatInv, NEW r \in Runs, NodeUpdate(r), NEW s2, Complete(r, s2),
         state[r].grounding_error = None => Streamed(TrailOf(state[r]), events[r])
  PROVE  /\ s2.grounding_error = None => Streamed(TrailOf(s2), events'[r])
         /\ Quiet(events[r]) => Quiet(events'[r])
         /\ \A text : Spoke(events[r], text) => Spoke(events'[r], text)
         /\ \A q \in Runs \ {r} : events'[q] = events[q]
<1> DEFINE s == state[r]
           es == events[r]
           steps == _steps_for_update(node[r], s2)
           sent == [i \in DOMAIN steps |-> Shows(steps[i])]
<1>1. /\ TrailGrows(node[r], s, s2) /\ s \in State
      /\ state'[r] = s2
  BY NodeTrail, NodeStepShape DEF NodeUpdate, ChatInv, IInv, TypeOK, Complete
<1>2. events' = [q \in Runs |-> IF q = r THEN es \o sent ELSE events[q]]
  BY <1>1 DEF NodeUpdate, Send, ChatInv
<1>3. IsSequence(es) /\ IsSequence(TrailOf(s))
  BY <1>1, TrailShape DEF ChatInv, StreamOK
<1>4. steps = <<>> \/ \E step : steps = <<step>>
  BY DEF _steps_for_update
<1> HIDE DEF steps
<1>5. CASE steps = <<>>
  <2>1. sent = <<>>
    BY <1>5
  <2>2. events'[r] = es
    BY <1>2, <1>3, <2>1, SendsNothing
  <2>3. \A step : <<>> # <<step>>
    OBVIOUS
  <2> QED
    BY <1>1, <1>2, <1>5, <2>2, <2>3 DEF TrailGrows, steps
<1>6. ASSUME NEW step, steps = <<step>>
      PROVE  /\ s2.grounding_error = None => Streamed(TrailOf(s2), events'[r])
             /\ Quiet(es) => Quiet(events'[r])
             /\ \A text : Spoke(es, text) => Spoke(events'[r], text)
  <2> DEFINE e == Shows(step)
  <2>1. sent = <<e>>
    BY <1>6
  <2>2. /\ e.event = "step" /\ e.step = step /\ e.event # "token"
    BY DEF Shows
  <2>3. Adds(events'[r], es, e)
    BY <1>2, <2>1 DEF Adds
  <2> HIDE DEF e, sent
  <2>4. ASSUME s2.grounding_error = None PROVE Streamed(TrailOf(s2), events'[r])
    <3>1. /\ s.grounding_error = None
          /\ \E x : steps = <<x>> /\ Adds(TrailOf(s2), TrailOf(s), x)
      BY <1>1, <1>6, <2>4 DEF TrailGrows, steps
    <3>2. Adds(TrailOf(s2), TrailOf(s), e.step)
      BY <1>6, <2>2, <3>1
    <3> QED
      BY <1>3, <2>2, <2>3, <3>1, <3>2, StreamedStep
  <2> QED
    BY <1>3, <2>2, <2>3, <2>4, SaysNothing
<1> QED
  BY <1>2, <1>4, <1>5, <1>6

\* A prose node's text is what was streamed, and it is what finalize replies with.
LEMMA ProseSaid ==
  ASSUME IInv, NEW r \in Runs, NodeUpdate(r), node[r] \in PROSE_NODES,
         NEW s2, Complete(r, s2)
  PROVE  Spoke(events[r], ReplyText(s2).val)
<1> DEFINE s == state[r]
<1>1. Active(r) /\ state'[r] = s2
  BY NodeStepShape DEF Complete, IInv, TypeOK, NodeUpdate
<1>2. s \in State /\ s.user_request \in Runs /\ Stage(node[r], s, supersteps[r])
  BY <1>1 DEF IInv, TypeOK
<1>3. \A x : Complete(r, x) => s2 = x
  BY <1>1 DEF Complete, IInv, TypeOK
<1>4. NodeStep(r) /\ SaysWhatItStreamed(r)
  BY DEF NodeUpdate
<1> HIDE DEF s
<1>5. CASE node[r] = "recommend"
  <2>1. Recommend(r)
    BY <1>4, <1>5 DEF NodeStep, Intake, GatherContext, PlanAtGuard, Plan, ExecuteTool,
       Diagnose, GroundSkipped, Ground, AnswerFollowup, Finalize, Ready
  <2>2. PICK text \in ReplyTexts : s2 = recommend(s, text)
    BY <1>3, <2>1 DEF Recommend, s
  <2>3. s2.recommendation = Tag(s.user_request, text) /\ s2.followup_answer = None
    BY <1>2, <1>5, <2>2 DEF recommend, State, Stage, AfterPlanning, Investigating
  <2>4. Tag(s.user_request, text) # None
    BY <1>2, NoneAssumption DEF Tag, Tagged
  <2>5. ReplyText(s2) = s2.recommendation
    BY <2>3, <2>4 DEF ReplyText
  <2> QED
    BY <1>1, <1>4, <1>5, <2>5 DEF SaysWhatItStreamed, Told, Spoke
<1>6. CASE node[r] = "answer_followup"
  <2>1. AnswerFollowup(r)
    BY <1>4, <1>6 DEF NodeStep, Intake, GatherContext, PlanAtGuard, Plan, ExecuteTool,
       Diagnose, GroundSkipped, Ground, Recommend, Finalize, Ready
  <2>2. PICK text \in ReplyTexts : s2 = answer_followup(s, text)
    BY <1>3, <2>1 DEF AnswerFollowup, s
  <2>3. s2.followup_answer # None
    BY <1>2, <2>2, AnswerFollowupType
  <2>4. ReplyText(s2).val = s2.followup_answer.val
    BY <2>3 DEF ReplyText, Tag
  <2> QED
    BY <1>1, <1>4, <1>6, <2>4 DEF SaysWhatItStreamed, Told, Spoke
<1> QED
  BY <1>5, <1>6 DEF PROSE_NODES

LEMMA NodeAtWork ==
  ASSUME ReloadInv, NEW r \in Runs, NodeUpdate(r)
  PROVE  \E s2 : /\ Complete(r, s2) /\ \A q \in Runs \ {r} : events'[q] = events[q]
                 /\ \/ GoesOn(r, s2) /\ AtWorkOK(Successor(node[r], s2), s2, events'[r])
                    \/ /\ Ends(r, s2) /\ s2.grounding_error = state[r].grounding_error
                       /\ FiledIn(Archived(state[r]), s2, events'[r])
<1> DEFINE s == state[r]
           es2 == events'[r]
<1>0. ChatInv /\ IInv /\ NodeStep(r)
  BY DEF ReloadInv, ChatInv, NodeUpdate
<1>1. PICK s2 : Complete(r, s2) /\ (Ends(r, s2) \/ GoesOn(r, s2))
  BY <1>0, NodeStepShape
<1>2. Active(r) /\ state'[r] = s2 /\ s \in State /\ s2 \in State
  BY <1>0, <1>1, NodeStepShape, NextKeeps DEF Complete, IInv, TypeOK, Next
<1>3. /\ s.grounding_error = None => Streamed(TrailOf(s), events[r])
      /\ node[r] \notin PROSE_NODES \cup {"finalize"} => Quiet(events[r])
      /\ node[r] = "finalize" => Spoke(events[r], ReplyText(s).val)
  BY <1>2 DEF ReloadInv, AtWorkOK, Active
<1>4. /\ s2.grounding_error = None => Streamed(TrailOf(s2), es2)
      /\ Quiet(events[r]) => Quiet(es2)
      /\ \A text : Spoke(events[r], text) => Spoke(es2, text)
      /\ \A q \in Runs \ {r} : events'[q] = events[q]
  BY <1>0, <1>1, <1>3, NodeSends
<1> HIDE DEF s, es2
<1>5. CASE GoesOn(r, s2)
  <2> DEFINE n2 == Successor(node[r], s2)
  <2>1. node[r] \in Nodes
    BY <1>2 DEF Active
  <2>2. CASE node[r] \in PROSE_NODES
    <3>1. n2 = "finalize"
      BY <2>2 DEF Successor, PROSE_NODES
    <3>2. Spoke(es2, ReplyText(s2).val)
      BY <1>0, <1>1, <1>4, <2>2, ProseSaid
    <3>3. AtWorkOK(n2, s2, es2)
      BY <1>4, <3>1, <3>2 DEF AtWorkOK
    <3> QED
      BY <1>1, <1>4, <1>5, <3>3 DEF es2
  <2>3. CASE node[r] \notin PROSE_NODES
    <3>1. node[r] # "finalize"
      BY <1>5 DEF GoesOn, Successor, Nodes, ModelNodes
    <3>2. Quiet(es2)
      BY <1>3, <1>4, <2>3, <3>1
    <3>3. AtWorkOK(n2, s2, es2)
      BY <1>4, <3>2 DEF AtWorkOK, Quiet, Spoke
    <3> QED
      BY <1>1, <1>4, <1>5, <3>3 DEF es2
  <2> QED
    BY <2>2, <2>3
<1>6. CASE Ends(r, s2)
  <2> DEFINE turn == Archived(s)
  <2>1. s2 = finalize(s)
    <3>1. Finalize(r)
      BY <1>0, <1>6 DEF Ends, NodeStep, Intake, GatherContext, PlanAtGuard, Plan,
         ExecuteTool, Diagnose, GroundSkipped, Ground, Recommend, AnswerFollowup, Ready
    <3> QED
      BY <1>0, <1>2, <3>1 DEF Finalize, Complete, IInv, TypeOK, s
  <2>2. /\ s2.grounding_error = s.grounding_error /\ TrailOf(s2) = turn_trail(turn)
        /\ turn.reply = ReplyText(s)
    <3>1. SameTrail(s, s2) /\ s2.reference_docs = s.reference_docs
      BY <1>2, <2>1, NodesKeepTrail
    <3> QED
      BY <3>1 DEF TrailOf, turn_trail, Archived, TurnRouteOf, SameTrail
  <2>3. s2.turns # <<>> /\ turn = s2.turns[Len(s2.turns)]
    <3>1. /\ s2.turns = Append(s.turns, turn) /\ s.turns \in Seq(TurnRecord)
          /\ s2.turns \in Seq(TurnRecord)
      BY <1>2, <1>6 DEF Ends, State, s
    <3> HIDE DEF turn
    <3> QED
      BY <3>1
  <2>4. Spoke(es2, turn.reply.val)
    BY <1>3, <1>4, <1>6, <2>2 DEF Ends
  <2> HIDE DEF turn
  <2>5. FiledIn(turn, s2, es2)
    BY <1>4, <2>2, <2>3, <2>4 DEF FiledIn
  <2> QED
    BY <1>1, <1>4, <1>6, <2>2, <2>5 DEF turn, s, es2
<1> QED
  BY <1>1, <1>5, <1>6

-------------------------------------------------------------------------------
LEMMA ReloadInit == ChatInit => ReloadInv
<1> SUFFICES ASSUME ChatInit PROVE ReloadInv
  OBVIOUS
<1>1. ChatInv /\ FinishedInv
  BY ChatInitInv, InitFinished DEF ChatInit
<1>2. /\ node = [r \in Runs |-> "unused"] /\ events = [r \in Runs |-> <<>>]
      /\ saved = [t \in Threads |-> Defaults] /\ Defaults.turns = <<>>
      /\ "unused" \notin Nodes
  BY DEF ChatInit, Init, Defaults, Nodes, ModelNodes
<1> QED
  BY <1>1, <1>2 DEF ReloadInv, AtWorkOK, AllFiled, Active

\* What finalize is done with stays: its stream gets the reply it archived.
LEMMA FinishFiled ==
  ASSUME ChatInv, NEW r \in Runs, Finish(r), NEW turn, FiledIn(turn, state[r], events[r])
  PROVE  FiledIn(turn, state'[r], events'[r])
<1> DEFINE token == Says("token", FallbackText(state[r]))
           done == Says("done", "")
<1>1. /\ IsSequence(events[r]) /\ state' = state
      /\ turn = state[r].turns[Len(state[r].turns)]
  BY DEF Finish, vars, ChatInv, StreamOK, FiledIn
<1>2. /\ token.event # "step" /\ done.event # "step" /\ done.event # "token"
      /\ token.text = FallbackText(state[r])
  BY DEF Says
<1>3. turn.reply.val # "" => token.text = turn.reply.val
  BY <1>1, <1>2 DEF FallbackText
<1>4. IF streamed_reply(r) THEN Before(r) = events[r] ELSE Adds(Before(r), events[r], token)
  BY DEF Before, Adds
<1>5. Adds(events'[r], Before(r), done)
  BY FinishSends DEF Adds
<1>6. streamed_reply(r) \/ Quiet(events[r])
  BY DEF streamed_reply, Told, Quiet
<1> HIDE DEF token, done
<1>7. /\ IsSequence(Before(r))
      /\ \A trail : Streamed(trail, events[r]) => Streamed(trail, Before(r))
  BY <1>1, <1>2, <1>4, Longer, StreamedOther
<1>8. turn.reply.val # "" => Spoke(Before(r), turn.reply.val)
  <2>1. CASE streamed_reply(r)
    BY <1>4, <2>1 DEF FiledIn
  <2>2. CASE ~streamed_reply(r)
    <3>1. /\ Len(events[r]) \in Nat
          /\ DOMAIN events[r] = 1..Len(events[r])
          /\ DOMAIN Before(r) = 1..(Len(events[r]) + 1)
          /\ \A i \in 1..Len(events[r]) : Before(r)[i] = events[r][i]
          /\ Before(r)[Len(events[r]) + 1] = token
      BY <1>1, <1>4, <2>2, Longer
    <3>2. 1..(Len(events[r]) + 1) = (1..Len(events[r])) \cup {Len(events[r]) + 1}
      BY <3>1
    <3> QED
      BY <1>3, <1>6, <2>2, <3>1, <3>2 DEF Quiet, Spoke
  <2> QED
    BY <2>1, <2>2
<1>9. \A trail : Streamed(trail, Before(r)) => Streamed(trail, events'[r])
  BY <1>2, <1>5, <1>7, StreamedOther
<1>10. \A text : Spoke(Before(r), text) => Spoke(events'[r], text)
  BY <1>2, <1>5, <1>7, SaysNothing
<1>11. /\ \A trail : Streamed(trail, events[r]) => Streamed(trail, events'[r])
       /\ turn.reply.val # "" => Spoke(events'[r], turn.reply.val)
  BY <1>7, <1>8, <1>9, <1>10
<1> QED
  BY <1>1, <1>11 DEF FiledIn

LEMMA DoneFiled ==
  ASSUME ReloadInv, ChatNext, NEW q \in Runs, node[q] = "done",
         NEW turn, FiledIn(turn, state[q], events[q])
  PROVE  FiledIn(turn, state'[q], events'[q])
<1>1. ~Active(q) /\ node[q] # "unused"
  BY DEF Active, Nodes, ModelNodes
<1>2. state \in [Runs -> State] /\ events = [r \in Runs |-> events[r]] /\ ChatInv /\ IInv
  BY DEF ReloadInv, ChatInv, IInv, TypeOK
<1>3. CASE state'[q] = state[q] /\ events'[q] = events[q]
  BY <1>3
<1>4. CASE \E r \in Runs, t \in Threads : Chat(r, t)
  BY <1>1, <1>2, <1>3, <1>4 DEF Chat, StartTurn
<1>5. CASE \E r \in Runs : Token(r)
  <2>1. PICK r \in Runs : Token(r)
    BY <1>5
  <2>2. q # r /\ state' = state
    BY <1>1, <2>1 DEF Token, Active, Ready, PROSE_NODES, Nodes, ModelNodes, vars
  <2>3. events'[q] = events[q]
    BY <1>2, <2>1, <2>2 DEF Token, Send
  <2> QED
    BY <1>3, <2>2, <2>3
<1>6. CASE \E r \in Runs : NodeUpdate(r)
  <2>1. PICK r \in Runs : NodeUpdate(r)
    BY <1>6
  <2>2. Active(r) /\ \E s2 : Complete(r, s2)
    BY <1>2, <2>1, NodeStepShape DEF NodeUpdate
  <2>3. state'[q] = state[q] /\ events'[q] = events[q]
    BY <1>1, <1>2, <2>1, <2>2 DEF Complete, NodeUpdate, Send
  <2> QED
    BY <1>3, <2>3
<1>7. CASE \E r \in Runs : Finish(r)
  <2>1. PICK r \in Runs : Finish(r)
    BY <1>7
  <2>2. CASE q = r
    BY <1>2, <2>1, <2>2, FinishFiled
  <2>3. CASE q # r
    BY <1>2, <1>3, <2>1, <2>3 DEF Finish, Send, vars
  <2> QED
    BY <2>2, <2>3
<1>8. CASE \E r \in Runs : Fail(r)
  <2>1. PICK r \in Runs : Fail(r)
    BY <1>8
  <2> DEFINE error == Says("error", "")
  <2>2. state' = state
    BY <1>2, <2>1, FailShape
  <2>3. events'[q] = IF q = r THEN events[q] \o <<error>> ELSE events[q]
    BY <1>2, <2>1, FailShape
  <2>4. error.event # "step" /\ error.event # "token"
    BY DEF Says
  <2> HIDE DEF error
  <2>5. CASE q = r
    <3>1. IsSequence(events[q]) /\ Adds(events'[q], events[q], error)
      BY <1>2, <2>3, <2>5 DEF ChatInv, StreamOK, Adds
    <3>2. /\ \A trail : Streamed(trail, events[q]) => Streamed(trail, events'[q])
          /\ \A text : Spoke(events[q], text) => Spoke(events'[q], text)
      BY <2>4, <3>1, StreamedOther, SaysNothing
    <3> QED
      BY <2>2, <3>2 DEF FiledIn
  <2>6. CASE q # r
    BY <1>3, <2>2, <2>3, <2>6
  <2> QED
    BY <2>5, <2>6
<1>9. CASE Crash \/ \E r \in Runs : GoAway(r)
  BY <1>3, <1>9 DEF Crash, Restart, GoAway, Disconnect, End, vars
<1> QED
  BY <1>4, <1>5, <1>6, <1>7, <1>8, <1>9 DEF ChatNext

\* AllFiled of turns as they are, in the state that follows.
FiledNext(turns) ==
  \A i \in DOMAIN turns :
    FiledIn(turns[i], state'[turns[i].user_request], events'[turns[i].user_request])

LEMMA FiledStays ==
  ASSUME ReloadInv, ChatNext, NEW t \in Threads, NEW turns \in Seq(TurnRecord),
         FinishedIn(t, turns), AllFiled(turns)
  PROVE  FiledNext(turns)
<1>1. \A i \in DOMAIN turns : turns[i].user_request \in Runs
  <2>1. \A i \in DOMAIN turns : turns[i] \in TurnRecord
    OBVIOUS
  <2> QED
    BY <2>1 DEF TurnRecord
<1> QED
  BY <1>1, DoneFiled DEF FiledNext, AllFiled, FinishedIn

LEMMA OthersAtWork ==
  ASSUME ReloadInv, NEW q \in Runs, state'[q] = state[q], events'[q] = events[q],
         node'[q] \in Nodes \cup {"unused"} => node'[q] = node[q]
  PROVE  /\ AtWorkOK(node'[q], state'[q], events'[q])
         /\ node'[q] = "unused" => events'[q] = <<>>
BY DEF ReloadInv, AtWorkOK

LEMMA ReloadKeeps == ReloadInv /\ [ChatNext]_chatvars => ReloadInv'
<1> SUFFICES ASSUME ReloadInv, [ChatNext]_chatvars PROVE ReloadInv'
  OBVIOUS
<1>0. CASE UNCHANGED chatvars
  <2>1. ChatInv' /\ FinishedInv'
    BY <1>0, ChatKeeps, NextFinished DEF ReloadInv, chatvars, vars
  <2> QED
    BY <1>0, <2>1 DEF ReloadInv, chatvars, AllFiled, Active
<1> SUFFICES ASSUME ChatNext PROVE ReloadInv'
  BY <1>0
<1>1. ChatInv' /\ FinishedInv'
  BY ChatKeeps, NextFinished, ChatIsGraph DEF ReloadInv
<1>2. /\ IInv /\ IInv' /\ saved \in [Threads -> State] /\ state \in [Runs -> State]
      /\ node \in [Runs -> Nodes \cup Ended \cup {"unused"}]
      /\ events = [r \in Runs |-> events[r]] /\ ChatInv
      /\ {"unused", "done", "failed", "cancelled", "lost"} \cap Nodes = {}
  BY <1>1 DEF ReloadInv, ChatInv, IInv, TypeOK, Nodes, ModelNodes
<1>3. /\ \A t \in Threads : FiledNext(saved[t].turns)
      /\ \A r \in Runs : Active(r) => FiledNext(state[r].turns)
  <2>1. /\ \A t \in Threads : /\ saved[t].turns \in Seq(TurnRecord)
                              /\ FinishedIn(t, saved[t].turns)
        /\ \A r \in Runs : state[r].turns \in Seq(TurnRecord)
        /\ \A r \in Runs : Active(r) => /\ thread[r] \in Threads
                                        /\ FinishedIn(thread[r], state[r].turns)
    BY <1>2 DEF ReloadInv, FinishedInv, IInv, State
  <2> QED
    BY <2>1, FiledStays DEF ReloadInv
<1>4. SUFFICES /\ \A r \in Runs : /\ AtWorkOK(node'[r], state'[r], events'[r])
                                  /\ node'[r] = "unused" => events'[r] = <<>>
               /\ \A t \in Threads : FiledNext(saved'[t].turns)
               /\ \A r \in Runs : node'[r] \in Nodes => FiledNext(state'[r].turns)
  BY <1>1 DEF ReloadInv, FiledNext, AllFiled, Active
<1>5. CASE \E r \in Runs, t \in Threads : Chat(r, t)
  <2>1. PICK r \in Runs, t \in Threads : Chat(r, t)
    BY <1>5
  <2> DEFINE s2 == NewTurn(saved[t], r)
  <2>2. /\ s2.turns = saved[t].turns /\ s2.investigation_log = <<>>
        /\ s2.diagnosis = None /\ s2.reference_docs = <<>> /\ s2.followup_answer = None
        /\ s2 \in State
    BY <1>2, NewTurnType DEF NewTurn, Defaults
  <2>3. TrailOf(s2) = <<>>
    <3>1. LogSteps(<<>>) = <<>>
      BY DEF LogSteps
    <3> HIDE DEF s2
    <3> QED
      BY <2>2, <3>1, TrailShape
  <2> HIDE DEF s2
  <2>4. /\ state' = [state EXCEPT ![r] = s2] /\ saved' = [saved EXCEPT ![t] = s2]
        /\ node' = [node EXCEPT ![r] = "intake"] /\ events' = events /\ events[r] = <<>>
    BY <2>1 DEF Chat, StartTurn, ReloadInv, s2
  <2>5. AtWorkOK("intake", s2, <<>>)
    <3>1. Streamed(<<>>, <<>>)
      BY FS_EmptySet DEF Streamed
    <3> QED
      BY <2>3, <3>1 DEF AtWorkOK, Quiet, Spoke
  <2>6. \A q \in Runs \ {r} : /\ state'[q] = state[q] /\ events'[q] = events[q]
                              /\ node'[q] = node[q]
    BY <1>2, <2>4
  <2>7. \A q \in Runs \ {r} : /\ AtWorkOK(node'[q], state'[q], events'[q])
                              /\ node'[q] = "unused" => events'[q] = <<>>
    BY <2>6, OthersAtWork
  <2>8. state'[r] = s2 /\ node'[r] = "intake" /\ saved'[t] = s2 /\ events'[r] = <<>>
        /\ \A u \in Threads \ {t} : saved'[u] = saved[u]
    BY <1>2, <2>4
  <2> QED
    BY <1>3, <2>2, <2>5, <2>6, <2>7, <2>8 DEF Active
<1>6. CASE \E r \in Runs : Token(r)
  <2>1. PICK r \in Runs : Token(r)
    BY <1>6
  <2>2. UNCHANGED <<saved, state, node>> /\ node[r] \in PROSE_NODES /\ Active(r)
    BY <2>1 DEF Token, vars, Ready, Active, PROSE_NODES, Nodes, ModelNodes
  <2>3. PICK text : events' = [q \in Runs |-> IF q = r THEN events[r] \o <<Says("token", text)>>
                                              ELSE events[q]]
    BY <1>2, <2>1 DEF Token, Send
  <2> DEFINE e == Says("token", text)
  <2>4. e.event # "step" /\ Adds(events'[r], events[r], e) /\ IsSequence(events[r])
    BY <1>2, <2>3 DEF Says, Adds, ChatInv, StreamOK
  <2> HIDE DEF e
  <2>5. AtWorkOK(node'[r], state'[r], events'[r])
    <3>1. node[r] \in Nodes /\ node[r] # "finalize"
      BY <2>2 DEF PROSE_NODES, Nodes, ModelNodes
    <3>2. state[r].grounding_error = None => Streamed(TrailOf(state[r]), events'[r])
      BY <2>4, <3>1, StreamedOther DEF ReloadInv, AtWorkOK
    <3> QED
      BY <2>2, <3>1, <3>2 DEF AtWorkOK
  <2>6. \A q \in Runs \ {r} : /\ AtWorkOK(node'[q], state'[q], events'[q])
                              /\ node'[q] = "unused" => events'[q] = <<>>
    BY <2>2, <2>3, OthersAtWork
  <2> QED
    BY <1>2, <1>3, <2>2, <2>5, <2>6 DEF Active
<1>7. CASE \E r \in Runs : NodeUpdate(r)
  <2>1. PICK r \in Runs : NodeUpdate(r)
    BY <1>7
  <2>2. PICK s2 : /\ Complete(r, s2) /\ \A q \in Runs \ {r} : events'[q] = events[q]
                  /\ \/ GoesOn(r, s2) /\ AtWorkOK(Successor(node[r], s2), s2, events'[r])
                     \/ /\ Ends(r, s2) /\ s2.grounding_error = state[r].grounding_error
                        /\ FiledIn(Archived(state[r]), s2, events'[r])
    BY <2>1, NodeAtWork
  <2>3. Active(r) /\ thread[r] \in Threads /\ state[r].user_request = r
    BY <1>2, <2>1, NodeStepShape DEF NodeUpdate, IInv
  <2>4. /\ state'[r] = s2 /\ saved'[thread[r]] = s2 /\ node'[r] = Successor(node[r], s2)
        /\ \A u \in Threads \ {thread[r]} : saved'[u] = saved[u]
        /\ \A q \in Runs \ {r} : state'[q] = state[q] /\ node'[q] = node[q]
    BY <1>2, <2>2, <2>3 DEF Complete
  <2>5. \A q \in Runs \ {r} : /\ AtWorkOK(node'[q], state'[q], events'[q])
                              /\ node'[q] = "unused" => events'[q] = <<>>
    BY <2>2, <2>4, OthersAtWork
  <2>6. CASE GoesOn(r, s2) /\ AtWorkOK(Successor(node[r], s2), s2, events'[r])
    <3>1. s2.turns = state[r].turns /\ node'[r] \in Nodes
      BY <2>4, <2>6 DEF GoesOn
    <3> QED
      BY <1>2, <1>3, <2>3, <2>4, <2>5, <2>6, <3>1 DEF Active
  <2>7. CASE Ends(r, s2) /\ FiledIn(Archived(state[r]), s2, events'[r])
    <3> DEFINE turn == Archived(state[r])
               turns == state[r].turns
               longer == Append(turns, turn)
    <3>1. s2.turns = longer /\ node'[r] = "done"
      BY <2>4, <2>7 DEF Ends
    <3>2. turn.user_request = r
      BY <2>3 DEF Archived
    <3>3. turns \in Seq(TurnRecord)
      BY <1>2 DEF State
    <3>4. FiledNext(turns) /\ FiledIn(turn, state'[r], events'[r])
      BY <1>3, <2>3, <2>4, <2>7
    <3> HIDE DEF turn, turns
    <3>5. \A i \in DOMAIN longer : (i \in DOMAIN turns /\ longer[i] = turns[i])
                                   \/ longer[i] = turn
      BY <3>3
    <3> HIDE DEF longer
    <3>6. FiledNext(longer)
      BY <3>2, <3>4, <3>5 DEF FiledNext
    <3>7. AtWorkOK(node'[r], state'[r], events'[r]) /\ node'[r] # "unused"
      BY <1>2, <3>1 DEF AtWorkOK
    <3> QED
      BY <1>2, <1>3, <2>3, <2>4, <2>5, <3>1, <3>6, <3>7 DEF Active
  <2> QED
    BY <2>2, <2>6, <2>7
<1>8. CASE \E r \in Runs : Finish(r)
  <2>1. PICK r \in Runs : Finish(r)
    BY <1>8
  <2>2. /\ UNCHANGED <<saved, state, node>> /\ node[r] = "done"
        /\ \A q \in Runs \ {r} : events'[q] = events[q]
    BY <1>2, <2>1 DEF Finish, vars, Send
  <2>3. AtWorkOK(node'[r], state'[r], events'[r]) /\ node'[r] # "unused"
    BY <1>2, <2>2 DEF AtWorkOK
  <2>4. \A q \in Runs \ {r} : /\ AtWorkOK(node'[q], state'[q], events'[q])
                              /\ node'[q] = "unused" => events'[q] = <<>>
    BY <2>2, OthersAtWork
  <2> QED
    BY <1>2, <1>3, <2>2, <2>3, <2>4 DEF Active
<1>9. CASE Crash \/ \E r \in Runs : Fail(r) \/ GoAway(r)
  <2>1. UNCHANGED <<saved, state>>
    BY <1>9 DEF Crash, Restart, Fail, ModelError, RecursionError, GoAway, Disconnect, End, vars
  <2>2. \A q \in Runs : node'[q] \in Nodes \cup {"unused"}
          => node'[q] = node[q] /\ events'[q] = events[q]
    <3>1. CASE Crash \/ \E r \in Runs : GoAway(r)
      BY <1>2, <3>1 DEF Crash, Restart, GoAway, Disconnect, End, vars, Active
    <3>2. ASSUME NEW r \in Runs, Fail(r), NEW q \in Runs,
                 node'[q] \in Nodes \cup {"unused"}
          PROVE  node'[q] = node[q] /\ events'[q] = events[q]
      <4>1. q # r
        BY <1>2, <3>2, FailShape DEF RaisesAtEnd, vars
      <4> QED
        BY <1>2, <3>2, <4>1, FailShape DEF vars
    <3> QED
      BY <1>9, <3>1, <3>2
  <2>3. ASSUME NEW q \in Runs
        PROVE  /\ AtWorkOK(node'[q], state'[q], events'[q])
               /\ node'[q] = "unused" => events'[q] = <<>>
    <3>1. CASE node'[q] \in Nodes \cup {"unused"}
      BY <2>1, <2>2, <3>1, OthersAtWork
    <3>2. CASE node'[q] \notin Nodes \cup {"unused"}
      BY <3>2 DEF AtWorkOK
    <3> QED
      BY <3>1, <3>2
  <2>4. \A q \in Runs : node'[q] \in Nodes => Active(q)
    BY <2>2 DEF Active
  <2> QED
    BY <1>3, <2>1, <2>3, <2>4
<1> QED
  BY <1>5, <1>6, <1>7, <1>8, <1>9 DEF ChatNext

LEMMA ReloadInvariance == ChatSpec => []ReloadInv
BY ReloadInit, ReloadKeeps, PTL DEF ChatSpec

\* What is filed in a thread, as GET /api/threads shows it.
LEMMA Reloaded ==
  ASSUME ReloadInv, NEW t \in Threads, NEW i \in DOMAIN get_thread(t)
  PROVE  LET turn == saved[t].turns[i]
             r == turn.user_request
         IN /\ get_thread(t)[i].user = r /\ get_thread(t)[i].content = turn.reply.val
            /\ get_thread(t)[i].trail = turn_trail(turn)
            /\ r \in Runs /\ node[r] = "done" /\ FiledIn(turn, state[r], events[r])
<1>1. i \in DOMAIN saved[t].turns /\ saved[t].turns \in Seq(TurnRecord)
  BY DEF get_thread, ReloadInv, ChatInv, IInv, TypeOK, State
<1>2. saved[t].turns[i] \in TurnRecord
  BY <1>1
<1> QED
  BY <1>1, <1>2 DEF get_thread, ReloadInv, FinishedInv, FinishedIn, AllFiled, TurnRecord

\* A reloaded answer has the steps its client watched, in the same order, unless
\* the turn's docs lookup failed.
THEOREM TrailsReload == ChatSpec => []TrailReloads
<1>1. ReloadInv => TrailReloads
  BY Reloaded DEF TrailReloads, Reloads, FiledIn
<1> QED
  BY <1>1, ReloadInvariance, PTL

\* A reloaded answer has the reply its client was shown, and that client was shown
\* one, unless a prose node answered with no text at all or the client was told of
\* an error.
THEOREM RepliesReload == ChatSpec => []ReplyReloads
<1>1. ASSUME ReloadInv, NEW t \in Threads, NEW i \in DOMAIN get_thread(t),
             stream[get_thread(t)[i].user] = "ended", get_thread(t)[i].content # "",
             Told(get_thread(t)[i].user, {"error"}) = {}
      PROVE  Shown(get_thread(t)[i].content, get_thread(t)[i].user)
  <2> DEFINE answer == get_thread(t)[i]
             turn == saved[t].turns[i]
             r == turn.user_request
  <2>1. /\ answer.user = r /\ answer.content = turn.reply.val
        /\ r \in Runs /\ node[r] = "done" /\ FiledIn(turn, state[r], events[r])
    BY <1>1, Reloaded
  <2> HIDE DEF answer, turn
  <2>2. StreamOK(r) /\ stream[r] = "ended" /\ Told(r, {"error"}) = {}
    BY <1>1, <2>1 DEF ReloadInv, ChatInv, answer
  <2>3. streamed_reply(r)
    <3>1. Told(r, {"done", "error"}) # {} /\ Told(r, {"error"}) = {}
      BY <2>1, <2>2 DEF StreamOK
    <3>2. Told(r, {"done"}) # {}
      BY <3>1 DEF Told
    <3> QED
      BY <2>2, <3>2 DEF StreamOK, streamed_reply
  <2>4. \A j \in Told(r, {"token"}) : events[r][j].text = answer.content
    BY <1>1, <2>1 DEF FiledIn, Spoke, Told, answer
  <2> QED
    BY <2>1, <2>3, <2>4 DEF Shown, answer
<1>2. ReloadInv => ReplyReloads
  BY <1>1 DEF ReplyReloads, Reloads
<1> QED
  BY <1>2, ReloadInvariance, PTL

-------------------------------------------------------------------------------
(***************************************************************************)
(* The MCP tool                                                            *)
(***************************************************************************)
\* No call the planner asked for goes by the name of the sweep.
WellNamed(records) ==
  \A i \in DOMAIN records :
    records[i].rationale # None => records[i].tool_name # INITIAL_SWEEP

\* A call's thread is its own: nothing is on it before its one turn.
Alone(r) ==
  /\ Active(r) => state[r].turns = <<>> /\ WellNamed(state[r].investigation_log)
  /\ node[r] = "done" =>
       \E turn : /\ state[r].turns = <<turn>> /\ turn.user_request = r
                 /\ WellNamed(turn.investigation_log)

ResultOK(r) ==
  \/ result[r] = None
  \/ result[r] = Raised
  \/ /\ node[r] = "done"
     /\ result[r] = _to_result(state[r].turns[Len(state[r].turns)])

\* A call at work has reported every node it is through with, and its archived
\* investigation all but finalize.
Counted(r) ==
  /\ progress[r] \in Seq([step : Nat, node : Nodes])
  /\ node[r] = "unused" => progress[r] = <<>>
  /\ Active(r) => /\ Len(progress[r]) = supersteps[r]
                  /\ Cardinality(Reported(r, "execute_tool")) = state[r].step_count
  /\ node[r] = "done" =>
       \A turn : state[r].turns = <<turn>> /\ turn.route = "investigate" =>
         /\ Len(progress[r]) = 2 * (Len(turn.investigation_log) - 1) + 6
         /\ Cardinality(Reported(r, "execute_tool")) = Len(turn.investigation_log) - 1

McpInv ==
  /\ IInv
  /\ \A t \in Threads : Fresh(t) => saved[t].turns = <<>>
  /\ \A r \in Runs : node[r] = "unused" => thread[r] = None
  /\ \A r \in Runs : Alone(r)
  /\ result = [r \in Runs |-> result[r]]
  /\ \A r \in Runs : ResultOK(r)

-------------------------------------------------------------------------------
(***************************************************************************)
(* What a node does to the log                                             *)
(***************************************************************************)
LEMMA NamedGrows ==
  ASSUME NEW records \in Seq(ToolCallRecord), WellNamed(records),
         NEW record \in ToolCallRecord,
         record.rationale # None => record.tool_name # INITIAL_SWEEP
  PROVE  WellNamed(Append(records, record))
<1>1. /\ Len(records) \in Nat /\ DOMAIN records = 1..Len(records)
      /\ DOMAIN Append(records, record) = 1..(Len(records) + 1)
      /\ Append(records, record)[Len(records) + 1] = record
      /\ \A i \in 1..Len(records) : Append(records, record)[i] = records[i]
  BY AppendFacts
<1>2. \A i \in 1..(Len(records) + 1) : i \in 1..Len(records) \/ i = Len(records) + 1
  BY <1>1
<1> QED
  BY <1>1, <1>2 DEF WellNamed

LEMMA NodesKeepLog ==
  ASSUME NEW s \in State, NEW x
  PROVE  /\ intake(s, x).investigation_log = s.investigation_log
         /\ plan_at_guard(s).investigation_log = s.investigation_log
         /\ plan(s, x).investigation_log = s.investigation_log
         /\ diagnose(s, x).investigation_log = s.investigation_log
         /\ ground_without_search(s).investigation_log = s.investigation_log
         /\ ground(s, x).investigation_log = s.investigation_log
         /\ ground_failed(s).investigation_log = s.investigation_log
         /\ recommend(s, x).investigation_log = s.investigation_log
         /\ answer_followup(s, x).investigation_log = s.investigation_log
         /\ finalize(s).investigation_log = s.investigation_log
BY DEF State, intake, plan_at_guard, plan, diagnose, ground_without_search, ground,
       ground_failed, recommend, answer_followup, finalize

LEMMA GatherNames ==
  ASSUME NEW s \in State, s.user_request \in Runs, NEW res \in ToolResults,
         WellNamed(s.investigation_log)
  PROVE  WellNamed(gather_context(s, res).investigation_log)
<1> DEFINE record == [by |-> s.user_request, tool_name |-> INITIAL_SWEEP,
                      namespace |-> ScopeNamespace(s), namespace_filled |-> FALSE,
                      result |-> res, rationale |-> None]
<1>1. record \in ToolCallRecord
  BY ScopeNamespaceType DEF ToolCallRecord, Maybe
<1>2. gather_context(s, res).investigation_log = Append(s.investigation_log, record)
  BY DEF gather_context, State
<1>3. s.investigation_log \in Seq(ToolCallRecord)
  BY DEF State
<1>4. record.rationale = None
  OBVIOUS
<1> HIDE DEF record
<1> QED
  BY <1>1, <1>2, <1>3, <1>4, NamedGrows

LEMMA ToolNamed ==
  ASSUME INITIAL_SWEEP \notin ToolNames,
         NEW s \in State, s.user_request \in Runs, s.pending_tool_call \in Tagged(ToolCall),
         NEW res \in ToolOutcomes(s.pending_tool_call.val),
         WellNamed(s.investigation_log)
  PROVE  WellNamed(execute_tool(s, res).investigation_log)
<1> DEFINE call == s.pending_tool_call.val
           filled == FillsNamespace(s, call)
           record == [by |-> s.user_request, tool_name |-> call.name,
                      namespace |-> IF filled THEN ScopeNamespace(s) ELSE call.namespace,
                      namespace_filled |-> filled, result |-> res,
                      rationale |-> s.plan_rationale]
<1>1. call.name \in ToolNames /\ record.tool_name = call.name
  BY DEF Tagged, ToolCall
<1>2. execute_tool(s, res).investigation_log = Append(s.investigation_log, record)
  BY DEF execute_tool, State
<1>3. /\ s.investigation_log \in Seq(ToolCallRecord)
      /\ execute_tool(s, res).investigation_log \in Seq(ToolCallRecord)
  BY ExecuteToolType DEF State
<1> HIDE DEF record
<1>4. record \in ToolCallRecord
  <2> DEFINE longer == Append(s.investigation_log, record)
             n == Len(s.investigation_log) + 1
  <2>1. longer \in Seq(ToolCallRecord)
    BY <1>2, <1>3
  <2>2. n \in DOMAIN longer /\ longer[n] = record
    BY <1>3
  <2> QED
    BY <2>1, <2>2
<1> QED
  BY <1>1, <1>2, <1>3, <1>4, NamedGrows

\* A node keeps the names in the log apart and the conversation as it was, until
\* finalize archives the log there is.
LEMMA NodeStepNames ==
  ASSUME INITIAL_SWEEP \notin ToolNames,
         IInv, NEW r \in Runs, NodeStep(r), WellNamed(state[r].investigation_log)
  PROVE  \E s2 : /\ Complete(r, s2) /\ (Ends(r, s2) \/ GoesOn(r, s2))
                 /\ WellNamed(s2.investigation_log)
<1> DEFINE s == state[r]
<1>1. PICK s2 : Complete(r, s2) /\ (Ends(r, s2) \/ GoesOn(r, s2))
  BY NodeStepShape
<1>2. Active(r) /\ state'[r] = s2
  BY <1>1, NodeStepShape DEF Complete, IInv, TypeOK
<1>3. s \in State /\ s.user_request \in Runs /\ Stage(node[r], s, supersteps[r])
  BY <1>2 DEF IInv, TypeOK
<1>4. \A x : Complete(r, x) => s2 = x
  BY <1>2 DEF Complete, IInv, TypeOK
<1> SUFFICES WellNamed(s2.investigation_log)
  BY <1>1
<1> HIDE DEF s
<1>5. CASE GatherContext(r)
  BY <1>3, <1>4, <1>5, GatherNames DEF GatherContext, s
<1>6. CASE ExecuteTool(r)
  <2>1. s.pending_tool_call \in Tagged(ToolCall)
    BY <1>3, <1>6 DEF ExecuteTool, Ready, Stage, State, Maybe
  <2> QED
    BY <1>3, <1>4, <1>6, <2>1, ToolNamed DEF ExecuteTool, s
<1>7. CASE s2.investigation_log = s.investigation_log
  BY <1>7 DEF s
<1>8. CASE Intake(r) \/ PlanAtGuard(r) \/ Plan(r) \/ Diagnose(r)
  BY <1>3, <1>4, <1>7, <1>8, NodesKeepLog DEF Intake, PlanAtGuard, Plan, Diagnose, s
<1>9. CASE GroundSkipped(r) \/ Ground(r)
  BY <1>3, <1>4, <1>7, <1>9, NodesKeepLog DEF GroundSkipped, Ground, s
<1>10. CASE Recommend(r) \/ AnswerFollowup(r) \/ Finalize(r)
  BY <1>3, <1>4, <1>7, <1>10, NodesKeepLog DEF Recommend, AnswerFollowup, Finalize, s
<1> QED
  BY <1>5, <1>6, <1>8, <1>9, <1>10 DEF NodeStep

-------------------------------------------------------------------------------
(***************************************************************************)
(* The invariant                                                           *)
(***************************************************************************)
LEMMA McpInitInv == McpInit => McpInv
<1> SUFFICES ASSUME McpInit PROVE McpInv
  OBVIOUS
<1>1. IInv
  BY InitIInv DEF McpInit
<1>2. /\ saved = [t \in Threads |-> Defaults] /\ Defaults.turns = <<>>
      /\ node = [r \in Runs |-> "unused"] /\ thread = [r \in Runs |-> None]
      /\ result = [r \in Runs |-> None]
  BY DEF McpInit, Init, Defaults
<1> QED
  BY <1>1, <1>2 DEF McpInv, Alone, ResultOK, Active, Nodes, ModelNodes

LEMMA Elsewhere ==
  ASSUME NEW q \in Runs, Alone(q), ResultOK(q),
         UNCHANGED <<node[q], state[q], result[q]>>
  PROVE  Alone(q)' /\ ResultOK(q)'
BY DEF Alone, ResultOK, Active

LEMMA CallStep ==
  ASSUME McpInv, NEW r \in Runs, NEW t \in Threads, run_investigation(r, t)
  PROVE  /\ \A u \in Threads : Fresh(u)' => saved'[u].turns = <<>>
         /\ \A q \in Runs : node'[q] = "unused" => thread'[q] = None
         /\ \A q \in Runs : Alone(q)' /\ ResultOK(q)'
<1> DEFINE s == NewTurn(saved[t], r)
<1>1. s.turns = <<>> /\ s.investigation_log = <<>>
  BY DEF run_investigation, McpInv, NewTurn, Defaults
<1>2. /\ node[r] = "unused" /\ node' = [node EXCEPT ![r] = "intake"]
      /\ state' = [state EXCEPT ![r] = s] /\ saved' = [saved EXCEPT ![t] = s]
      /\ thread' = [thread EXCEPT ![r] = t] /\ result' = result
  BY DEF run_investigation, StartTurn
<1>3. /\ saved \in [Threads -> State] /\ state \in [Runs -> State]
      /\ node \in [Runs -> Nodes \cup Ended \cup {"unused"}]
      /\ thread \in [Runs -> Maybe(Threads)] /\ None \notin Threads
  BY NoneAssumption DEF McpInv, IInv, TypeOK
<1> HIDE DEF s
<1>4. ASSUME NEW u \in Threads, Fresh(u)' PROVE saved'[u].turns = <<>>
  <2>1. u # t /\ Fresh(u)
    BY <1>2, <1>3, <1>4 DEF Fresh, McpInv
  <2> QED
    BY <1>2, <1>3, <2>1 DEF McpInv
<1>5. Alone(r)' /\ ResultOK(r)'
  <2>1. state'[r] = s /\ node'[r] = "intake"
    BY <1>2, <1>3
  <2>2. WellNamed(<<>>)
    BY DEF WellNamed
  <2>3. result[r] \in {None, Raised}
    BY <1>2 DEF McpInv, ResultOK
  <2> QED
    BY <1>1, <1>2, <2>1, <2>2, <2>3 DEF Alone, ResultOK
<1>6. \A q \in Runs \ {r} : Alone(q)' /\ ResultOK(q)'
  BY <1>2, <1>3, Elsewhere DEF McpInv
<1>7. \A q \in Runs : node'[q] = "unused" => thread'[q] = None
  BY <1>2, <1>3 DEF McpInv
<1> QED
  BY <1>4, <1>5, <1>6, <1>7

LEMMA NodeDoneStep ==
  ASSUME INITIAL_SWEEP \notin ToolNames, McpInv, NEW r \in Runs, NodeDone(r)
  PROVE  /\ \A u \in Threads : Fresh(u)' => saved'[u].turns = <<>>
         /\ \A q \in Runs : node'[q] = "unused" => thread'[q] = None
         /\ \A q \in Runs : Alone(q)' /\ ResultOK(q)'
<1> DEFINE s == state[r]
<1>1. /\ Active(r) /\ s.turns = <<>> /\ WellNamed(s.investigation_log)
      /\ s.user_request = r /\ thread[r] \in Threads
  BY NodeStepShape DEF NodeDone, McpInv, IInv, Alone
<1>2. PICK s2 : /\ Complete(r, s2) /\ (Ends(r, s2) \/ GoesOn(r, s2))
                /\ WellNamed(s2.investigation_log)
  BY <1>1, NodeStepNames DEF NodeDone, McpInv
<1>3. /\ saved \in [Threads -> State] /\ state \in [Runs -> State]
      /\ node \in [Runs -> Nodes \cup Ended \cup {"unused"}]
      /\ "done" \notin Nodes /\ "unused" \notin Nodes
  BY DEF McpInv, IInv, TypeOK, Nodes, ModelNodes
<1>4. /\ state' = [state EXCEPT ![r] = s2] /\ saved' = [saved EXCEPT ![thread[r]] = s2]
      /\ node' = [node EXCEPT ![r] = Successor(node[r], s2)]
      /\ thread' = thread /\ result' = result
  BY <1>2 DEF Complete, NodeDone
<1>5. ASSUME NEW u \in Threads, Fresh(u)' PROVE saved'[u].turns = <<>>
  <2>1. u # thread[r] /\ Fresh(u)
    BY <1>4, <1>5 DEF Fresh
  <2> QED
    BY <1>1, <1>3, <1>4, <2>1 DEF McpInv
<1>6. Alone(r)' /\ ResultOK(r)'
  <2>1. state'[r] = s2 /\ node'[r] = Successor(node[r], s2)
    BY <1>3, <1>4
  <2>2. result[r] \in {None, Raised}
    BY <1>1, <1>3 DEF McpInv, ResultOK, Active
  <2>3. CASE GoesOn(r, s2)
    BY <1>1, <1>2, <1>3, <1>4, <2>1, <2>2, <2>3 DEF GoesOn, Alone, ResultOK, Active
  <2>4. CASE Ends(r, s2)
    <3> DEFINE turn == Archived(s)
    <3>1. s2.turns = <<turn>>
      BY <1>1, <2>4 DEF Ends
    <3>2. turn.user_request = r /\ turn.investigation_log = s.investigation_log
      BY <1>1 DEF Archived
    <3> HIDE DEF turn
    <3> QED
      BY <1>1, <1>3, <1>4, <2>1, <2>2, <2>4, <3>1, <3>2 DEF Ends, Alone, ResultOK, Active
  <2> QED
    BY <1>2, <2>3, <2>4
<1>7. \A q \in Runs \ {r} : Alone(q)' /\ ResultOK(q)'
  BY <1>3, <1>4, Elsewhere DEF McpInv
<1>8. \A q \in Runs : node'[q] = "unused" => thread'[q] = None
  <2>1. node'[r] # "unused"
    BY <1>2, <1>3, <1>4 DEF Ends, GoesOn
  <2> QED
    BY <1>3, <1>4, <2>1 DEF McpInv
<1> QED
  BY <1>5, <1>6, <1>7, <1>8

\* The turn is over, or fails: nothing is saved any more.
LEMMA EndStep ==
  ASSUME McpInv, NEW r \in Runs, Return(r) \/ Raise(r)
  PROVE  /\ \A u \in Threads : Fresh(u)' => saved'[u].turns = <<>>
         /\ \A q \in Runs : node'[q] = "unused" => thread'[q] = None
         /\ \A q \in Runs : Alone(q)' /\ ResultOK(q)'
<1>1. /\ UNCHANGED <<saved, state, thread>> /\ \A q \in Runs \ {r} : node'[q] = node[q]
      /\ node'[r] \in {node[r], "failed"}
      /\ \A q \in Runs \ {r} : result'[q] = result[q]
  BY DEF Return, Raise, ModelError, RecursionError, End, vars, McpInv, IInv, TypeOK
<1>2. Alone(r)' /\ ResultOK(r)'
  <2>1. CASE Return(r)
    BY <2>1 DEF Return, vars, McpInv, Alone, ResultOK, Active
  <2>2. CASE Raise(r)
    <3>1. result'[r] = Raised /\ (node'[r] = "failed" \/ UNCHANGED vars)
      BY <2>2 DEF Raise, ModelError, RecursionError, End, McpInv, IInv, TypeOK
    <3>2. Alone(r)'
      BY <3>1 DEF McpInv, Alone, Active, Nodes, ModelNodes, vars
    <3> QED
      BY <3>1, <3>2 DEF ResultOK
  <2> QED
    BY <2>1, <2>2
<1>3. \A q \in Runs \ {r} : Alone(q)' /\ ResultOK(q)'
  BY <1>1, Elsewhere DEF McpInv
<1>4. \A u \in Threads : Fresh(u)' => saved'[u].turns = <<>>
  BY <1>1 DEF Fresh, McpInv
<1>5. \A q \in Runs : node'[q] = "unused" => thread'[q] = None
  BY <1>1 DEF McpInv
<1> QED
  BY <1>2, <1>3, <1>4, <1>5

LEMMA McpKeeps ==
  ASSUME INITIAL_SWEEP \notin ToolNames, McpInv, [McpNext]_mcpvars
  PROVE  McpInv'
<1>1. IInv'
  <2>1. [Next]_vars
    BY DEF McpNext, run_investigation, NodeDone, Return, Raise, Next, mcpvars, vars
  <2> QED
    BY <2>1, NextKeeps DEF McpInv
<1>2. result' = [r \in Runs |-> result'[r]]
  BY DEF McpNext, run_investigation, NodeDone, Return, Raise, mcpvars, McpInv
<1>3. /\ \A u \in Threads : Fresh(u)' => saved'[u].turns = <<>>
      /\ \A q \in Runs : node'[q] = "unused" => thread'[q] = None
      /\ \A q \in Runs : Alone(q)' /\ ResultOK(q)'
  <2>1. CASE \E r \in Runs, t \in Threads : run_investigation(r, t)
    BY <2>1, CallStep
  <2>2. CASE \E r \in Runs : NodeDone(r)
    BY <2>2, NodeDoneStep
  <2>3. CASE \E r \in Runs : Return(r) \/ Raise(r)
    BY <2>3, EndStep
  <2>4. CASE UNCHANGED mcpvars
    BY <2>4, Elsewhere DEF mcpvars, Fresh, McpInv
  <2> QED
    BY <2>1, <2>2, <2>3, <2>4 DEF McpNext
<1> QED
  BY <1>1, <1>2, <1>3 DEF McpInv

LEMMA McpInvariance ==
  ASSUME INITIAL_SWEEP \notin ToolNames
  PROVE  McpSpec => []McpInv
<1>1. McpInv /\ [McpNext]_mcpvars => McpInv'
  BY McpKeeps
<1> QED
  BY <1>1, McpInitInv, PTL DEF McpSpec

-------------------------------------------------------------------------------
\* The calls are all of the log but the sweep.
LEMMA CallsCounted ==
  ASSUME NEW turn \in TurnRecord, SweepThenTools(turn.investigation_log),
         WellNamed(turn.investigation_log)
  PROVE  tool_calls(turn) = Len(turn.investigation_log) - 1
<1> DEFINE records == turn.investigation_log
           n == Len(records)
<1>1. records \in Seq(ToolCallRecord) /\ n \in Nat /\ DOMAIN records = 1..n /\ n >= 1
  BY DEF TurnRecord, SweepThenTools
<1>2. \A i \in 1..n : records[i].tool_name # INITIAL_SWEEP <=> i # 1
  BY <1>1 DEF SweepThenTools, WellNamed
<1>3. {i \in DOMAIN records : records[i].tool_name # INITIAL_SWEEP} = 2..n
  <2>1. \A i \in 1..n : i # 1 <=> i \in 2..n
    BY <1>1
  <2>2. 2..n \subseteq 1..n
    BY <1>1
  <2> QED
    BY <1>1, <1>2, <2>1, <2>2
<1>4. Cardinality(2..n) = n - 1
  BY <1>1, FS_Interval
<1> QED
  BY <1>3, <1>4 DEF tool_calls

\* The one investigation a call that was told diagnosed has archived.
DiagnosisOf(r, turn) ==
  /\ node[r] = "done" /\ state[r].turns = <<turn>>
  /\ turn \in TurnRecord /\ turn.user_request = r /\ turn.route = "investigate"
  /\ WellNamed(turn.investigation_log) /\ Investigation(turn) /\ OwnEvidence(turn)
  /\ result[r].diagnosis = turn.diagnosis
  /\ result[r].recommendation = turn.recommendation
  /\ result[r].hit_step_limit = turn.loop_guard_triggered
  /\ result[r].tool_calls = tool_calls(turn)
  /\ result[r].trail = turn_trail(turn)

LEMMA DiagnosedIsOwn ==
  ASSUME McpInv, NEW r \in Runs, result[r] # None, result[r].status = "diagnosed"
  PROVE  \E turn : DiagnosisOf(r, turn)
<1>1. /\ node[r] = "done"
      /\ result[r] = _to_result(state[r].turns[Len(state[r].turns)])
  BY DEF McpInv, ResultOK, Raised
<1>2. PICK turn : /\ state[r].turns = <<turn>> /\ turn.user_request = r
                  /\ WellNamed(turn.investigation_log)
  BY <1>1 DEF McpInv, Alone
<1>3. /\ turn \in TurnRecord /\ RoutesMatch(<<turn>>) /\ OwnEvidence(turn)
  <2>1. state[r].turns \in Seq(TurnRecord) /\ Kept(state[r])
    BY DEF McpInv, IInv, TypeOK, State
  <2>2. 1 \in DOMAIN <<turn>> /\ <<turn>>[1] = turn
    OBVIOUS
  <2> QED
    BY <1>2, <2>1, <2>2 DEF Kept, OwnTurns
<1>4. result[r] = _to_result(turn) /\ turn.route # "clarify"
  BY <1>1, <1>2 DEF _to_result
<1>5. turn.route = "investigate"
  <2>1. turn.route = "followup" => \E j \in InvestigatedTurns(<<turn>>) : j < 1
    BY <1>3 DEF RoutesMatch
  <2>2. InvestigatedTurns(<<turn>>) \subseteq {1}
    BY DEF InvestigatedTurns
  <2> QED
    BY <1>3, <1>4, <2>1, <2>2 DEF TurnRecord, TurnRoute
<1>6. Investigation(turn)
  BY <1>3, <1>5 DEF RoutesMatch
<1>7. /\ result[r].diagnosis = turn.diagnosis
      /\ result[r].recommendation = turn.recommendation
      /\ result[r].hit_step_limit = turn.loop_guard_triggered
      /\ result[r].tool_calls = tool_calls(turn)
      /\ result[r].trail = turn_trail(turn)
  BY <1>4 DEF _to_result
<1> QED
  BY <1>1, <1>2, <1>3, <1>5, <1>6, <1>7 DEF DiagnosisOf

\* A client that is told diagnosed has a diagnosis and a fix of its own request,
\* and is told of the loop guard exactly when all of its calls were used up, where
\* no tool the planner may name is called like the sweep.
THEOREM DiagnosedTrue ==
  ASSUME INITIAL_SWEEP \notin ToolNames
  PROVE  McpSpec => []DiagnosedMeansDiagnosed
<1>1. McpInv => DiagnosedMeansDiagnosed
  <2> SUFFICES ASSUME McpInv, NEW r \in Runs, result[r] # None, result[r].status = "diagnosed"
               PROVE  /\ result[r].diagnosis # None /\ result[r].diagnosis.by = r
                      /\ result[r].recommendation # None /\ result[r].recommendation.by = r
                      /\ result[r].hit_step_limit <=> result[r].tool_calls = LOOP_GUARD_MAX
    BY DEF DiagnosedMeansDiagnosed
  <2>1. PICK turn : DiagnosisOf(r, turn)
    BY DiagnosedIsOwn
  <2>2. /\ turn \in TurnRecord /\ turn.user_request = r /\ WellNamed(turn.investigation_log)
        /\ Investigation(turn) /\ OwnEvidence(turn)
        /\ result[r].diagnosis = turn.diagnosis
        /\ result[r].recommendation = turn.recommendation
        /\ result[r].hit_step_limit = turn.loop_guard_triggered
        /\ result[r].tool_calls = tool_calls(turn)
    BY <2>1 DEF DiagnosisOf
  <2>3. tool_calls(turn) = Len(turn.investigation_log) - 1
    BY <2>2, CallsCounted DEF Investigation
  <2>4. Len(turn.investigation_log) \in Nat /\ LOOP_GUARD_MAX \in Nat
    BY <2>2, BoundsAssumption DEF TurnRecord
  <2>5. turn.loop_guard_triggered <=> tool_calls(turn) = LOOP_GUARD_MAX
    BY <2>2, <2>3, <2>4 DEF Investigation
  <2>6. turn.diagnosis # None /\ turn.recommendation # None
    BY <2>2 DEF Investigation
  <2>7. turn.diagnosis.by = r /\ turn.recommendation.by = r
    BY <2>2, <2>6 DEF OwnEvidence
  <2> QED
    BY <2>2, <2>5, <2>6, <2>7
<1> QED
  BY <1>1, McpInvariance, PTL

-------------------------------------------------------------------------------
(***************************************************************************)
(* Progress                                                                *)
(***************************************************************************)
Reports == Seq([step : Nat, node : Nodes])
ReportsOf(reports, n) == {i \in DOMAIN reports : reports[i].node = n}

LEMMA ReportedIs == \A r, n : Reported(r, n) = ReportsOf(progress[r], n)
BY DEF Reported, ReportsOf

LEMMA OneReport ==
  ASSUME NEW reports \in Reports, NEW report \in [step : Nat, node : Nodes], NEW n
  PROVE  LET longer == Append(reports, report)
         IN /\ longer \in Reports /\ Len(longer) = Len(reports) + 1
            /\ Cardinality(ReportsOf(reports, n)) \in Nat
            /\ Cardinality(ReportsOf(longer, n)) =
                 Cardinality(ReportsOf(reports, n)) + IF report.node = n THEN 1 ELSE 0
<1> DEFINE longer == Append(reports, report)
<1>1. /\ longer \in Reports /\ Len(reports) \in Nat /\ Len(longer) = Len(reports) + 1
      /\ DOMAIN reports = 1..Len(reports) /\ DOMAIN longer = 1..(Len(reports) + 1)
      /\ longer[Len(reports) + 1] = report
      /\ \A i \in 1..Len(reports) : longer[i] = reports[i]
  BY AppendFacts DEF Reports
<1> HIDE DEF longer
<1>2. /\ IsFiniteSet(ReportsOf(reports, n)) /\ Cardinality(ReportsOf(reports, n)) \in Nat
      /\ Len(reports) + 1 \notin ReportsOf(reports, n)
  <2>1. IsFiniteSet(1..Len(reports)) /\ ReportsOf(reports, n) \subseteq 1..Len(reports)
    BY <1>1, FS_Interval DEF ReportsOf
  <2>2. Len(reports) + 1 \notin 1..Len(reports)
    BY <1>1
  <2> QED
    BY <2>1, <2>2, FS_Subset, FS_CardinalityType
<1>3. \A i \in 1..(Len(reports) + 1) : i \in 1..Len(reports) \/ i = Len(reports) + 1
  BY <1>1
<1>4. 1..Len(reports) \subseteq 1..(Len(reports) + 1) /\ Len(reports) + 1 \in 1..(Len(reports) + 1)
  BY <1>1
<1>5. CASE report.node = n
  <2>1. ReportsOf(longer, n) = ReportsOf(reports, n) \cup {Len(reports) + 1}
    BY <1>1, <1>3, <1>4, <1>5 DEF ReportsOf
  <2>2. Cardinality(ReportsOf(longer, n)) = Cardinality(ReportsOf(reports, n)) + 1
    BY <1>2, <2>1, FS_AddElement
  <2> QED
    BY <1>1, <1>2, <1>5, <2>2 DEF longer
<1>6. CASE report.node # n
  <2>1. ReportsOf(longer, n) = ReportsOf(reports, n)
    BY <1>1, <1>3, <1>4, <1>6 DEF ReportsOf
  <2> QED
    BY <1>1, <1>2, <1>6, <2>1 DEF longer
<1> QED
  BY <1>5, <1>6

\* Only a tool call adds to the step count.
LEMMA NodesKeepCount ==
  ASSUME NEW s \in State, NEW x
  PROVE  /\ intake(s, x).step_count = s.step_count
         /\ gather_context(s, x).step_count = s.step_count
         /\ plan_at_guard(s).step_count = s.step_count
         /\ plan(s, x).step_count = s.step_count
         /\ execute_tool(s, x).step_count = s.step_count + 1
         /\ diagnose(s, x).step_count = s.step_count
         /\ ground_without_search(s).step_count = s.step_count
         /\ ground(s, x).step_count = s.step_count
         /\ ground_failed(s).step_count = s.step_count
         /\ recommend(s, x).step_count = s.step_count
BY DEF State, intake, gather_context, plan_at_guard, plan, execute_tool, diagnose,
       ground_without_search, ground, ground_failed, recommend

LEMMA NodeStepCounts ==
  ASSUME McpInv, NEW r \in Runs, NodeStep(r), node[r] \notin {"finalize", "answer_followup"}
  PROVE  /\ state'[r].step_count =
              state[r].step_count + IF node[r] = "execute_tool" THEN 1 ELSE 0
         /\ node'[r] \in Nodes /\ supersteps'[r] = supersteps[r] + 1
<1> DEFINE s == state[r]
           more == IF node[r] = "execute_tool" THEN 1 ELSE 0
<1>1. PICK s2 : Complete(r, s2) /\ (Ends(r, s2) \/ GoesOn(r, s2))
  BY NodeStepShape DEF McpInv
<1>2. /\ state'[r] = s2 /\ node'[r] = Successor(node[r], s2)
      /\ supersteps'[r] = supersteps[r] + 1
  BY <1>1 DEF Complete, McpInv, IInv, TypeOK
<1>3. s \in State /\ s.step_count \in Nat /\ GoesOn(r, s2)
  BY <1>1 DEF McpInv, IInv, TypeOK, State, Ends
<1>4. \A x : Complete(r, x) => s2 = x
  BY <1>2 DEF Complete, McpInv, IInv, TypeOK
<1> SUFFICES s2.step_count = s.step_count + more
  BY <1>2, <1>3 DEF GoesOn
<1> HIDE DEF s
<1>5. CASE ExecuteTool(r)
  <2>1. node[r] = "execute_tool"
    BY <1>5 DEF ExecuteTool, Ready
  <2> QED
    BY <1>3, <1>4, <1>5, <2>1, NodesKeepCount DEF ExecuteTool, s
<1>6. CASE s2.step_count = s.step_count /\ node[r] # "execute_tool"
  BY <1>3, <1>6
<1>7. CASE Intake(r) \/ GatherContext(r) \/ PlanAtGuard(r) \/ Plan(r) \/ Diagnose(r)
  BY <1>3, <1>4, <1>6, <1>7, NodesKeepCount
     DEF Intake, GatherContext, PlanAtGuard, Plan, Diagnose, Ready, s
<1>8. CASE GroundSkipped(r) \/ Ground(r) \/ Recommend(r)
  BY <1>3, <1>4, <1>6, <1>8, NodesKeepCount DEF GroundSkipped, Ground, Recommend, Ready, s
<1>9. CASE AnswerFollowup(r) \/ Finalize(r)
  BY <1>9 DEF AnswerFollowup, Finalize, Ready
<1> QED
  BY <1>5, <1>7, <1>8, <1>9 DEF NodeStep

CountInv ==
  /\ McpInv
  /\ progress = [r \in Runs |-> progress[r]]
  /\ \A r \in Runs : Counted(r)

LEMMA NodeDoneCounts ==
  ASSUME CountInv, NEW r \in Runs, NodeDone(r)
  PROVE  Counted(r)'
<1> DEFINE s == state[r]
           k == supersteps[r]
           calls == Cardinality(ReportsOf(progress[r], "execute_tool"))
<1>1. /\ Active(r) /\ s.turns = <<>> /\ s \in State /\ Stage(node[r], s, k)
      /\ progress[r] \in Reports /\ Len(progress[r]) = k /\ calls = s.step_count
      /\ k \in Nat /\ s.step_count \in Nat
  BY NodeStepShape, ReportedIs
     DEF NodeDone, CountInv, McpInv, IInv, TypeOK, State, Alone, Counted, Reports
<1>2. node[r] # "answer_followup"
  BY <1>1 DEF Stage, InvestigatedTurns
<1>3. "done" \notin Nodes /\ "unused" \notin Nodes
  BY DEF Nodes, ModelNodes
<1>4. CASE node[r] = "finalize"
  <2>1. Finalize(r) /\ progress' = progress
    BY <1>4 DEF NodeDone, NodeStep, Intake, GatherContext, PlanAtGuard, Plan, ExecuteTool,
                Diagnose, GroundSkipped, Ground, Recommend, AnswerFollowup, Ready, NODE_PROGRESS
  <2>2. state'[r] = finalize(s) /\ node'[r] = "done"
    BY <1>4, <2>1 DEF Finalize, Complete, Successor, CountInv, McpInv, IInv, TypeOK
  <2>3. state'[r].turns = <<Archived(s)>>
    BY <1>1, <2>2, NodesKeepTurns
  <2>4. Archived(s).route = "investigate" =>
          k = 2 * s.step_count + 6 /\ Len(Archived(s).investigation_log) = s.step_count + 1
    BY <1>1, <1>4 DEF Archived, TurnRouteOf, Stage, Untouched, AfterPlanning, Investigating
  <2> DEFINE old == Archived(s)
  <2>5. \A turn : state'[r].turns = <<turn>> => turn = old
    BY <2>3
  <2>6. /\ Reported(r, "execute_tool")' = ReportsOf(progress[r], "execute_tool")
        /\ progress'[r] = progress[r]
    BY <2>1 DEF Reported, ReportsOf
  <2>7. progress'[r] \in Seq([step : Nat, node : Nodes])
    BY <1>1, <2>6 DEF Reports
  <2>8. ~ Active(r)' /\ node'[r] # "unused"
    BY <1>3, <2>2 DEF Active
  <2>9. Len(progress'[r]) = k /\ Cardinality(Reported(r, "execute_tool")') = s.step_count
    BY <1>1, <2>6
  <2> HIDE DEF s, k, calls, old
  <2>10. old.route = "investigate" =>
           /\ Len(progress'[r]) = 2 * (Len(old.investigation_log) - 1) + 6
           /\ Cardinality(Reported(r, "execute_tool")') = Len(old.investigation_log) - 1
    <3>1. SUFFICES ASSUME old.route = "investigate"
                   PROVE  /\ k = 2 * (Len(old.investigation_log) - 1) + 6
                          /\ s.step_count = Len(old.investigation_log) - 1
      BY <2>9
    <3>2. k = 2 * s.step_count + 6 /\ Len(old.investigation_log) = s.step_count + 1
      BY <2>4, <3>1 DEF old
    <3>3. s.step_count \in Nat
      BY <1>1 DEF s
    <3> QED
      BY <3>2, <3>3
  <2> QED
    BY <2>5, <2>7, <2>8, <2>10 DEF Counted
<1>5. CASE node[r] # "finalize"
  <2> DEFINE report == [step |-> Len(progress[r]) + 1, node |-> node[r]]
  <2>1. node[r] \in NODE_PROGRESS
    BY <1>1, <1>2, <1>5 DEF Active, Nodes, ModelNodes, NODE_PROGRESS
  <2>2. progress'[r] = Append(progress[r], report)
    BY <2>1 DEF NodeDone, CountInv
  <2>3. report \in [step : Nat, node : Nodes] /\ report.node = node[r]
    BY <1>1 DEF Active
  <2> HIDE DEF report
  <2>4. /\ progress'[r] \in Reports /\ Len(progress'[r]) = k + 1
        /\ Cardinality(ReportsOf(progress'[r], "execute_tool")) =
             calls + IF node[r] = "execute_tool" THEN 1 ELSE 0
    BY <1>1, <2>2, <2>3, OneReport
  <2>5. /\ state'[r].step_count = s.step_count + IF node[r] = "execute_tool" THEN 1 ELSE 0
        /\ node'[r] \in Nodes /\ supersteps'[r] = k + 1
    BY <1>2, <1>5, NodeStepCounts DEF NodeDone, CountInv
  <2>6. Reported(r, "execute_tool")' = ReportsOf(progress'[r], "execute_tool")
    BY DEF Reported, ReportsOf
  <2> QED
    BY <1>1, <1>3, <2>4, <2>5, <2>6 DEF Counted, Active, Reports
<1> QED
  BY <1>4, <1>5

LEMMA StaysCounted ==
  ASSUME NEW q \in Runs, Counted(q),
         UNCHANGED <<node[q], state[q], supersteps[q], progress[q]>>
  PROVE  Counted(q)'
BY DEF Counted, Active, Reported

LEMMA CountInit == McpInit => CountInv
<1> SUFFICES ASSUME McpInit PROVE CountInv
  OBVIOUS
<1>1. /\ progress = [r \in Runs |-> <<>>] /\ node = [r \in Runs |-> "unused"]
      /\ <<>> \in Seq([step : Nat, node : Nodes])
  BY DEF McpInit, Init
<1> QED
  BY <1>1, McpInitInv DEF CountInv, Counted, Active, Nodes, ModelNodes

LEMMA CountKeeps ==
  ASSUME INITIAL_SWEEP \notin ToolNames, CountInv, [McpNext]_mcpvars
  PROVE  CountInv'
<1>1. McpInv'
  BY McpKeeps DEF CountInv
<1>2. progress' = [r \in Runs |-> progress'[r]]
  BY DEF McpNext, run_investigation, NodeDone, Return, Raise, mcpvars, CountInv
<1>3. /\ state \in [Runs -> State] /\ node \in [Runs -> Nodes \cup Ended \cup {"unused"}]
      /\ supersteps \in [Runs -> Nat]
  BY DEF CountInv, McpInv, IInv, TypeOK
<1> SUFFICES ASSUME NEW q \in Runs PROVE Counted(q)'
  BY <1>1, <1>2 DEF CountInv
<1>4. CASE \E r \in Runs, t \in Threads : run_investigation(r, t)
  <2>1. PICK r \in Runs, t \in Threads : run_investigation(r, t)
    BY <1>4
  <2>2. CASE q = r
    <3> DEFINE s == NewTurn(saved[t], r)
    <3>1. /\ node[q] = "unused" /\ node'[q] = "intake" /\ state'[q] = s
          /\ supersteps'[q] = 0 /\ progress'[q] = <<>> /\ s.step_count = 0
      BY <1>3, <2>1, <2>2 DEF run_investigation, StartTurn, NewTurn, Defaults, CountInv,
                              McpInv, IInv, Counted
    <3>2. Reported(q, "execute_tool")' = {} /\ Cardinality({}) = 0
      BY <3>1, FS_EmptySet DEF Reported
    <3>3. <<>> \in Reports /\ Len(<<>>) = 0
      BY DEF Reports
    <3>4. "intake" # "done" /\ "intake" # "unused"
      OBVIOUS
    <3> HIDE DEF s
    <3> QED
      BY <3>1, <3>2, <3>3, <3>4 DEF Counted, Active, Reports
  <2>3. CASE q # r
    BY <1>3, <2>1, <2>3, StaysCounted DEF run_investigation, StartTurn, CountInv
  <2> QED
    BY <2>2, <2>3
<1>5. CASE \E r \in Runs : NodeDone(r)
  <2>1. PICK r \in Runs : NodeDone(r)
    BY <1>5
  <2>2. CASE q = r
    BY <2>1, <2>2, NodeDoneCounts
  <2>3. CASE q # r
    <3>1. PICK s2 : Complete(r, s2)
      BY <2>1, NodeStepShape DEF NodeDone, CountInv, McpInv
    <3> QED
      BY <1>3, <2>1, <2>3, <3>1, StaysCounted DEF NodeDone, Complete, CountInv
  <2> QED
    BY <2>2, <2>3
<1>6. CASE \E r \in Runs : Return(r)
  BY <1>6, StaysCounted DEF Return, vars, CountInv
<1>7. CASE \E r \in Runs : Raise(r)
  <2>1. PICK r \in Runs : Raise(r)
    BY <1>7
  <2>2. CASE q = r
    <3>1. progress' = progress /\ (node'[q] = "failed" \/ UNCHANGED vars)
      BY <1>3, <2>1, <2>2 DEF Raise, ModelError, RecursionError, End
    <3>2. CASE node'[q] = "failed"
      BY <3>1, <3>2 DEF CountInv, Counted, Active, Nodes, ModelNodes
    <3>3. CASE UNCHANGED vars
      BY <3>1, <3>3, StaysCounted DEF CountInv, vars
    <3> QED
      BY <3>1, <3>2, <3>3
  <2>3. CASE q # r
    BY <1>3, <2>1, <2>3, StaysCounted DEF Raise, ModelError, RecursionError, End, CountInv, vars
  <2> QED
    BY <2>2, <2>3
<1>8. CASE UNCHANGED mcpvars
  BY <1>8, StaysCounted DEF mcpvars, CountInv
<1> QED
  BY <1>4, <1>5, <1>6, <1>7, <1>8 DEF McpNext

LEMMA CountInvariance ==
  ASSUME INITIAL_SWEEP \notin ToolNames
  PROVE  McpSpec => []CountInv
<1>1. CountInv /\ [McpNext]_mcpvars => CountInv'
  BY CountKeeps
<1> QED
  BY <1>1, CountInit, PTL DEF McpSpec

-------------------------------------------------------------------------------
\* The tool steps of a trail are those of its log.
LEMMA ToolSteps ==
  ASSUME NEW turn \in TurnRecord, turn.route # "followup"
  PROVE  {i \in DOMAIN turn_trail(turn) : turn_trail(turn)[i].type = "tool"} =
           {i \in DOMAIN turn.investigation_log :
              turn.investigation_log[i].tool_name # INITIAL_SWEEP}
<1> DEFINE records == turn.investigation_log
           shown == [i \in DOMAIN records |-> log_step(records[i])]
           found == IF turn.diagnosis = None THEN <<>> ELSE <<diagnosis_step(turn.diagnosis)>>
           looked == IF turn.reference_docs = <<>> THEN <<>>
                     ELSE <<docs_step(turn.reference_docs, None)>>
           S == {shown[i] : i \in DOMAIN records}
                  \cup {diagnosis_step(turn.diagnosis), docs_step(turn.reference_docs, None)}
           Tools(steps) == {i \in DOMAIN steps : steps[i].type = "tool"}
<1>1. records \in Seq(ToolCallRecord)
  BY DEF TurnRecord
<1>2. shown \in Seq(S) /\ found \in Seq(S) /\ looked \in Seq(S)
  <2>1. DOMAIN records = 1..Len(records) /\ Len(records) \in Nat
    BY <1>1
  <2>2. shown \in Seq(S)
    BY <2>1
  <2>3. \A x \in S : <<x>> \in Seq(S)
    OBVIOUS
  <2>4. <<>> \in Seq(S)
    OBVIOUS
  <2>5. diagnosis_step(turn.diagnosis) \in S /\ docs_step(turn.reference_docs, None) \in S
    OBVIOUS
  <2> HIDE DEF S, shown
  <2> QED
    BY <2>2, <2>3, <2>4, <2>5
<1>3. /\ \A i \in DOMAIN found : found[i].type # "tool"
      /\ \A i \in DOMAIN looked : looked[i].type # "tool"
  BY DEF diagnosis_step, docs_step
<1>4. Tools(shown) = {i \in DOMAIN records : records[i].tool_name # INITIAL_SWEEP}
  BY DEF log_step
<1>5. turn_trail(turn) = (shown \o found) \o looked
  BY DEF turn_trail
<1> HIDE DEF shown, found, looked, S, records
<1>6. ASSUME NEW a \in Seq(S), NEW b \in Seq(S), \A i \in DOMAIN b : b[i].type # "tool"
      PROVE  a \o b \in Seq(S) /\ Tools(a \o b) = Tools(a)
  <2>1. /\ a \o b \in Seq(S) /\ Len(a) \in Nat /\ Len(b) \in Nat
        /\ DOMAIN a = 1..Len(a) /\ DOMAIN b = 1..Len(b)
        /\ DOMAIN (a \o b) = 1..(Len(a) + Len(b))
        /\ \A j \in 1..Len(a) : (a \o b)[j] = a[j]
        /\ \A j \in 1..Len(b) : (a \o b)[Len(a) + j] = b[j]
    BY ConcatFacts
  <2>2. \A i \in 1..(Len(a) + Len(b)) :
          i \notin 1..Len(a) => i - Len(a) \in 1..Len(b) /\ i = Len(a) + (i - Len(a))
    BY <2>1
  <2>3. 1..Len(a) \subseteq 1..(Len(a) + Len(b))
    BY <2>1
  <2>4. \A i \in 1..(Len(a) + Len(b)) : i \notin 1..Len(a) => (a \o b)[i].type # "tool"
    BY <1>6, <2>1, <2>2
  <2> QED
    BY <2>1, <2>3, <2>4
<1>7. shown \o found \in Seq(S) /\ Tools(shown \o found) = Tools(shown)
  BY <1>2, <1>3, <1>6
<1>8. Tools((shown \o found) \o looked) = Tools(shown \o found)
  BY <1>2, <1>3, <1>6, <1>7
<1> QED
  BY <1>4, <1>5, <1>7, <1>8 DEF records
\* Progress adds up: a client that is told diagnosed was sent one report for each
\* tool call its result counts and its trail shows, one for the plan that led to
\* it, and six more (the last plan among them), where no tool the planner may name
\* is called like the sweep.
THEOREM ProgressTrue ==
  ASSUME INITIAL_SWEEP \notin ToolNames
  PROVE  McpSpec => []ProgressMatchesResult
<1>1. CountInv => ProgressMatchesResult
  <2> SUFFICES ASSUME CountInv, NEW r \in Runs,
                      result[r] # None, result[r].status = "diagnosed"
               PROVE  LET steps == {i \in DOMAIN result[r].trail :
                                      result[r].trail[i].type = "tool"}
                      IN /\ result[r].tool_calls = Cardinality(Reported(r, "execute_tool"))
                         /\ result[r].tool_calls = Cardinality(steps)
                         /\ Len(progress[r]) = 2 * result[r].tool_calls + 6
    BY DEF ProgressMatchesResult
  <2>1. PICK turn : DiagnosisOf(r, turn)
    BY DiagnosedIsOwn DEF CountInv
  <2>2. /\ turn \in TurnRecord /\ turn.route = "investigate" /\ state[r].turns = <<turn>>
        /\ node[r] = "done" /\ WellNamed(turn.investigation_log)
        /\ Investigation(turn) /\ result[r].tool_calls = tool_calls(turn)
        /\ result[r].trail = turn_trail(turn)
    BY <2>1 DEF DiagnosisOf
  <2>3. tool_calls(turn) = Len(turn.investigation_log) - 1
    BY <2>2, CallsCounted DEF Investigation
  <2>4. /\ Len(progress[r]) = 2 * (Len(turn.investigation_log) - 1) + 6
        /\ Cardinality(Reported(r, "execute_tool")) = Len(turn.investigation_log) - 1
    BY <2>2 DEF CountInv, Counted
  <2>5. Cardinality({i \in DOMAIN turn_trail(turn) : turn_trail(turn)[i].type = "tool"}) =
          tool_calls(turn)
    BY <2>2, ToolSteps DEF tool_calls
  <2> QED
    BY <2>2, <2>3, <2>4, <2>5
<1> QED
  BY <1>1, CountInvariance, PTL

===============================================================================
