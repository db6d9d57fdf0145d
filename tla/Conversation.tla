----------------------------- MODULE Conversation -----------------------------
(***************************************************************************)
(* What the service promises about conversations, without the graph: a     *)
(* thread is a list of finished turns that only grows, a request is        *)
(* answered by one turn at its end or leaves no trace, and an answer that  *)
(* follows up on an earlier investigation has one to follow up on.         *)
(* The promise is for clients that wait for a turn of their thread to end. *)
(***************************************************************************)
EXTENDS Naturals, Sequences

CONSTANTS Threads, Turns, Nowhere  \* Nowhere: a turn not started yet

VARIABLES
  history,   \* thread -> its finished turns, oldest first
  phase,     \* turn -> how it stands
  where      \* turn -> the thread it was started on

cvars == <<history, phase, where>>

Route == {"investigate", "followup", "clarify"}
Entry == [turn : Turns, route : Route]
Phase == {"new", "open", "archived", "dropped"}

CTypeOK ==
  /\ history \in [Threads -> Seq(Entry)]
  /\ phase \in [Turns -> Phase]
  /\ where \in [Turns -> Threads \cup {Nowhere}]

CInit ==
  /\ history = [t \in Threads |-> <<>>]
  /\ phase = [u \in Turns |-> "new"]
  /\ where = [u \in Turns |-> Nowhere]

Open(u, t) ==
  /\ phase[u] = "new"
  /\ \A v \in Turns : phase[v] = "open" => where[v] # t
  /\ phase' = [phase EXCEPT ![u] = "open"]
  /\ where' = [where EXCEPT ![u] = t]
  /\ UNCHANGED history

Archive(u, route) ==
  /\ phase[u] = "open"
  /\ route = "followup" =>
       \E i \in DOMAIN history[where[u]] : history[where[u]][i].route = "investigate"
  /\ history' = [history EXCEPT ![where[u]] = Append(@, [turn |-> u, route |-> route])]
  /\ phase' = [phase EXCEPT ![u] = "archived"]
  /\ UNCHANGED where

\* Failed, cancelled, or lost with the server, one turn or several at once.
Drop(us) ==
  /\ us # {} /\ \A u \in us : phase[u] = "open"
  /\ phase' = [u \in Turns |-> IF u \in us THEN "dropped" ELSE phase[u]]
  /\ UNCHANGED <<history, where>>

CNext ==
  \/ \E u \in Turns : \/ \E t \in Threads : Open(u, t)
                      \/ \E route \in Route : Archive(u, route)
  \/ \E us \in SUBSET Turns : Drop(us)

CSpec == CInit /\ [][CNext]_cvars
===============================================================================
