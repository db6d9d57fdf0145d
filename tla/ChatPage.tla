------------------------------- MODULE ChatPage -------------------------------
(***************************************************************************)
(* The chat page, frontend/src/app/page.tsx: what its component keeps, its *)
(* handlers and callbacks, and the thread id it leaves in localStorage,    *)
(* which every page of the same browser reads.                             *)
(*                                                                         *)
(* A page is one load of the document; closing or reloading it ends it.    *)
(* Only what the server promises of a chat request is modelled (external): *)
(* it archives the turn on the request's thread before the stream is done, *)
(* or stops, or hangs.  An answer is Parts pieces, tokens and trail steps  *)
(* alike.                                                                  *)
(***************************************************************************)
EXTENDS Naturals, Sequences

CONSTANTS
  Pages,
  Ids,            \* what crypto.randomUUID may return, never twice
  Questions,      \* each sent at most once
  None,
  Parts,
  NetworkFails,   \* may a connection break?
  Hanging         \* questions whose turn may never come to its end

ASSUME PageAssumption ==
  /\ None \notin Ids \cup Questions
  /\ Parts \in Nat \ {0}
  /\ NetworkFails \in BOOLEAN
  /\ Hanging \subseteq Questions

VARIABLES
  localStorage,   \* the stored thread id
  minted,         \* ids handed out so far
  open,           \* page -> "unopened", "open" or "closed"
  threadId,       \* page -> the thread it talks to
  messages,       \* page -> what it shows
  pending,        \* page -> the question it waits on
  loading,        \* page -> its thread request: none, asked, or what was read
  turn,           \* question -> its turn on the server
  arrived,        \* question -> pieces its page was sent
  history         \* thread -> its archived turns

pagevars == <<open, threadId, messages, pending, loading>>
vars == <<localStorage, minted, pagevars, turn, arrived, history>>

Piece == [of : Questions, part : 1..Parts]
Message == [role : {"user"}, of : Questions]
             \cup [role : {"assistant"}, content : Seq(Piece), error : BOOLEAN]

Turn == [status : {"unsent", "running", "archived", "stopped"},
         page : Pages \cup {None}, thread : Ids \cup {None}, connected : BOOLEAN]

Fetch == [status : {"none", "asked", "read"}, thread : Ids \cup {None},
          turns : Seq(Questions)]
NoFetch == [status |-> "none", thread |-> None, turns |-> <<>>]

Init ==
  /\ localStorage = None /\ minted = {}
  /\ open = [p \in Pages |-> "unopened"]
  /\ threadId = [p \in Pages |-> None]
  /\ messages = [p \in Pages |-> <<>>]
  /\ pending = [p \in Pages |-> None]
  /\ loading = [p \in Pages |-> NoFetch]
  /\ turn = [q \in Questions |-> [status |-> "unsent", page |-> None,
                                  thread |-> None, connected |-> FALSE]]
  /\ arrived = [q \in Questions |-> 0]
  /\ history = [id \in Ids |-> <<>>]

-------------------------------------------------------------------------------
Asked(q) == [role |-> "user", of |-> q]
Answered(content) == [role |-> "assistant", content |-> content, error |-> FALSE]
Whole(q) == [k \in 1..Parts |-> [of |-> q, part |-> k]]

\* What GET /api/threads/{id} gives for these turns.
ShownAs(turns) ==
  [i \in 1..(2 * Len(turns)) |->
     LET q == turns[(i + 1) \div 2]
     IN IF i % 2 = 1 THEN Asked(q) ELSE Answered(Whole(q))]

\* The browser may refuse to store it, or to give it back.
saveThreadId(id) == localStorage' \in {id, localStorage}

\* Page p takes a new thread id.
Mint(p) ==
  \E id \in Ids \ minted :
    /\ minted' = minted \cup {id}
    /\ threadId' = [threadId EXCEPT ![p] = id]
    /\ saveThreadId(id)

\* The effect run once when the component mounts: a stored thread is fetched.
Mount(p) ==
  /\ open[p] = "unopened"
  /\ open' = [open EXCEPT ![p] = "open"]
  /\ \/ Mint(p) /\ UNCHANGED loading
     \/ /\ localStorage # None
        /\ threadId' = [threadId EXCEPT ![p] = localStorage]
        /\ loading' = [loading EXCEPT ![p] = [status |-> "asked", turns |-> <<>>,
                                              thread |-> localStorage]]
        /\ UNCHANGED <<localStorage, minted>>
  /\ UNCHANGED <<messages, pending, turn, arrived, history>>

\* Mutant of Loaded: what was fetched wins over what the page already shows.
Loaded_Clobbers(prev, turns) == ShownAs(turns)

\* Whatever the page shows by then stays.
Loaded(prev, turns) == IF prev # <<>> THEN prev ELSE ShownAs(turns)

\* The page's thread request is answered; the page still shows it whatever
\* thread it talks to by now.
ThreadLoaded(p) ==
  /\ open[p] = "open" /\ loading[p].status = "read"
  /\ messages' = [messages EXCEPT ![p] = Loaded(@, loading[p].turns)]
  /\ loading' = [loading EXCEPT ![p] = NoFetch]
  /\ UNCHANGED <<localStorage, minted, open, threadId, pending, turn, arrived, history>>

\* Start fresh: nothing is shown of a failed load.
LoadFails(p) ==
  /\ NetworkFails
  /\ open[p] = "open" /\ loading[p].status # "none"
  /\ loading' = [loading EXCEPT ![p] = NoFetch]
  /\ UNCHANGED <<localStorage, minted, open, threadId, messages, pending, turn, arrived, history>>

\* Mutant of newConversation: the old thread id is dropped, none is taken.
newConversation_NoId(p) ==
  /\ open[p] = "open" /\ pending[p] = None /\ messages[p] # <<>>
  /\ threadId' = [threadId EXCEPT ![p] = None]
  /\ messages' = [messages EXCEPT ![p] = <<>>]
  /\ UNCHANGED <<localStorage, minted, open, pending, loading, turn, arrived, history>>

\* The button is disabled while nothing is shown.
newConversation(p) ==
  /\ open[p] = "open" /\ pending[p] = None /\ messages[p] # <<>>
  /\ Mint(p)
  /\ messages' = [messages EXCEPT ![p] = <<>>]
  /\ UNCHANGED <<open, pending, loading, turn, arrived, history>>

\* Mutant of MaySend: a second question before the first one is answered.
MaySend_Always(p) == TRUE

MaySend(p) == pending[p] = None

send(p, q) ==
  /\ open[p] = "open" /\ MaySend(p) /\ turn[q].status = "unsent"
  /\ messages' = [messages EXCEPT ![p] = @ \o <<Asked(q), Answered(<<>>)>>]
  /\ pending' = [pending EXCEPT ![p] = q]
  /\ turn' = [turn EXCEPT ![q] = [status |-> "running", page |-> p,
                                  thread |-> threadId[p], connected |-> TRUE]]
  /\ UNCHANGED <<localStorage, minted, open, threadId, loading, arrived, history>>

updateLast(shown, m) == [shown EXCEPT ![Len(shown)] = m]

\* The page is open and its connection for q is up.
Listens(q) ==
  turn[q].status # "unsent" /\ turn[q].connected /\ open[turn[q].page] = "open"

\* A token or a step of q: added to whatever message is last.
Receive(q) ==
  LET p == turn[q].page
      m == messages[p][Len(messages[p])]
  IN /\ Listens(q) /\ turn[q].status # "stopped" /\ arrived[q] < Parts
     /\ arrived' = [arrived EXCEPT ![q] = @ + 1]
     /\ messages' = [messages EXCEPT ![p] = updateLast(@,
          [m EXCEPT !.content = Append(@, [of |-> q, part |-> arrived[q] + 1])])]
     /\ UNCHANGED <<localStorage, minted, open, threadId, pending, loading, turn, history>>

\* Mutant of Freed: pending is only reset when the stream ends well.
Freed_WhenDone(p, well) == pending' = IF well THEN [pending EXCEPT ![p] = None] ELSE pending

Freed(p, well) == pending' = [pending EXCEPT ![p] = None]

\* External, how the body of q's response may end: by itself after the last piece
\* of an archived turn, with an error event when the turn stopped, or with the
\* connection, which a server that dies leaves broken in the middle of the body.
BodyEnds(q) ==
  (IF turn[q].status = "archived" /\ arrived[q] = Parts THEN {"clean"} ELSE {})
    \cup (IF turn[q].status = "stopped" THEN {"error", "broken"} ELSE {})
    \cup (IF NetworkFails THEN {"broken"} ELSE {})

\* Mutant of EndsWell: an error event is not told from the end of the body.
EndsWell_Unless(how) == how # "broken"

\* Whatever ends without an error is taken to be complete; done is not waited for.
EndsWell(how) == how = "clean"

\* The stream ends; an error is shown in place of the answer's text.
StreamEnds(q) ==
  /\ Listens(q)
  /\ \E how \in BodyEnds(q) :
       LET p == turn[q].page
           well == EndsWell(how)
           m == messages[p][Len(messages[p])]
       IN /\ messages' = IF well THEN messages
                          ELSE [messages EXCEPT ![p] = updateLast(@, [m EXCEPT !.error = TRUE])]
          /\ Freed(p, well)
  /\ turn' = [turn EXCEPT ![q].connected = FALSE]
  /\ UNCHANGED <<localStorage, minted, open, threadId, loading, arrived, history>>

\* The page is closed or reloaded; what it had is gone, its id is stored.
Close(p) ==
  /\ open[p] = "open"
  /\ open' = [open EXCEPT ![p] = "closed"]
  /\ messages' = [messages EXCEPT ![p] = <<>>]
  /\ pending' = [pending EXCEPT ![p] = None]
  /\ loading' = [loading EXCEPT ![p] = NoFetch]
  /\ UNCHANGED <<localStorage, minted, threadId, turn, arrived, history>>

-------------------------------------------------------------------------------
\* The server, external to the page.  A turn whose client is gone may still
\* archive before that is noticed.
Archive(q) ==
  /\ turn[q].status = "running"
  /\ history' = [history EXCEPT ![turn[q].thread] = Append(@, q)]
  /\ turn' = [turn EXCEPT ![q].status = "archived"]
  /\ UNCHANGED <<localStorage, minted, pagevars, arrived>>

Stop(q) ==
  /\ turn[q].status = "running"
  /\ turn' = [turn EXCEPT ![q].status = "stopped"]
  /\ UNCHANGED <<localStorage, minted, pagevars, arrived, history>>

ReadThread(p) ==
  /\ loading[p].status = "asked"
  /\ loading' = [loading EXCEPT ![p].status = "read",
                                ![p].turns = history[loading[p].thread]]
  /\ UNCHANGED <<localStorage, minted, open, threadId, messages, pending, turn, arrived, history>>

Next ==
  \/ \E p \in Pages : \/ Mount(p) \/ ThreadLoaded(p) \/ LoadFails(p) \/ newConversation(p)
                      \/ Close(p) \/ ReadThread(p)
                      \/ \E q \in Questions : send(p, q)
  \/ \E q \in Questions : Receive(q) \/ StreamEnds(q) \/ Archive(q) \/ Stop(q)

Spec == Init /\ [][Next]_vars

\* A turn whose calls come back goes on to its end (ChatApi); what was sent arrives,
\* and so does the end of the stream when the turn is over.  The page itself gives up
\* on nothing: it has no timeout.
FairSpec ==
  /\ Spec
  /\ \A q \in Questions : WF_vars(Receive(q) \/ (turn[q].status # "running" /\ StreamEnds(q)))
  /\ \A q \in Questions \ Hanging : WF_vars(Archive(q) \/ Stop(q))

-------------------------------------------------------------------------------
PageTypeOK ==
  /\ localStorage \in Ids \cup {None} /\ minted \subseteq Ids
  /\ open \in [Pages -> {"unopened", "open", "closed"}]
  /\ \A p \in Pages : /\ messages[p] \in Seq(Message)
                      /\ pending[p] \in Questions \cup {None}
                      /\ loading[p] \in Fetch
                      /\ threadId[p] \in minted \/ (threadId[p] = None /\ open[p] = "unopened")
  /\ turn \in [Questions -> Turn]
  /\ arrived \in [Questions -> 0..Parts]
  /\ history \in [Ids -> Seq(Questions)]

IsAnswerTo(m, q) ==
  /\ m.role = "assistant"
  /\ \E n \in 0..Parts : m.content = SubSeq(Whole(q), 1, n)

\* A page shows questions and answers in turn, and under each question only
\* pieces of its own answer, in the order they were sent: an update of the last
\* message never lands in another one (page.tsx:93-94 keeps a late thread load
\* from taking the place of a question that is being answered).
AnswersUnderQuestions ==
  \A p \in Pages :
    /\ Len(messages[p]) % 2 = 0
    /\ \A i \in 1..(Len(messages[p]) \div 2) :
         LET m == messages[p][2 * i - 1]
         IN m.role = "user" /\ IsAnswerTo(messages[p][2 * i], m.of)

\* A page waits for its own turn to be over before it starts another: a turn
\* that runs on while its page may send again is one whose connection broke.
OneTurnAtATime ==
  \A q \in Questions :
    LET p == turn[q].page
    IN turn[q].status = "running" /\ turn[q].connected /\ open[p] = "open"
         => pending[p] = q

\* An answer a page shows in full is on the thread whose id the page keeps, so
\* that a reload can fetch it back (page.tsx:80-81).
ReloadCanFetchBack ==
  \A p \in Pages : \A i \in DOMAIN messages[p] :
    LET m == messages[p][i]
    IN m.role = "assistant" /\ ~m.error /\ ~(pending[p] # None /\ i = Len(messages[p]))
         => \E k \in DOMAIN history[threadId[p]] : history[threadId[p]][k] = m.content[1].of

\* An answer shown without an error that its page no longer waits for is whole,
\* and was archived: nothing half said passes for an answer.
AnswersAreWhole ==
  \A p \in Pages : \A i \in DOMAIN messages[p] :
    LET m == messages[p][i]
    IN m.role = "assistant" /\ ~m.error /\ ~(pending[p] # None /\ i = Len(messages[p]))
         => Len(m.content) = Parts /\ turn[m.content[1].of].status = "archived"

\* The input is enabled again after every question, however its stream ends, once
\* the turn is over; the input of a page whose turn hangs stays disabled, until the
\* page is closed or its connection breaks.
InputFreed ==
  \A p \in Pages, q \in Questions :
    pending[p] = q /\ (q \notin Hanging \/ turn[q].status # "running") ~> pending[p] # q
===============================================================================
