---------------------------- MODULE ChatPageProofs ----------------------------
(***************************************************************************)
(* What a chat page shows is what its questions were answered with, for    *)
(* any number of pages, threads, questions and pieces of an answer, with   *)
(* connections that break and pages that are closed at any time.           *)
(***************************************************************************)
EXTENDS ChatPage, SequenceTheorems, TLAPS

\* Messages of a page are questions with an answer to each below.
InPairs(shown) ==
  \E k \in Nat : /\ Len(shown) = 2 * k
                 /\ \A i \in 1..k : /\ shown[2 * i - 1].role = "user"
                                    /\ IsAnswerTo(shown[2 * i], shown[2 * i - 1].of)

Recorded(srv, turns) == \A k \in DOMAIN turns : srv[turns[k]].status = "archived"

WholeUpTo(srv, shown, n) ==
  \A i \in 1..n : shown[i].role = "assistant" /\ ~shown[i].error =>
    Len(shown[i].content) = Parts /\ srv[shown[i].content[1].of].status = "archived"

IsSoFar(m, q, n) ==
  m.role = "assistant" /\ m.content = SubSeq(Whole(q), 1, n) /\ ~m.error

\* What has come of q is the last message of its page, below q.
AnswerSoFar(p, q) ==
  LET n == Len(messages[p])
  IN /\ n >= 2 /\ messages[p][n - 1] = Asked(q)
     /\ IsSoFar(messages[p][n], q, arrived[q])
     /\ WholeUpTo(turn, messages[p], n - 1)

\* A page that waits listens to the question it waits on.
PageOK(p) ==
  /\ messages[p] \in Seq(Message) /\ InPairs(messages[p])
  /\ pending[p] = None => WholeUpTo(turn, messages[p], Len(messages[p]))
  /\ pending[p] # None =>
       /\ pending[p] \in Questions /\ turn[pending[p]].page = p
       /\ Listens(pending[p]) /\ AnswerSoFar(p, pending[p])
  /\ open[p] # "open" => messages[p] = <<>> /\ loading[p] = NoFetch
  /\ loading[p] \in Fetch /\ Recorded(turn, loading[p].turns)
  /\ loading[p].status # "none" => loading[p].thread \in Ids
  /\ threadId[p] \in minted \/ (threadId[p] = None /\ open[p] = "unopened")

\* Whoever a page listens to is what it waits on, which is no other question.
TurnOK(q) ==
  /\ turn[q].status # "unsent" => /\ turn[q].page \in Pages /\ turn[q].thread \in Ids
                                  /\ open[turn[q].page] # "unopened"
  /\ turn[q].status = "unsent" => arrived[q] = 0
  /\ Listens(q) => pending[turn[q].page] = q

PageTypes ==
  /\ localStorage \in minted \cup {None} /\ minted \subseteq Ids
  /\ open \in [Pages -> {"unopened", "open", "closed"}]
  /\ threadId \in [Pages -> Ids \cup {None}]
  /\ pending \in [Pages -> Questions \cup {None}]
  /\ messages = [p \in Pages |-> messages[p]]
  /\ loading = [p \in Pages |-> loading[p]]
  /\ turn \in [Questions -> Turn]
  /\ arrived \in [Questions -> 0..Parts]
  /\ history \in [Ids -> Seq(Questions)]

PageInv ==
  /\ PageTypes
  /\ \A id \in Ids : Recorded(turn, history[id])
  /\ \A p \in Pages : PageOK(p)
  /\ \A q \in Questions : TurnOK(q)

-------------------------------------------------------------------------------
(***************************************************************************)
(* Messages                                                                *)
(***************************************************************************)
LEMMA Appended ==
  ASSUME NEW S, NEW seq \in Seq(S), NEW e \in S
  PROVE  /\ Append(seq, e) \in Seq(S) /\ Len(seq) \in Nat /\ Len(Append(seq, e)) = Len(seq) + 1
         /\ DOMAIN seq = 1..Len(seq) /\ DOMAIN Append(seq, e) = 1..(Len(seq) + 1)
         /\ Append(seq, e)[Len(seq) + 1] = e
         /\ \A i \in 1..Len(seq) : Append(seq, e)[i] = seq[i]
OBVIOUS

\* The first n pieces of an answer, and the next one behind them.
LEMMA SoFar ==
  ASSUME NEW q \in Questions, NEW n \in 0..Parts
  PROVE  /\ SubSeq(Whole(q), 1, n) = [k \in 1..n |-> [of |-> q, part |-> k]]
         /\ SubSeq(Whole(q), 1, n) \in Seq(Piece) /\ Len(SubSeq(Whole(q), 1, n)) = n
<1>1. Parts \in Nat /\ n \in Nat /\ n <= Parts
  BY PageAssumption
<1>2. Whole(q) \in Seq(Piece) /\ Len(Whole(q)) = Parts
  BY <1>1 DEF Whole, Piece
<1>3. \A k \in 1..n : k \in 1..Parts /\ Whole(q)[k] = [of |-> q, part |-> k]
  BY <1>1 DEF Whole
<1>4. SubSeq(Whole(q), 1, n) = [k \in 1..n |-> Whole(q)[k]]
  BY <1>1, <1>2
<1>5. SubSeq(Whole(q), 1, n) = [k \in 1..n |-> [of |-> q, part |-> k]]
  BY <1>3, <1>4
<1>6. \A k \in 1..n : [of |-> q, part |-> k] \in Piece
  BY <1>1 DEF Piece
<1>7. ASSUME NEW pieces, pieces = [k \in 1..n |-> [of |-> q, part |-> k]]
      PROVE  pieces \in Seq(Piece) /\ Len(pieces) = n
  BY <1>1, <1>6, <1>7
<1> QED
  BY <1>5, <1>7

LEMMA OnePieceMore ==
  ASSUME NEW q \in Questions, NEW n \in 0..Parts, n < Parts
  PROVE  /\ n + 1 \in 0..Parts
         /\ Append(SubSeq(Whole(q), 1, n), [of |-> q, part |-> n + 1])
              = SubSeq(Whole(q), 1, n + 1)
<1> DEFINE old == SubSeq(Whole(q), 1, n)
           new == SubSeq(Whole(q), 1, n + 1)
           piece == [of |-> q, part |-> n + 1]
<1>1. n \in Nat /\ Parts \in Nat /\ n + 1 \in 0..Parts /\ piece \in Piece
  BY PageAssumption DEF Piece
<1>2. /\ old = [k \in 1..n |-> [of |-> q, part |-> k]] /\ old \in Seq(Piece) /\ Len(old) = n
      /\ new = [k \in 1..(n + 1) |-> [of |-> q, part |-> k]]
  BY <1>1, SoFar
<1> HIDE DEF old, new
<1>3. /\ DOMAIN Append(old, piece) = 1..(n + 1) /\ Append(old, piece) \in Seq(Piece)
      /\ Append(old, piece)[n + 1] = piece
      /\ \A k \in 1..n : Append(old, piece)[k] = [of |-> q, part |-> k]
      /\ Len(Append(old, piece)) = n + 1
  BY <1>1, <1>2, Appended
<1>4. \A k \in 1..(n + 1) : k \in 1..n \/ k = n + 1
  BY <1>1
<1>5. \A k \in 1..(n + 1) : Append(old, piece)[k] = [of |-> q, part |-> k]
  BY <1>3, <1>4
<1>6. Append(old, piece) = [k \in 1..(n + 1) |-> Append(old, piece)[k]]
  BY <1>1, <1>3
<1>7. Append(old, piece) = new
  BY <1>2, <1>5, <1>6
<1> QED
  BY <1>1, <1>7 DEF old, new

LEMMA WholeAnswer ==
  ASSUME NEW q \in Questions
  PROVE  /\ Whole(q) = SubSeq(Whole(q), 1, Parts)
         /\ Whole(q) \in Seq(Piece) /\ Len(Whole(q)) = Parts /\ Whole(q)[1].of = q
<1>1. Parts \in 0..Parts /\ 1 \in 1..Parts
  BY PageAssumption
<1>2. Whole(q) = SubSeq(Whole(q), 1, Parts)
  BY <1>1, SoFar DEF Whole
<1> QED
  BY <1>1, <1>2, SoFar DEF Whole

LEMMA Roles ==
  /\ \A q : Asked(q).role = "user" /\ Asked(q).of = q
  /\ \A content : /\ Answered(content).role = "assistant"
                   /\ Answered(content).content = content /\ ~Answered(content).error
BY DEF Asked, Answered

\* A page that shows a thread's turns shows whole answers of its own.
LEMMA ThreadShown ==
  ASSUME NEW srv, NEW turns \in Seq(Questions), Recorded(srv, turns)
  PROVE  /\ ShownAs(turns) \in Seq(Message) /\ InPairs(ShownAs(turns))
         /\ WholeUpTo(srv, ShownAs(turns), Len(ShownAs(turns)))
<1> DEFINE k == Len(turns)
           shown == ShownAs(turns)
<1>1. k \in Nat /\ 2 * k \in Nat /\ DOMAIN turns = 1..k /\ \A j \in 1..k : turns[j] \in Questions
  OBVIOUS
<1>2. ASSUME NEW i \in 1..(2 * k)
      PROVE  \E j \in 1..k : \/ i = 2 * j - 1 /\ shown[i] = Asked(turns[j])
                             \/ i = 2 * j /\ shown[i] = Answered(Whole(turns[j]))
  <2>1. (i + 1) \div 2 \in 1..k
    BY <1>1
  <2>2. shown[i] = IF i % 2 = 1 THEN Asked(turns[(i + 1) \div 2])
                                ELSE Answered(Whole(turns[(i + 1) \div 2]))
    BY DEF ShownAs
  <2>3. i % 2 = 1 => i = 2 * ((i + 1) \div 2) - 1
    BY <1>1
  <2>4. i % 2 # 1 => i = 2 * ((i + 1) \div 2)
    BY <1>1
  <2> QED
    BY <2>1, <2>2, <2>3, <2>4
<1>3. \A j \in 1..k : Asked(turns[j]) \in Message /\ Answered(Whole(turns[j])) \in Message
  BY <1>1, WholeAnswer DEF Asked, Answered, Message
<1>4. shown \in Seq(Message) /\ Len(shown) = 2 * k
  <2>1. \A i \in 1..(2 * k) : shown[i] \in Message
    BY <1>2, <1>3
  <2>2. shown = [i \in 1..(2 * k) |-> shown[i]]
    BY DEF ShownAs
  <2> HIDE DEF shown
  <2> QED
    BY <1>1, <2>1, <2>2
<1> HIDE DEF shown
<1>5. InPairs(shown)
  <2>1. ASSUME NEW j \in 1..k
        PROVE  shown[2 * j - 1] = Asked(turns[j]) /\ shown[2 * j] = Answered(Whole(turns[j]))
    <3>1. 2 * j - 1 \in 1..(2 * k) /\ 2 * j \in 1..(2 * k) /\ j \in Nat
      BY <1>1
    <3>2. PICK m \in 1..k : \/ 2 * j - 1 = 2 * m - 1 /\ shown[2 * j - 1] = Asked(turns[m])
                            \/ 2 * j - 1 = 2 * m
      BY <1>2, <3>1
    <3>3. PICK l \in 1..k : \/ 2 * j = 2 * l - 1
                            \/ 2 * j = 2 * l /\ shown[2 * j] = Answered(Whole(turns[l]))
      BY <1>2, <3>1
    <3>4. m = j /\ 2 * j - 1 # 2 * m /\ l = j /\ 2 * j # 2 * l - 1
      BY <3>1, <3>2, <3>3
    <3> QED
      BY <3>2, <3>3, <3>4
  <2>2. ASSUME NEW j \in 1..k
        PROVE  /\ shown[2 * j - 1].role = "user"
               /\ IsAnswerTo(shown[2 * j], shown[2 * j - 1].of)
    <3>1. Parts \in 0..Parts /\ turns[j] \in Questions
      BY <1>1, PageAssumption
    <3>2. Whole(turns[j]) = SubSeq(Whole(turns[j]), 1, Parts)
      BY <3>1, WholeAnswer
    <3>3. IsAnswerTo(Answered(Whole(turns[j])), turns[j])
      BY <3>1, <3>2, Roles DEF IsAnswerTo
    <3> QED
      BY <2>1, <3>3, Roles
  <2> QED
    BY <1>1, <1>4, <2>2 DEF InPairs
<1>6. WholeUpTo(srv, shown, Len(shown))
  <2> SUFFICES ASSUME NEW i \in 1..(2 * k), shown[i].role = "assistant", ~shown[i].error
               PROVE  /\ Len(shown[i].content) = Parts
                      /\ srv[shown[i].content[1].of].status = "archived"
    BY <1>4 DEF WholeUpTo
  <2>1. PICK j \in 1..k : shown[i] = Answered(Whole(turns[j]))
    BY <1>2, Roles
  <2>2. turns[j] \in Questions /\ srv[turns[j]].status = "archived"
    BY <1>1 DEF Recorded
  <2>3. shown[i].content = Whole(turns[j])
    BY <2>1, Roles
  <2> QED
    BY <2>2, <2>3, WholeAnswer
<1> QED
  BY <1>4, <1>5, <1>6 DEF shown

\* A message given more content, or marked as an error.
LEMMA Patched ==
  ASSUME NEW m \in Message, m.role = "assistant"
  PROVE  /\ \A c \in Seq(Piece) : LET new == [m EXCEPT !.content = c]
                                 IN /\ new \in Message /\ new.role = "assistant"
                                    /\ new.content = c /\ new.error = m.error
         /\ LET new == [m EXCEPT !.error = TRUE]
            IN /\ new \in Message /\ new.role = "assistant"
               /\ new.content = m.content /\ new.error
<1>1. m \in [role : {"assistant"}, content : Seq(Piece), error : BOOLEAN]
  BY DEF Message
<1>2. ASSUME NEW c \in Seq(Piece)
      PROVE  LET new == [m EXCEPT !.content = c]
             IN /\ new \in [role : {"assistant"}, content : Seq(Piece), error : BOOLEAN]
                /\ new.content = c /\ new.error = m.error /\ new.role = "assistant"
  BY <1>1
<1>3. LET new == [m EXCEPT !.error = TRUE]
      IN /\ new \in [role : {"assistant"}, content : Seq(Piece), error : BOOLEAN]
         /\ new.content = m.content /\ new.error /\ new.role = "assistant"
  BY <1>1
<1> QED
  BY <1>2, <1>3 DEF Message

LEMMA LastUpdated ==
  ASSUME NEW shown \in Seq(Message), Len(shown) >= 2, NEW m \in Message
  PROVE  LET new == updateLast(shown, m)
         IN /\ new \in Seq(Message) /\ Len(new) = Len(shown) /\ new[Len(shown)] = m
            /\ \A i \in 1..(Len(shown) - 1) : new[i] = shown[i]
BY DEF updateLast

LEMMA PairUpdated ==
  ASSUME NEW shown \in Seq(Message), InPairs(shown), Len(shown) >= 2, NEW q,
         shown[Len(shown) - 1] = Asked(q), NEW m \in Message, IsAnswerTo(m, q)
  PROVE  InPairs(updateLast(shown, m))
<1> DEFINE new == updateLast(shown, m)
<1>1. /\ Len(new) = Len(shown) /\ new[Len(shown)] = m
      /\ \A i \in 1..(Len(shown) - 1) : new[i] = shown[i]
  BY LastUpdated
<1> HIDE DEF new
<1>2. PICK k \in Nat : /\ Len(shown) = 2 * k
                       /\ \A i \in 1..k : /\ shown[2 * i - 1].role = "user"
                                          /\ IsAnswerTo(shown[2 * i], shown[2 * i - 1].of)
  BY DEF InPairs
<1>3. ASSUME NEW i \in 1..k
      PROVE  new[2 * i - 1].role = "user" /\ IsAnswerTo(new[2 * i], new[2 * i - 1].of)
  <2>1. new[2 * i - 1] = shown[2 * i - 1]
    BY <1>1, <1>2
  <2>2. CASE i = k
    BY <1>1, <1>2, <2>1, <2>2, Roles
  <2>3. CASE i # k
    <3>1. new[2 * i] = shown[2 * i]
      BY <1>1, <1>2, <2>3
    <3> QED
      BY <1>2, <2>1, <3>1
  <2> QED
    BY <2>2, <2>3
<1> QED
  BY <1>1, <1>2, <1>3 DEF InPairs, new

LEMMA PairSent ==
  ASSUME NEW shown \in Seq(Message), InPairs(shown), NEW q \in Questions,
         NEW new, new = shown \o <<Asked(q), Answered(<<>>)>>
  PROVE  /\ new \in Seq(Message) /\ InPairs(new)
         /\ Len(new) >= 2 /\ new[Len(new) - 1] = Asked(q)
         /\ IsSoFar(new[Len(new)], q, 0)
         /\ \A srv : WholeUpTo(srv, shown, Len(shown)) => WholeUpTo(srv, new, Len(new) - 1)
<1> DEFINE k == Len(shown)
<1>1. <<>> = SubSeq(Whole(q), 1, 0) /\ 0 \in 0..Parts
  BY PageAssumption, SoFar
<1>2. Asked(q) \in Message /\ Answered(<<>>) \in Message
  BY DEF Asked, Answered, Message
<1>3. ASSUME NEW a \in Message, NEW b \in Message
      PROVE  LET longer == shown \o <<a, b>>
             IN /\ longer \in Seq(Message) /\ Len(longer) = k + 2
                /\ longer[k + 1] = a /\ longer[k + 2] = b
                /\ \A i \in 1..k : longer[i] = shown[i]
  OBVIOUS
<1>4. /\ new \in Seq(Message) /\ Len(new) = k + 2 /\ k \in Nat
      /\ new[k + 1] = Asked(q) /\ new[k + 2] = Answered(<<>>)
      /\ \A i \in 1..k : new[i] = shown[i]
  BY <1>2, <1>3
<1>5. InPairs(new)
  <2>1. PICK l \in Nat : /\ k = 2 * l
                         /\ \A i \in 1..l : /\ shown[2 * i - 1].role = "user"
                                            /\ IsAnswerTo(shown[2 * i], shown[2 * i - 1].of)
    BY DEF InPairs
  <2>2. ASSUME NEW i \in 1..(l + 1)
        PROVE  new[2 * i - 1].role = "user" /\ IsAnswerTo(new[2 * i], new[2 * i - 1].of)
    <3>1. CASE i = l + 1
      <4>1. IsAnswerTo(Answered(<<>>), q)
        BY <1>1, Roles DEF IsAnswerTo
      <4>2. 2 * i - 1 = k + 1 /\ 2 * i = k + 2
        BY <2>1, <3>1
      <4> QED
        BY <1>4, <4>1, <4>2, Roles
    <3>2. CASE i # l + 1
      <4>1. i \in 1..l /\ 2 * i - 1 \in 1..k /\ 2 * i \in 1..k
        BY <2>1, <3>2
      <4> QED
        BY <1>4, <2>1, <4>1
    <3> QED
      BY <3>1, <3>2
  <2>3. l + 1 \in Nat /\ Len(new) = 2 * (l + 1)
    BY <1>4, <2>1
  <2> QED
    BY <2>2, <2>3 DEF InPairs
<1>6. ASSUME NEW srv, WholeUpTo(srv, shown, k) PROVE WholeUpTo(srv, new, k + 1)
  <2>1. \A i \in 1..(k + 1) : i \in 1..k \/ i = k + 1
    BY <1>4
  <2> QED
    BY <1>4, <1>6, <2>1, Roles DEF WholeUpTo
<1> QED
  <2>1. Len(new) - 1 = k + 1 /\ Len(new) >= 2 /\ Len(new) = k + 2
    BY <1>4
  <2>2. IsSoFar(new[Len(new)], q, 0)
    BY <1>1, <1>4, Roles DEF IsSoFar
  <2> QED
    BY <1>1, <1>4, <1>5, <1>6, <2>1, <2>2

\* What was archived stays so, and with it what is whole.
LEMMA StaysWhole ==
  ASSUME NEW srv, NEW later,
         \A q \in Questions : srv[q].status = "archived" => later[q].status = "archived"
  PROVE  /\ \A turns \in Seq(Questions) : Recorded(srv, turns) => Recorded(later, turns)
         /\ \A shown \in Seq(Message) : \A n \in 0..Len(shown) :
              WholeUpTo(srv, shown, n) => WholeUpTo(later, shown, n)
<1>1. \A turns \in Seq(Questions) : Recorded(srv, turns) => Recorded(later, turns)
  BY DEF Recorded
<1>2. ASSUME NEW shown \in Seq(Message), NEW n \in 0..Len(shown), WholeUpTo(srv, shown, n)
      PROVE  WholeUpTo(later, shown, n)
  <2> SUFFICES ASSUME NEW i \in 1..n, shown[i].role = "assistant", ~shown[i].error
               PROVE  /\ Len(shown[i].content) = Parts
                      /\ later[shown[i].content[1].of].status = "archived"
    BY DEF WholeUpTo
  <2>1. /\ Len(shown[i].content) = Parts
        /\ srv[shown[i].content[1].of].status = "archived"
    BY <1>2 DEF WholeUpTo
  <2>2. shown[i].content \in Seq(Piece)
    <3>1. shown[i] \in Message
      OBVIOUS
    <3> QED
      BY <3>1 DEF Message
  <2>3. shown[i].content[1].of \in Questions
    <3>1. 1 \in 1..Len(shown[i].content)
      BY <2>1, PageAssumption
    <3>2. shown[i].content[1] \in Piece
      BY <2>2, <3>1
    <3> QED
      BY <3>2 DEF Piece
  <2> QED
    BY <2>1, <2>3
<1> QED
  BY <1>1, <1>2

-------------------------------------------------------------------------------
(***************************************************************************)
(* The invariant                                                           *)
(***************************************************************************)
LEMMA NothingShown ==
  <<>> \in Seq(Message) /\ InPairs(<<>>) /\ \A srv : WholeUpTo(srv, <<>>, Len(<<>>))
<1>1. 0 \in Nat /\ Len(<<>>) = 2 * 0 /\ 1..0 = {}
  OBVIOUS
<1> QED
  BY <1>1 DEF InPairs, WholeUpTo

LEMMA InitPageInv == Init => PageInv
<1> SUFFICES ASSUME Init PROVE PageInv
  OBVIOUS
<1>1. <<>> \in Seq(Message) /\ InPairs(<<>>) /\ WholeUpTo(turn, <<>>, Len(<<>>))
  BY NothingShown
<1>2. NoFetch \in Fetch /\ Recorded(turn, NoFetch.turns) /\ NoFetch.status = "none"
  BY DEF NoFetch, Fetch, Recorded
<1>3. ASSUME NEW p \in Pages PROVE PageOK(p)
  BY <1>1, <1>2, <1>3 DEF Init, PageOK
<1>4. ASSUME NEW q \in Questions PROVE TurnOK(q)
  BY <1>4 DEF Init, TurnOK, Listens
<1>5. /\ turn \in [Questions -> Turn] /\ arrived \in [Questions -> 0..Parts]
      /\ history \in [Ids -> Seq(Questions)]
      /\ \A id \in Ids : Recorded(turn, history[id])
  BY PageAssumption DEF Init, Turn, Recorded
<1> QED
  BY <1>3, <1>4, <1>5 DEF Init, PageInv, PageTypes

\* What the server does, and what befalls the other pages, leaves a page as it was.
LEMMA PageStays ==
  ASSUME PageInv, NEW p \in Pages,
         UNCHANGED <<open[p], threadId[p], messages[p], pending[p], loading[p]>>,
         minted \subseteq minted',
         \A q \in Questions : turn[q].status = "archived" => turn'[q].status = "archived",
         pending[p] # None =>
           /\ turn'[pending[p]].page = p /\ turn'[pending[p]].connected
           /\ turn'[pending[p]].status # "unsent"
           /\ arrived'[pending[p]] = arrived[pending[p]]
  PROVE  PageOK(p)'
<1>1. PageOK(p) /\ messages[p] \in Seq(Message) /\ loading[p].turns \in Seq(Questions)
  BY DEF PageInv, PageOK, Fetch
<1>2. \A n \in 0..Len(messages[p]) :
        WholeUpTo(turn, messages[p], n) => WholeUpTo(turn', messages[p], n)
  BY <1>1, StaysWhole
<1>3. Recorded(turn', loading[p].turns)
  BY <1>1, StaysWhole DEF PageOK
<1>4. pending[p] = None => WholeUpTo(turn', messages[p], Len(messages[p]))
  BY <1>1, <1>2 DEF PageOK
<1>5. pending[p] # None => Listens(pending[p])' /\ AnswerSoFar(p, pending[p])'
  <2> SUFFICES ASSUME pending[p] # None PROVE Listens(pending[p])' /\ AnswerSoFar(p, pending[p])'
    OBVIOUS
  <2> DEFINE q == pending[p]
             n == Len(messages[p])
  <2>1. turn[q].page = p /\ Listens(q) /\ AnswerSoFar(p, q)
    BY <1>1 DEF PageOK
  <2>2. open[p] = "open" /\ n >= 2
    BY <2>1 DEF Listens, AnswerSoFar
  <2>3. WholeUpTo(turn', messages[p], n - 1)
    BY <1>1, <1>2, <2>1, <2>2 DEF AnswerSoFar
  <2> QED
    BY <2>1, <2>2, <2>3 DEF Listens, AnswerSoFar
<1> QED
  BY <1>1, <1>3, <1>4, <1>5 DEF PageOK

\* A page that waits is on its question's connection, and nobody else's.
LEMMA OneListener ==
  ASSUME PageInv, NEW q \in Questions, Listens(q)
  PROVE  /\ turn[q].page \in Pages /\ pending[turn[q].page] = q
         /\ \A p \in Pages : p # turn[q].page => pending[p] # q
<1>1. turn[q].page \in Pages /\ pending[turn[q].page] = q
  BY DEF PageInv, TurnOK, Listens
<1>2. \A p \in Pages : pending[p] = q => turn[q].page = p
  BY PageAssumption DEF PageInv, PageOK
<1> QED
  BY <1>1, <1>2

-------------------------------------------------------------------------------
(***************************************************************************)
(* A page's own steps                                                      *)
(***************************************************************************)
LEMMA OwnStep ==
  ASSUME PageInv, NEW p \in Pages,
         \A o \in Pages \ {p} :
           UNCHANGED <<open[o], threadId[o], messages[o], pending[o], loading[o]>>,
         UNCHANGED <<turn, arrived, history>>, minted \subseteq minted',
         \/ open'[p] = "open" /\ pending'[p] = pending[p] /\ open[p] # "closed"
         \/ open'[p] = "closed",
         PageTypes', PageOK(p)'
  PROVE  PageInv'
<1>1. ASSUME NEW o \in Pages PROVE PageOK(o)'
  <2>1. CASE o = p
    BY <2>1
  <2>2. CASE o # p
    <3>1. PageOK(o)
      BY DEF PageInv
    <3>2. pending[o] # None => /\ turn[pending[o]].page = o /\ turn[pending[o]].connected
                               /\ turn[pending[o]].status # "unsent"
      BY <3>1 DEF PageOK, Listens
    <3> QED
      BY <2>2, <3>2, PageStays
  <2> QED
    BY <2>1, <2>2
<1>2. ASSUME NEW q \in Questions PROVE TurnOK(q)'
  <2>1. TurnOK(q)
    BY DEF PageInv
  <2>2. CASE turn[q].page = p
    <3>1. open[p] \in {"unopened", "open", "closed"}
      BY DEF PageInv, PageTypes
    <3>2. turn[q].status # "unsent" => open[p] # "unopened"
      BY <2>1, <2>2 DEF TurnOK
    <3>3. Listens(q)' => Listens(q) /\ pending'[p] = pending[p]
      BY <2>2, <3>1, <3>2 DEF Listens
    <3>4. open'[p] # "unopened"
      OBVIOUS
    <3> QED
      BY <2>1, <2>2, <3>3, <3>4 DEF TurnOK
  <2>3. CASE turn[q].page # p
    BY <2>1, <2>3 DEF TurnOK, Listens
  <2> QED
    BY <2>2, <2>3
<1>3. \A id \in Ids : Recorded(turn', history'[id])
  BY DEF PageInv
<1> QED
  BY <1>1, <1>2, <1>3 DEF PageInv

LEMMA MountKeeps ==
  ASSUME PageInv, NEW p \in Pages, Mount(p)
  PROVE  PageInv'
<1>1. /\ PageTypes /\ PageOK(p) /\ open[p] = "unopened" /\ open' = [open EXCEPT ![p] = "open"]
      /\ UNCHANGED <<messages, pending, turn, arrived, history>>
  BY DEF Mount, PageInv
<1>2. /\ minted \subseteq minted' /\ minted' \subseteq Ids /\ localStorage' \in minted' \cup {None}
      /\ threadId' = [threadId EXCEPT ![p] = threadId'[p]] /\ threadId'[p] \in minted'
      /\ loading' = [loading EXCEPT ![p] = loading'[p]]
      /\ loading'[p] \in Fetch /\ Recorded(turn, loading'[p].turns)
      /\ loading'[p].status # "none" => loading'[p].thread \in Ids
  <2>1. PageTypes /\ loading[p] \in Fetch /\ Recorded(turn, loading[p].turns)
        /\ (loading[p].status # "none" => loading[p].thread \in Ids)
    BY <1>1 DEF PageOK
  <2>2. CASE Mint(p) /\ UNCHANGED loading
    BY <2>1, <2>2, PageAssumption DEF PageTypes, Mint, saveThreadId
  <2>3. CASE /\ localStorage # None
             /\ threadId' = [threadId EXCEPT ![p] = localStorage]
             /\ loading' = [loading EXCEPT ![p] = [status |-> "asked", turns |-> <<>>,
                                                   thread |-> localStorage]]
             /\ UNCHANGED <<localStorage, minted>>
    <3> DEFINE asked == [status |-> "asked", turns |-> <<>>, thread |-> localStorage]
    <3>1. asked \in Fetch /\ Recorded(turn, asked.turns) /\ asked.thread \in Ids
      BY <2>1, <2>3 DEF PageTypes, Fetch, Recorded
    <3>2. loading'[p] = asked /\ threadId'[p] = localStorage
      BY <2>1, <2>3 DEF PageTypes
    <3> QED
      BY <2>1, <2>3, <3>1, <3>2 DEF PageTypes
  <2> QED
    BY <1>1, <2>2, <2>3 DEF Mount
<1>3. PageTypes'
  BY <1>1, <1>2 DEF PageTypes
<1>4. PageOK(p)'
  <2>1. pending[p] = None
    BY <1>1 DEF PageOK, Listens
  <2> QED
    BY <1>1, <1>2, <2>1 DEF PageOK, PageTypes
<1>5. \A o \in Pages \ {p} :
        UNCHANGED <<open[o], threadId[o], messages[o], pending[o], loading[o]>>
  BY <1>1, <1>2 DEF PageTypes
<1> QED
  BY <1>1, <1>2, <1>3, <1>4, <1>5, OwnStep DEF PageTypes

LEMMA LoadKeeps ==
  ASSUME PageInv, NEW p \in Pages, ThreadLoaded(p) \/ LoadFails(p) \/ ReadThread(p)
  PROVE  PageInv'
<1>1. /\ PageTypes /\ PageOK(p)
      /\ UNCHANGED <<localStorage, minted, open, threadId, pending, turn, arrived, history>>
  BY DEF ThreadLoaded, LoadFails, ReadThread, PageInv
<1>2. open[p] = "open"
  BY <1>1 DEF ThreadLoaded, LoadFails, ReadThread, PageOK, PageTypes, NoFetch
<1>3. /\ messages' = [messages EXCEPT ![p] = messages'[p]]
      /\ loading' = [loading EXCEPT ![p] = loading'[p]]
  BY <1>1 DEF ThreadLoaded, LoadFails, ReadThread, PageTypes
<1>4. /\ loading'[p] \in Fetch /\ Recorded(turn, loading'[p].turns)
      /\ loading'[p].status # "none" => loading'[p].thread \in Ids
  <2>1. NoFetch \in Fetch /\ Recorded(turn, NoFetch.turns) /\ NoFetch.status = "none"
    BY DEF NoFetch, Fetch, Recorded
  <2>2. CASE ThreadLoaded(p) \/ LoadFails(p)
    BY <1>1, <2>1, <2>2 DEF ThreadLoaded, LoadFails, PageTypes
  <2>3. CASE ReadThread(p)
    <3>1. loading[p] \in Fetch /\ loading[p].thread \in Ids
      BY <1>1, <2>3 DEF ReadThread, PageOK
    <3>2. loading'[p] = [loading[p] EXCEPT !.status = "read",
                                           !.turns = history[loading[p].thread]]
      BY <1>1, <2>3 DEF ReadThread, PageTypes
    <3>3. /\ history[loading[p].thread] \in Seq(Questions)
          /\ Recorded(turn, history[loading[p].thread])
      BY <1>1, <3>1 DEF PageTypes, PageInv
    <3> QED
      BY <3>1, <3>2, <3>3 DEF Fetch
  <2> QED
    BY <2>2, <2>3
<1>5. \/ messages'[p] = messages[p]
      \/ /\ messages[p] = <<>> /\ pending[p] = None
         /\ messages'[p] \in Seq(Message) /\ InPairs(messages'[p])
         /\ WholeUpTo(turn, messages'[p], Len(messages'[p]))
  <2>1. CASE ThreadLoaded(p) /\ messages[p] = <<>>
    <3>1. messages'[p] = ShownAs(loading[p].turns)
      BY <1>1, <2>1 DEF ThreadLoaded, Loaded, PageTypes
    <3>2. loading[p].turns \in Seq(Questions) /\ Recorded(turn, loading[p].turns)
      BY <1>1 DEF PageOK, Fetch
    <3>3. pending[p] = None
      BY <1>1, <2>1 DEF PageOK, AnswerSoFar
    <3> QED
      BY <2>1, <3>1, <3>2, <3>3, ThreadShown
  <2>2. CASE ThreadLoaded(p) /\ messages[p] # <<>>
    BY <1>1, <2>2 DEF ThreadLoaded, Loaded, PageTypes
  <2>3. CASE LoadFails(p) \/ ReadThread(p)
    BY <2>3 DEF LoadFails, ReadThread
  <2> QED
    BY <2>1, <2>2, <2>3
<1>6. PageTypes'
  BY <1>1, <1>3 DEF PageTypes
<1>7. PageOK(p)'
  <2>1. CASE messages'[p] = messages[p]
    BY <1>1, <1>2, <1>4, <2>1 DEF PageOK, Listens, AnswerSoFar
  <2>2. CASE messages'[p] # messages[p]
    BY <1>1, <1>2, <1>4, <1>5, <2>2 DEF PageOK
  <2> QED
    BY <2>1, <2>2
<1>8. \A o \in Pages \ {p} :
        UNCHANGED <<open[o], threadId[o], messages[o], pending[o], loading[o]>>
  BY <1>1, <1>3 DEF PageTypes
<1> QED
  BY <1>1, <1>2, <1>6, <1>7, <1>8, OwnStep

LEMMA NewConversationKeeps ==
  ASSUME PageInv, NEW p \in Pages, newConversation(p)
  PROVE  PageInv'
<1>1. /\ PageTypes /\ PageOK(p) /\ open[p] = "open" /\ pending[p] = None
      /\ messages' = [messages EXCEPT ![p] = <<>>]
      /\ UNCHANGED <<open, pending, loading, turn, arrived, history>>
  BY DEF newConversation, PageInv
<1>2. /\ minted \subseteq minted' /\ minted' \subseteq Ids /\ localStorage' \in minted' \cup {None}
      /\ threadId' = [threadId EXCEPT ![p] = threadId'[p]] /\ threadId'[p] \in minted'
  BY <1>1 DEF newConversation, Mint, saveThreadId, PageTypes
<1>3. PageTypes'
  BY <1>1, <1>2 DEF PageTypes
<1>4. PageOK(p)'
  BY <1>1, <1>2, NothingShown DEF PageOK, PageTypes
<1>5. \A o \in Pages \ {p} :
        UNCHANGED <<open[o], threadId[o], messages[o], pending[o], loading[o]>>
  BY <1>1, <1>2 DEF PageTypes
<1> QED
  BY <1>1, <1>2, <1>3, <1>4, <1>5, OwnStep

LEMMA CloseKeeps ==
  ASSUME PageInv, NEW p \in Pages, Close(p)
  PROVE  PageInv'
<1>1. /\ PageTypes /\ PageOK(p) /\ open' = [open EXCEPT ![p] = "closed"]
      /\ messages' = [messages EXCEPT ![p] = <<>>] /\ pending' = [pending EXCEPT ![p] = None]
      /\ loading' = [loading EXCEPT ![p] = NoFetch] /\ open[p] = "open"
      /\ UNCHANGED <<localStorage, minted, threadId, turn, arrived, history>>
  BY DEF Close, PageInv
<1>2. PageTypes'
  BY <1>1 DEF PageTypes
<1>3. PageOK(p)'
  <2>1. NoFetch \in Fetch /\ Recorded(turn, NoFetch.turns) /\ NoFetch.status = "none"
    BY DEF NoFetch, Fetch, Recorded
  <2> QED
    BY <1>1, <2>1, NothingShown DEF PageOK, PageTypes
<1>4. \A o \in Pages \ {p} :
        UNCHANGED <<open[o], threadId[o], messages[o], pending[o], loading[o]>>
  BY <1>1 DEF PageTypes
<1> QED
  BY <1>1, <1>2, <1>3, <1>4, OwnStep DEF PageTypes

-------------------------------------------------------------------------------
(***************************************************************************)
(* Steps of a question and its answer                                      *)
(***************************************************************************)
\* What a step of q may do: to q's turn, and to the messages of q's page.
LEMMA TurnStep ==
  ASSUME PageInv, NEW q \in Questions, NEW p \in Pages,
         UNCHANGED <<localStorage, minted, open, threadId, loading>>,
         PageTypes',
         \A o \in Pages \ {p} : UNCHANGED <<messages[o], pending[o]>> /\ pending[o] # q,
         \A x \in Questions \ {q} : UNCHANGED <<turn[x], arrived[x]>>,
         turn[q].status = "archived" => turn'[q].status = "archived",
         \A id \in Ids : Recorded(turn', history'[id]),
         \/ pending'[p] = pending[p]
         \/ \A x \in Questions \ {q} : Listens(x) => turn[x].page # p,
         PageOK(p)', TurnOK(q)'
  PROVE  PageInv'
<1>1. ASSUME NEW o \in Pages PROVE PageOK(o)'
  <2>1. CASE o = p
    BY <2>1
  <2>2. CASE o # p
    <3>1. PageOK(o) /\ pending[o] \in Questions \cup {None}
      BY DEF PageInv, PageTypes
    <3>2. pending[o] # None =>
            /\ turn[pending[o]].page = o /\ turn[pending[o]].connected
            /\ turn[pending[o]].status # "unsent" /\ pending[o] \in Questions \ {q}
      BY <2>2, <3>1 DEF PageOK, Listens
    <3> QED
      BY <2>2, <3>2, PageStays
  <2> QED
    BY <2>1, <2>2
<1>2. ASSUME NEW x \in Questions PROVE TurnOK(x)'
  <2>1. CASE x = q
    BY <2>1
  <2>2. CASE x # q
    <3>1. TurnOK(x) /\ turn'[x] = turn[x] /\ arrived'[x] = arrived[x]
      BY <2>2 DEF PageInv
    <3>2. Listens(x)' => Listens(x)
      BY <2>2, <3>1 DEF Listens
    <3>3. Listens(x) => pending'[turn[x].page] = pending[turn[x].page]
      BY <2>2, <3>1 DEF TurnOK, Listens
    <3> QED
      BY <3>1, <3>2, <3>3 DEF TurnOK
  <2> QED
    BY <2>1, <2>2
<1> QED
  BY <1>1, <1>2 DEF PageInv

LEMMA SendKeeps ==
  ASSUME PageInv, NEW p \in Pages, NEW q \in Questions, send(p, q)
  PROVE  PageInv'
<1> DEFINE new == messages[p] \o <<Asked(q), Answered(<<>>)>>
           sent == [status |-> "running", page |-> p, thread |-> threadId[p],
                    connected |-> TRUE]
<1>1. /\ PageTypes /\ PageOK(p) /\ TurnOK(q)
      /\ open[p] = "open" /\ pending[p] = None /\ turn[q].status = "unsent"
      /\ messages' = [messages EXCEPT ![p] = new]
      /\ pending' = [pending EXCEPT ![p] = q] /\ turn' = [turn EXCEPT ![q] = sent]
      /\ UNCHANGED <<localStorage, minted, open, threadId, loading, arrived, history>>
  BY DEF send, MaySend, PageInv
<1>2. /\ messages[p] \in Seq(Message) /\ InPairs(messages[p])
      /\ WholeUpTo(turn', messages[p], Len(messages[p]))
  <2>1. \A x \in Questions : turn[x].status = "archived" => turn'[x].status = "archived"
    BY <1>1 DEF PageTypes
  <2>2. /\ messages[p] \in Seq(Message) /\ InPairs(messages[p])
        /\ WholeUpTo(turn, messages[p], Len(messages[p]))
    BY <1>1 DEF PageOK
  <2>3. Len(messages[p]) \in 0..Len(messages[p])
    BY <2>2
  <2> QED
    BY <2>1, <2>2, <2>3, StaysWhole
<1>3. /\ messages'[p] = new /\ pending'[p] = q /\ turn'[q] = sent /\ arrived'[q] = 0
      /\ threadId[p] \in Ids
  BY <1>1 DEF PageTypes, PageOK, TurnOK
<1>4. /\ new \in Seq(Message) /\ InPairs(new) /\ Len(new) >= 2 /\ new[Len(new) - 1] = Asked(q)
      /\ IsSoFar(new[Len(new)], q, 0) /\ WholeUpTo(turn', new, Len(new) - 1)
  <2> DEFINE srv == turn'
  <2>1. new = messages[p] \o <<Asked(q), Answered(<<>>)>>
    OBVIOUS
  <2>2. WholeUpTo(srv, messages[p], Len(messages[p]))
    BY <1>2
  <2> HIDE DEF new, srv
  <2>3. /\ new \in Seq(Message) /\ InPairs(new) /\ Len(new) >= 2
        /\ new[Len(new) - 1] = Asked(q) /\ IsSoFar(new[Len(new)], q, 0)
        /\ WholeUpTo(srv, new, Len(new) - 1)
    BY <1>2, <2>1, <2>2, PairSent
  <2> QED
    BY <2>3 DEF srv
<1> HIDE DEF new
<1>5. PageTypes'
  BY <1>1, <1>3 DEF PageTypes, Turn
<1>6. Listens(q)'
  BY <1>1, <1>3 DEF Listens
<1>7. PageOK(p)'
  <2>1. AnswerSoFar(p, q)'
    BY <1>3, <1>4 DEF AnswerSoFar
  <2>2. Recorded(turn', loading[p].turns)
    <3>1. loading[p].turns \in Seq(Questions) /\ Recorded(turn, loading[p].turns)
      BY <1>1 DEF PageOK, Fetch
    <3>2. \A x \in Questions : turn[x].status = "archived" => turn'[x].status = "archived"
      BY <1>1 DEF PageTypes
    <3> QED
      BY <3>1, <3>2, StaysWhole
  <2> QED
    BY <1>1, <1>3, <1>4, <1>6, <2>1, <2>2, PageAssumption DEF PageOK
<1>8. TurnOK(q)'
  BY <1>1, <1>3 DEF TurnOK, PageTypes
<1>9. /\ \A o \in Pages \ {p} : UNCHANGED <<messages[o], pending[o]>> /\ pending[o] # q
      /\ \A x \in Questions \ {q} : UNCHANGED <<turn[x], arrived[x]>>
      /\ \A x \in Questions \ {q} : Listens(x) => turn[x].page # p
  <2>1. \A o \in Pages : pending[o] # q
    BY <1>1, PageAssumption DEF PageInv, PageOK, Listens
  <2>2. \A x \in Questions : Listens(x) => pending[turn[x].page] = x
    BY DEF PageInv, TurnOK
  <2> QED
    BY <1>1, <2>1, <2>2, PageAssumption DEF PageTypes
<1>10. \A id \in Ids : Recorded(turn', history'[id])
  <2>1. \A x \in Questions : turn[x].status = "archived" => turn'[x].status = "archived"
    BY <1>1 DEF PageTypes
  <2> QED
    BY <1>1, <2>1, StaysWhole DEF PageInv, PageTypes
<1> QED
  BY <1>1, <1>5, <1>7, <1>8, <1>9, <1>10, TurnStep

\* The page an open connection leads to shows q last.
LEMMA ListeningPage ==
  ASSUME PageInv, NEW q \in Questions, Listens(q)
  PROVE  LET p == turn[q].page
             n == Len(messages[p])
         IN /\ p \in Pages /\ open[p] = "open" /\ pending[p] = q /\ PageOK(p)
            /\ messages[p] \in Seq(Message) /\ InPairs(messages[p])
            /\ n >= 2 /\ messages[p][n - 1] = Asked(q)
            /\ IsSoFar(messages[p][n], q, arrived[q])
            /\ WholeUpTo(turn, messages[p], n - 1)
            /\ arrived[q] \in 0..Parts
            /\ \A o \in Pages \ {p} : pending[o] # q
            /\ \A x \in Questions \ {q} : Listens(x) => turn[x].page # p
<1>1. /\ turn[q].page \in Pages /\ pending[turn[q].page] = q
      /\ \A o \in Pages : o # turn[q].page => pending[o] # q
  BY OneListener
<1>2. PageOK(turn[q].page) /\ open[turn[q].page] = "open" /\ q # None /\ arrived[q] \in 0..Parts
  BY <1>1, PageAssumption DEF PageInv, PageTypes, Listens
<1>3. AnswerSoFar(turn[q].page, q)
  BY <1>1, <1>2 DEF PageOK
<1>4. \A x \in Questions : Listens(x) => pending[turn[x].page] = x
  BY DEF PageInv, TurnOK
<1> QED
  BY <1>1, <1>2, <1>3, <1>4 DEF PageOK, AnswerSoFar

LEMMA ReceiveKeeps ==
  ASSUME PageInv, NEW q \in Questions, Receive(q)
  PROVE  PageInv'
<1>0. PICK p \in Pages : p = turn[q].page
  BY OneListener DEF Receive
<1> DEFINE n == Len(messages[p])
           more == Append(messages[p][n].content, [of |-> q, part |-> arrived[q] + 1])
           m == [messages[p][n] EXCEPT !.content = more]
           new == updateLast(messages[p], m)
<1>1. /\ Listens(q) /\ arrived[q] < Parts
      /\ arrived' = [arrived EXCEPT ![q] = arrived[q] + 1]
      /\ messages' = [messages EXCEPT ![p] = new]
      /\ UNCHANGED <<localStorage, minted, open, threadId, pending, loading, turn, history>>
  BY <1>0 DEF Receive
<1>2. /\ p \in Pages /\ open[p] = "open" /\ pending[p] = q /\ PageOK(p)
      /\ messages[p] \in Seq(Message) /\ InPairs(messages[p])
      /\ n >= 2 /\ messages[p][n - 1] = Asked(q)
      /\ IsSoFar(messages[p][n], q, arrived[q])
      /\ WholeUpTo(turn, messages[p], n - 1)
      /\ arrived[q] \in 0..Parts
      /\ \A o \in Pages \ {p} : pending[o] # q
      /\ \A x \in Questions \ {q} : Listens(x) => turn[x].page # p
  BY <1>0, <1>1, ListeningPage
<1>3. PageTypes /\ TurnOK(q) /\ q # None /\ n \in Nat
  BY <1>2, PageAssumption DEF PageInv
<1> HIDE DEF n, new, m
<1>4. arrived[q] + 1 \in 0..Parts /\ IsSoFar(m, q, arrived[q] + 1) /\ m \in Message
  <2>1. /\ arrived[q] + 1 \in 0..Parts
        /\ more = SubSeq(Whole(q), 1, arrived[q] + 1)
    BY <1>1, <1>2, OnePieceMore DEF IsSoFar
  <2>2. more \in Seq(Piece)
    BY <2>1, SoFar
  <2>3. n \in 1..Len(messages[p])
    BY <1>2, <1>3 DEF n
  <2> HIDE DEF more
  <2>4. messages[p][n] \in Message /\ messages[p][n].role = "assistant" /\ ~messages[p][n].error
    BY <1>2, <2>3 DEF IsSoFar
  <2>5. m \in Message /\ m.role = "assistant" /\ m.content = more /\ m.error = messages[p][n].error
    BY <2>2, <2>4, Patched DEF m
  <2> QED
    BY <2>1, <2>4, <2>5 DEF IsSoFar
<1>5. IsAnswerTo(m, q)
  BY <1>4 DEF IsAnswerTo, IsSoFar
<1>6. new = updateLast(messages[p], m)
  BY DEF new
<1> HIDE DEF more
<1>7. /\ new \in Seq(Message) /\ Len(new) = n /\ new[n] = m
      /\ \A i \in 1..(n - 1) : new[i] = messages[p][i]
      /\ InPairs(new)
  BY <1>2, <1>4, <1>5, <1>6, LastUpdated, PairUpdated DEF n
<1>8. messages'[p] = new /\ arrived'[q] = arrived[q] + 1
  BY <1>0, <1>1, <1>2, <1>3 DEF PageTypes
<1>9. WholeUpTo(turn', new, n - 1)
  BY <1>1, <1>2, <1>7 DEF WholeUpTo
<1>10. new[n - 1] = Asked(q)
  <2>1. n - 1 \in 1..(n - 1)
    BY <1>2, <1>3
  <2> QED
    BY <1>2, <1>7, <2>1
<1>11. AnswerSoFar(p, q)' /\ Listens(q)'
  BY <1>0, <1>1, <1>2, <1>4, <1>7, <1>8, <1>9, <1>10 DEF AnswerSoFar, Listens
<1>12. PageOK(p)'
  BY <1>0, <1>1, <1>2, <1>3, <1>7, <1>8, <1>11 DEF PageOK
<1>13. TurnOK(q)' /\ PageTypes'
  BY <1>0, <1>1, <1>2, <1>3, <1>4, <1>8 DEF TurnOK, Listens, PageTypes
<1>14. /\ \A o \in Pages \ {p} : UNCHANGED <<messages[o], pending[o]>>
       /\ \A x \in Questions \ {q} : UNCHANGED <<turn[x], arrived[x]>>
  BY <1>1, <1>2, <1>3 DEF PageTypes
<1>15. \A id \in Ids : Recorded(turn', history'[id])
  BY <1>1 DEF PageInv
<1>16. /\ \A o \in Pages \ {p} : UNCHANGED <<messages[o], pending[o]>> /\ pending[o] # q
       /\ pending'[p] = pending[p]
       /\ turn[q].status = "archived" => turn'[q].status = "archived"
       /\ UNCHANGED <<localStorage, minted, open, threadId, loading>>
  BY <1>1, <1>2, <1>14
<1> QED
  BY <1>2, <1>16, <1>12, <1>13, <1>14, <1>15, TurnStep

LEMMA StreamEndsKeeps ==
  ASSUME PageInv, NEW q \in Questions, StreamEnds(q)
  PROVE  PageInv'
<1>0. PICK p \in Pages : p = turn[q].page
  BY OneListener DEF StreamEnds
<1> DEFINE n == Len(messages[p])
           content == SubSeq(Whole(q), 1, arrived[q])
           m == [messages[p][n] EXCEPT !.error = TRUE]
           new == updateLast(messages[p], m)
<1>17. PICK how \in BodyEnds(q) :
        /\ messages' = IF EndsWell(how) THEN messages ELSE [messages EXCEPT ![p] = new]
        /\ pending' = [pending EXCEPT ![p] = None]
  BY <1>0 DEF StreamEnds, Freed
<1>1. /\ Listens(q)
      /\ messages' = IF EndsWell(how) THEN messages ELSE [messages EXCEPT ![p] = new]
      /\ pending' = [pending EXCEPT ![p] = None]
      /\ turn' = [turn EXCEPT ![q].connected = FALSE]
      /\ UNCHANGED <<localStorage, minted, open, threadId, loading, arrived, history>>
  BY <1>17 DEF StreamEnds
<1>2. /\ p \in Pages /\ open[p] = "open" /\ pending[p] = q /\ PageOK(p)
      /\ messages[p] \in Seq(Message) /\ InPairs(messages[p])
      /\ n >= 2 /\ messages[p][n - 1] = Asked(q)
      /\ IsSoFar(messages[p][n], q, arrived[q])
      /\ WholeUpTo(turn, messages[p], n - 1)
      /\ arrived[q] \in 0..Parts
      /\ \A o \in Pages \ {p} : pending[o] # q
      /\ \A x \in Questions \ {q} : Listens(x) => turn[x].page # p
  BY <1>0, <1>1, ListeningPage
<1>3. PageTypes /\ TurnOK(q) /\ q # None /\ n \in Nat
  BY <1>2, PageAssumption DEF PageInv
<1>4. /\ turn'[q] \in Turn /\ turn'[q].page = turn[q].page /\ turn'[q].thread = turn[q].thread
      /\ ~turn'[q].connected /\ pending'[p] = None
      /\ \A x \in Questions \ {q} : turn'[x] = turn[x]
      /\ turn'[q].status = turn[q].status
      /\ \A x \in Questions : turn[x].status = "archived" => turn'[x].status = "archived"
  <2>1. turn[q] \in Turn /\ turn'[q] = [turn[q] EXCEPT !.connected = FALSE]
    BY <1>1, <1>3 DEF PageTypes
  <2>2. \A x \in Questions \ {q} : turn'[x] = turn[x]
    BY <1>1, <1>3 DEF PageTypes
  <2>3. /\ turn'[q] \in Turn /\ turn'[q].page = turn[q].page
        /\ turn'[q].thread = turn[q].thread
        /\ ~turn'[q].connected /\ turn'[q].status = turn[q].status
    BY <2>1 DEF Turn
  <2>4. pending'[p] = None
    BY <1>1, <1>2, <1>3 DEF PageTypes
  <2> QED
    BY <2>2, <2>3, <2>4
<1> HIDE DEF n, new, m
<1>5. WholeUpTo(turn', messages[p], n - 1)
  <2>1. n - 1 \in 0..Len(messages[p])
    BY <1>2, <1>3 DEF n
  <2> QED
    BY <1>2, <1>4, <2>1, StaysWhole
<1>6. /\ messages'[p] \in Seq(Message) /\ InPairs(messages'[p])
      /\ WholeUpTo(turn', messages'[p], Len(messages'[p]))
  <2>1. CASE EndsWell(how)
    <3>1. messages'[p] = messages[p] /\ turn[q].status = "archived" /\ arrived[q] = Parts
      BY <1>1, <2>1 DEF EndsWell, BodyEnds
    <3>2. content = Whole(q)
      BY <3>1, WholeAnswer
    <3>3. Len(content) = Parts /\ turn'[content[1].of].status = "archived"
      BY <1>4, <3>1, <3>2, WholeAnswer
    <3>4. messages[p][n].content = content
      BY <1>2 DEF IsSoFar
    <3> HIDE DEF content
    <3>5. \A i \in 1..n : i \in 1..(n - 1) \/ i = n
      BY <1>3
    <3>6. WholeUpTo(turn', messages[p], n)
      BY <1>5, <3>3, <3>4, <3>5 DEF WholeUpTo
    <3> QED
      BY <1>2, <3>1, <3>6 DEF n
  <2>2. CASE ~EndsWell(how)
    <3>1. messages'[p] = new
      BY <1>1, <1>2, <1>3, <2>2 DEF PageTypes
    <3>2. m \in Message /\ IsAnswerTo(m, q) /\ m.error
      <4>1. n \in 1..Len(messages[p])
        BY <1>2, <1>3 DEF n
      <4>2. m \in Message /\ m.role = "assistant" /\ m.content = content /\ m.error
        BY <1>2, <4>1, Patched DEF m, IsSoFar
      <4> QED
        BY <1>2, <4>2 DEF IsAnswerTo
    <3>3. /\ new \in Seq(Message) /\ Len(new) = n /\ new[n] = m
          /\ \A i \in 1..(n - 1) : new[i] = messages[p][i]
          /\ InPairs(new)
      BY <1>2, <3>2, LastUpdated, PairUpdated DEF n, new
    <3>4. \A i \in 1..n : i \in 1..(n - 1) \/ i = n
      BY <1>3
    <3>5. WholeUpTo(turn', new, n)
      BY <1>5, <3>2, <3>3, <3>4 DEF WholeUpTo
    <3> QED
      BY <3>1, <3>3, <3>5
  <2> QED
    BY <2>1, <2>2
<1>7. ~Listens(q)'
  BY <1>4 DEF Listens
<1>8. Recorded(turn', loading[p].turns)
  BY <1>2, <1>4, StaysWhole DEF PageOK, Fetch
<1>9. PageOK(p)'
  BY <1>0, <1>1, <1>2, <1>4, <1>6, <1>8 DEF PageOK
<1>10. TurnOK(q)' /\ PageTypes'
  <2>1. turn'[q] \in Turn /\ turn'[q].page = p /\ turn'[q].thread = turn[q].thread
    BY <1>0, <1>4
  <2>2. turn' \in [Questions -> Turn]
    BY <1>1, <1>3, <1>4, <2>1 DEF PageTypes
  <2>3. messages' = [o \in Pages |-> messages'[o]]
    BY <1>1, <1>3 DEF PageTypes
  <2>4. pending' \in [Pages -> Questions \cup {None}]
    BY <1>1, <1>3 DEF PageTypes
  <2> QED
    BY <1>0, <1>1, <1>3, <1>4, <1>7, <2>1, <2>2, <2>3, <2>4 DEF TurnOK, PageTypes
<1>11. /\ \A o \in Pages \ {p} : UNCHANGED <<messages[o], pending[o]>>
       /\ \A x \in Questions \ {q} : UNCHANGED <<turn[x], arrived[x]>>
  BY <1>1, <1>2, <1>3, <1>4 DEF PageTypes
<1>12. \A id \in Ids : Recorded(turn', history'[id])
  BY <1>1, <1>4, StaysWhole DEF PageInv, PageTypes
<1>13. /\ \A o \in Pages \ {p} : UNCHANGED <<messages[o], pending[o]>> /\ pending[o] # q
       /\ turn[q].status = "archived" => turn'[q].status = "archived"
       /\ UNCHANGED <<localStorage, minted, open, threadId, loading>>
  BY <1>1, <1>2, <1>4, <1>11
<1> QED
  BY <1>2, <1>9, <1>10, <1>11, <1>12, <1>13, TurnStep

\* The server goes on with q.
LEMMA ServerKeeps ==
  ASSUME PageInv, NEW q \in Questions, Archive(q) \/ Stop(q)
  PROVE  PageInv'
<1>1. /\ turn[q].status = "running" /\ PageTypes /\ TurnOK(q)
      /\ UNCHANGED <<localStorage, minted, pagevars, arrived>>
  BY DEF Archive, Stop, PageInv
<1>2. \E s \in {"archived", "stopped"} : turn' = [turn EXCEPT ![q].status = s]
  BY DEF Archive, Stop
<1>3. /\ turn' \in [Questions -> Turn]
      /\ \A x \in Questions : /\ turn'[x].page = turn[x].page
                              /\ turn'[x].thread = turn[x].thread
                              /\ turn'[x].connected = turn[x].connected
                              /\ turn'[x].status = "unsent" <=> turn[x].status = "unsent"
                              /\ turn[x].status = "archived" => turn'[x].status = "archived"
  <2>1. PICK s \in {"archived", "stopped"} : turn' = [turn EXCEPT ![q].status = s]
    BY <1>2
  <2>2. turn[q] \in Turn /\ turn'[q] = [turn[q] EXCEPT !.status = s]
    BY <1>1, <2>1 DEF PageTypes
  <2>3. /\ turn'[q] \in Turn /\ turn'[q].status = s /\ turn'[q].page = turn[q].page
        /\ turn'[q].thread = turn[q].thread /\ turn'[q].connected = turn[q].connected
    BY <2>2 DEF Turn
  <2>4. \A x \in Questions \ {q} : turn'[x] = turn[x]
    BY <1>1, <2>1 DEF PageTypes
  <2>5. turn' \in [Questions -> Turn]
    BY <1>1, <2>1, <2>3 DEF PageTypes
  <2> QED
    BY <1>1, <2>3, <2>4, <2>5
<1>4. ASSUME NEW p \in Pages PROVE PageOK(p)'
  <2>1. PageOK(p)
    BY DEF PageInv
  <2>2. pending[p] # None => /\ pending[p] \in Questions /\ turn[pending[p]].page = p
                             /\ turn[pending[p]].connected
                             /\ turn[pending[p]].status # "unsent"
    BY <2>1 DEF PageOK, Listens
  <2> QED
    BY <1>1, <1>3, <2>2, PageStays DEF pagevars
<1>5. ASSUME NEW x \in Questions PROVE TurnOK(x)'
  BY <1>1, <1>3 DEF TurnOK, Listens, PageInv, pagevars
<1>6. /\ history' \in [Ids -> Seq(Questions)]
      /\ \A id \in Ids : Recorded(turn', history'[id])
  <2>1. \A id \in Ids : history[id] \in Seq(Questions) /\ Recorded(turn', history[id])
    BY <1>1, <1>3, StaysWhole DEF PageInv, PageTypes
  <2>2. CASE Stop(q)
    BY <1>1, <2>1, <2>2 DEF Stop, PageTypes
  <2>3. CASE Archive(q)
    <3> DEFINE id0 == turn[q].thread
               longer == Append(history[id0], q)
    <3>1. id0 \in Ids /\ history' = [history EXCEPT ![id0] = longer]
      BY <1>1, <2>3 DEF Archive, TurnOK
    <3>2. turn'[q].status = "archived"
      BY <1>1, <2>3 DEF Archive, PageTypes
    <3>3. longer \in Seq(Questions) /\ Recorded(turn', longer)
      <4>1. \A i \in 1..(Len(history[id0]) + 1) :
              i \in 1..Len(history[id0]) \/ i = Len(history[id0]) + 1
        BY <2>1, <3>1
      <4> QED
        BY <2>1, <3>1, <3>2, <4>1, Appended DEF Recorded
    <3> HIDE DEF longer, id0
    <3> QED
      BY <1>1, <2>1, <3>1, <3>3 DEF PageTypes
  <2> QED
    BY <2>2, <2>3
<1> QED
  BY <1>1, <1>3, <1>4, <1>5, <1>6 DEF PageInv, PageTypes, pagevars

-------------------------------------------------------------------------------
LEMMA PageKeeps == PageInv /\ [Next]_vars => PageInv'
<1> SUFFICES ASSUME PageInv, [Next]_vars PROVE PageInv'
  OBVIOUS
<1>1. CASE \E p \in Pages : Mount(p)
  BY <1>1, MountKeeps
<1>2. CASE \E p \in Pages : ThreadLoaded(p) \/ LoadFails(p) \/ ReadThread(p)
  BY <1>2, LoadKeeps
<1>3. CASE \E p \in Pages : newConversation(p)
  BY <1>3, NewConversationKeeps
<1>4. CASE \E p \in Pages : Close(p)
  BY <1>4, CloseKeeps
<1>5. CASE \E p \in Pages, q \in Questions : send(p, q)
  BY <1>5, SendKeeps
<1>6. CASE \E q \in Questions : Receive(q)
  BY <1>6, ReceiveKeeps
<1>7. CASE \E q \in Questions : StreamEnds(q)
  BY <1>7, StreamEndsKeeps
<1>8. CASE \E q \in Questions : Archive(q) \/ Stop(q)
  BY <1>8, ServerKeeps
<1>9. CASE UNCHANGED vars
  BY <1>9 DEF vars, pagevars, PageInv, PageTypes, PageOK, TurnOK, Listens, AnswerSoFar
<1> QED
  BY <1>1, <1>2, <1>3, <1>4, <1>5, <1>6, <1>7, <1>8, <1>9 DEF Next

LEMMA PageInvariance == Spec => []PageInv
BY InitPageInv, PageKeeps, PTL DEF Spec

\* What a page keeps is what its type says, and an open page has an id that was
\* handed out.
THEOREM PageTypeCorrect == Spec => []PageTypeOK
<1>1. PageInv => PageTypeOK
  BY DEF PageInv, PageTypes, PageOK, PageTypeOK
<1> QED
  BY <1>1, PageInvariance, PTL

\* A page never shows a piece of an answer but under its own question, in order,
\* however sends, thread loads, new conversations and streams that break interleave.
THEOREM AnswersInPlace == Spec => []AnswersUnderQuestions
<1>1. PageInv => AnswersUnderQuestions
  <2> SUFFICES ASSUME PageInv, NEW p \in Pages
               PROVE  /\ Len(messages[p]) % 2 = 0
                      /\ \A i \in 1..(Len(messages[p]) \div 2) :
                           /\ messages[p][2 * i - 1].role = "user"
                           /\ IsAnswerTo(messages[p][2 * i], messages[p][2 * i - 1].of)
    BY DEF AnswersUnderQuestions
  <2>1. PICK k \in Nat :
          /\ Len(messages[p]) = 2 * k
          /\ \A i \in 1..k : /\ messages[p][2 * i - 1].role = "user"
                             /\ IsAnswerTo(messages[p][2 * i], messages[p][2 * i - 1].of)
    BY DEF PageInv, PageOK, InPairs
  <2>2. (2 * k) % 2 = 0 /\ (2 * k) \div 2 = k
    OBVIOUS
  <2> QED
    BY <2>1, <2>2
<1> QED
  BY <1>1, PageInvariance, PTL

\* A page that may send again has no turn at work it is still connected to.
THEOREM OneTurn == Spec => []OneTurnAtATime
<1>1. PageInv => OneTurnAtATime
  BY DEF PageInv, TurnOK, Listens, OneTurnAtATime
<1> QED
  BY <1>1, PageInvariance, PTL

\* What a page shows for an answer, and no longer waits on, is a whole answer
\* that the server archived.
THEOREM WholeAnswers == Spec => []AnswersAreWhole
<1>1. PageInv => AnswersAreWhole
  <2> SUFFICES ASSUME PageInv, NEW p \in Pages, NEW i \in DOMAIN messages[p],
                      messages[p][i].role = "assistant", ~messages[p][i].error,
                      ~(pending[p] # None /\ i = Len(messages[p]))
               PROVE  /\ Len(messages[p][i].content) = Parts
                      /\ turn[messages[p][i].content[1].of].status = "archived"
    BY DEF AnswersAreWhole
  <2>1. PageOK(p) /\ messages[p] \in Seq(Message) /\ i \in 1..Len(messages[p])
    BY DEF PageInv, PageOK
  <2>2. CASE pending[p] = None
    BY <2>1, <2>2 DEF PageOK, WholeUpTo
  <2>3. CASE pending[p] # None
    <3>1. i \in 1..(Len(messages[p]) - 1)
      BY <2>1, <2>3
    <3> QED
      BY <2>1, <2>3, <3>1 DEF PageOK, AnswerSoFar, WholeUpTo
  <2> QED
    BY <2>2, <2>3
<1> QED
  BY <1>1, PageInvariance, PTL
===============================================================================
