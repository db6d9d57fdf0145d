--------------------------- MODULE SseParserProofs ---------------------------
(***************************************************************************)
(* What the parser gives the page, for every stream and every way to cut   *)
(* it into chunks.                                                         *)
(***************************************************************************)
EXTENDS SseParser, SequenceTheorems, WellFoundedInduction, NaturalsInduction, TLAPS

-------------------------------------------------------------------------------
(***************************************************************************)
(* Recursive functions                                                     *)
(***************************************************************************)
LEMMA AllNumbers ==
  ASSUME NEW S, 0 \in S, \A n \in Nat : n \in S => n + 1 \in S
  PROVE  \A n \in Nat : n \in S
<1> DEFINE Less == OpToRel(<, Nat)
           Rest == {n \in Nat : n \notin S}
<1>1. IsWellFoundedOn(Less, Nat)
  BY NatLessThanWellFounded
<1>2. \A i, j \in Nat : <<i, j>> \in Less <=> i < j
  BY DEF OpToRel
<1> HIDE DEF Less
<1>3. SUFFICES ASSUME Rest # {} PROVE FALSE
  OBVIOUS
<1>4. PICK m \in Rest : \A n \in Rest : <<n, m>> \notin Less
  BY <1>1, <1>3, WFMin
<1>5. m \in Nat /\ m # 0 /\ m - 1 \in Nat /\ m - 1 < m
  BY <1>4
<1>6. m - 1 \notin Rest
  BY <1>2, <1>4, <1>5
<1> QED
  BY <1>4, <1>5, <1>6

\* f follows the steps from start on; step k is a function on V.
Follows(f, start, step, n) ==
  /\ DOMAIN f = 0..n /\ f = [k \in 0..n |-> f[k]]
  /\ f[0] = start
  /\ \A k \in 1..n : f[k] = step[k][f[k - 1]]

LEMMA StepsStayIn ==
  ASSUME NEW V, NEW start \in V, NEW n \in Nat, NEW step,
         \A k \in 1..n : \A v \in V : step[k][v] \in V,
         NEW f, Follows(f, start, step, n)
  PROVE  \A k \in 0..n : f[k] \in V
<1> DEFINE S == {k \in Nat : k <= n => f[k] \in V}
<1>1. 0 \in S
  BY DEF Follows
<1>2. ASSUME NEW k \in Nat, k \in S
      PROVE  k + 1 \in S
  <2>1. SUFFICES ASSUME k + 1 <= n PROVE f[k + 1] \in V
    OBVIOUS
  <2>2. k + 1 \in 1..n /\ (k + 1) - 1 = k /\ f[k] \in V
    BY <1>2, <2>1
  <2> QED
    BY <2>2 DEF Follows
<1> HIDE DEF S
<1>3. \A k \in Nat : k \in S
  BY <1>1, <1>2, AllNumbers
<1> QED
  BY <1>3 DEF S

LEMMA StepsCanBeFollowed ==
  ASSUME NEW start, NEW step, NEW n \in Nat
  PROVE  \E f : Follows(f, start, step, n)
<1> DEFINE S == {m \in Nat : \E f : Follows(f, start, step, m)}
<1>1. 0 \in S
  <2>1. Follows([k \in 0..0 |-> start], start, step, 0)
    BY DEF Follows
  <2> QED
    BY <2>1
<1>2. ASSUME NEW m \in Nat, m \in S
      PROVE  m + 1 \in S
  <2>1. PICK f : Follows(f, start, step, m)
    BY <1>2
  <2> DEFINE last == step[m + 1][f[m]]
             more == [k \in 0..(m + 1) |-> IF k = m + 1 THEN last ELSE f[k]]
  <2> HIDE DEF last
  <2>2. DOMAIN more = 0..(m + 1) /\ more = [k \in 0..(m + 1) |-> more[k]] /\ more[0] = start
    BY <2>1 DEF Follows
  <2>3. ASSUME NEW k \in 1..(m + 1)
        PROVE  more[k] = step[k][more[k - 1]]
    <3>1. CASE k = m + 1
      <4>1. more[k] = last /\ k - 1 = m /\ more[k - 1] = f[m]
        BY <3>1
      <4> QED
        BY <3>1, <4>1 DEF last
    <3>2. CASE k # m + 1
      <4>1. k \in 1..m /\ more[k] = f[k] /\ more[k - 1] = f[k - 1]
        BY <3>2
      <4> QED
        BY <2>1, <4>1 DEF Follows
    <3> QED
      BY <3>1, <3>2
  <2>4. Follows(more, start, step, m + 1)
    <3> HIDE DEF more
    <3> QED
      BY <2>2, <2>3 DEF Follows
  <2> QED
    BY <2>4
<1> HIDE DEF S
<1>3. \A k \in Nat : k \in S
  BY <1>1, <1>2, AllNumbers
<1> QED
  BY <1>3 DEF S

LEMMA OneWayToFollow ==
  ASSUME NEW start, NEW n \in Nat, NEW m \in Nat, n <= m,
         NEW step, NEW more, \A k \in 1..n : step[k] = more[k],
         NEW f, Follows(f, start, step, n), NEW g, Follows(g, start, more, m)
  PROVE  f[n] = g[n]
<1> DEFINE S == {k \in Nat : k <= n => f[k] = g[k]}
<1>1. 0 \in S
  BY DEF Follows
<1>2. ASSUME NEW k \in Nat, k \in S
      PROVE  k + 1 \in S
  <2>1. SUFFICES ASSUME k + 1 <= n PROVE f[k + 1] = g[k + 1]
    OBVIOUS
  <2>2. k + 1 \in 1..n /\ k + 1 \in 1..m /\ (k + 1) - 1 = k /\ f[k] = g[k]
    BY <1>2, <2>1
  <2>3. f[k + 1] = step[k + 1][f[k]] /\ g[k + 1] = more[k + 1][g[k]]
    BY <2>2, Zenon DEF Follows
  <2> QED
    BY <2>2, <2>3
<1> HIDE DEF S
<1>3. \A k \in Nat : k \in S
  BY <1>1, <1>2, AllNumbers
<1> QED
  BY <1>3 DEF S

-------------------------------------------------------------------------------
(***************************************************************************)
(* Texts one after the other                                               *)
(***************************************************************************)
TextsOver(A, texts, n) == \A i \in 1..n : texts[i] \in Seq(A)

Adding(A, texts, n) == [k \in 1..n |-> [v \in Seq(A) |-> v \o texts[k]]]

LEMMA UpToFollows ==
  ASSUME NEW A, NEW texts, NEW n \in Nat, TextsOver(A, texts, n)
  PROVE  \E f : /\ Follows(f, <<>>, Adding(A, texts, n), n)
                /\ UpTo(texts, n) = f[n]
<1> DEFINE step == Adding(A, texts, n)
           next(t, k) == IF k = 0 THEN <<>> ELSE t[k - 1] \o texts[k]
           is(t) == t = [k \in 0..n |-> next(t, k)]
           chosen == CHOOSE t : is(t)
<1>1. /\ <<>> \in Seq(A)
      /\ \A k \in 1..n : \A v \in Seq(A) : step[k][v] = v \o texts[k] /\ step[k][v] \in Seq(A)
  BY ConcatProperties DEF Adding, TextsOver
<1> HIDE DEF step
<1>2. PICK f : Follows(f, <<>>, step, n)
  BY StepsCanBeFollowed
<1>3. \A k \in 0..n : f[k] \in Seq(A)
  BY <1>1, <1>2, StepsStayIn
<1>4. \A k \in 0..n : f[k] = next(f, k)
  <2>1. \A k \in 0..n : k = 0 \/ (k \in 1..n /\ k - 1 \in 0..n /\ k # 0)
    OBVIOUS
  <2>2. ASSUME NEW k \in 1..n
        PROVE  f[k] = f[k - 1] \o texts[k]
    <3>1. k - 1 \in 0..n
      OBVIOUS
    <3>2. f[k] = step[k][f[k - 1]] /\ f[k - 1] \in Seq(A)
      BY <1>2, <1>3, <3>1 DEF Follows
    <3> QED
      BY <1>1, <3>2
  <2> QED
    BY <1>2, <2>1, <2>2 DEF Follows
<1>5. is(f)
  BY <1>2, <1>4 DEF Follows
<1>6. is(chosen)
  BY <1>5
<1>7. UpTo(texts, n) = chosen[n]
  BY DEF UpTo
<1> HIDE DEF chosen
<1>8. /\ DOMAIN chosen = 0..n /\ chosen = [k \in 0..n |-> chosen[k]]
      /\ \A k \in 0..n : chosen[k] = next(chosen, k)
  BY <1>6
<1> HIDE DEF is
<1>9. chosen[0] = <<>> /\ \A k \in 1..n : chosen[k] = chosen[k - 1] \o texts[k]
  <2>1. 0 \in 0..n /\ \A k \in 1..n : k \in 0..n /\ k # 0
    OBVIOUS
  <2> QED
    BY <1>8, <2>1, Zenon
<1> DEFINE S == {k \in Nat : k <= n => chosen[k] \in Seq(A)}
<1>10. 0 \in S
  BY <1>1, <1>9
<1>11. ASSUME NEW k \in Nat, k \in S
       PROVE  k + 1 \in S
  <2>1. SUFFICES ASSUME k + 1 <= n PROVE chosen[k + 1] \in Seq(A)
    OBVIOUS
  <2>2. k + 1 \in 1..n /\ (k + 1) - 1 = k /\ chosen[k] \in Seq(A) /\ texts[k + 1] \in Seq(A)
    BY <1>11, <2>1 DEF TextsOver
  <2>3. chosen[k + 1] = chosen[k] \o texts[k + 1]
    BY <1>9, <2>2, Zenon
  <2> QED
    BY <2>2, <2>3, ConcatProperties
<1> HIDE DEF S
<1>12. \A k \in Nat : k \in S
  BY <1>10, <1>11, AllNumbers
<1>13. \A k \in 1..n : k - 1 \in Nat /\ k - 1 <= n /\ chosen[k - 1] \in Seq(A)
  BY <1>12 DEF S
<1>14. Follows(chosen, <<>>, step, n)
  BY <1>1, <1>8, <1>9, <1>13 DEF Follows
<1> QED
  BY <1>7, <1>14 DEF step

LEMMA UpToSteps ==
  ASSUME NEW A, NEW texts, NEW n \in Nat, TextsOver(A, texts, n + 1)
  PROVE  /\ UpTo(texts, n) \in Seq(A)
         /\ UpTo(texts, n + 1) = UpTo(texts, n) \o texts[n + 1]
<1> DEFINE less == Adding(A, texts, n)
           more == Adding(A, texts, n + 1)
<1>1. \A k \in 1..n : k \in 1..(n + 1) /\ less[k] = more[k]
  BY DEF Adding
<1>2. TextsOver(A, texts, n)
  BY <1>1 DEF TextsOver
<1>3. PICK f : Follows(f, <<>>, less, n) /\ UpTo(texts, n) = f[n]
  BY <1>2, UpToFollows
<1>4. PICK g : Follows(g, <<>>, more, n + 1) /\ UpTo(texts, n + 1) = g[n + 1]
  <2>1. n + 1 \in Nat
    OBVIOUS
  <2> QED
    BY <2>1, UpToFollows
<1>5. /\ \A k \in 1..(n + 1) : \A v \in Seq(A) : more[k][v] = v \o texts[k]
      /\ \A k \in 1..n : \A v \in Seq(A) : less[k][v] \in Seq(A)
  BY <1>2, ConcatProperties DEF Adding, TextsOver
<1> HIDE DEF less, more
<1>6. f[n] = g[n]
  <2>1. n + 1 \in Nat /\ n <= n + 1
    OBVIOUS
  <2> QED
    BY <1>1, <1>3, <1>4, <2>1, OneWayToFollow
<1>7. f[n] \in Seq(A)
  <2>1. <<>> \in Seq(A)
    OBVIOUS
  <2>2. \A k \in 0..n : f[k] \in Seq(A)
    BY <1>3, <1>5, <2>1, StepsStayIn
  <2> QED
    BY <2>2
<1>8. g[n + 1] = more[n + 1][g[n]]
  <2>1. n + 1 \in 1..(n + 1) /\ (n + 1) - 1 = n
    OBVIOUS
  <2> QED
    BY <1>4, <2>1 DEF Follows
<1>9. n + 1 \in 1..(n + 1)
  OBVIOUS
<1> QED
  BY <1>3, <1>4, <1>5, <1>6, <1>7, <1>8, <1>9

LEMMA UpToNone ==
  ASSUME NEW texts
  PROVE  UpTo(texts, 0) = <<>>
<1>1. TextsOver({}, texts, 0) /\ 0 \in Nat
  BY DEF TextsOver
<1>2. PICK f : Follows(f, <<>>, Adding({}, texts, 0), 0) /\ UpTo(texts, 0) = f[0]
  BY <1>1, UpToFollows
<1> QED
  BY <1>2 DEF Follows

\* Only the first n texts count.
LEMMA UpToSame ==
  ASSUME NEW A, NEW texts, NEW others, NEW n \in Nat, TextsOver(A, texts, n),
         \A i \in 1..n : others[i] = texts[i]
  PROVE  UpTo(others, n) = UpTo(texts, n)
<1> DEFINE one == Adding(A, texts, n)
           other == Adding(A, others, n)
<1>1. \A k \in 1..n : one[k] = other[k]
  BY DEF Adding
<1>2. TextsOver(A, others, n)
  BY DEF TextsOver
<1>3. PICK f : Follows(f, <<>>, one, n) /\ UpTo(texts, n) = f[n]
  BY UpToFollows
<1>4. PICK g : Follows(g, <<>>, other, n) /\ UpTo(others, n) = g[n]
  BY <1>2, UpToFollows
<1> HIDE DEF one, other
<1>5. n <= n
  OBVIOUS
<1>6. f[n] = g[n]
  BY <1>1, <1>3, <1>4, <1>5, OneWayToFollow
<1> QED
  BY <1>3, <1>4, <1>6

LEMMA UpToType ==
  ASSUME NEW A, NEW texts, NEW n \in Nat, TextsOver(A, texts, n)
  PROVE  UpTo(texts, n) \in Seq(A)
<1>1. PICK f : Follows(f, <<>>, Adding(A, texts, n), n) /\ UpTo(texts, n) = f[n]
  BY UpToFollows
<1> DEFINE step == Adding(A, texts, n)
<1>2. \A k \in 1..n : \A v \in Seq(A) : step[k][v] \in Seq(A)
  BY ConcatProperties DEF Adding, TextsOver
<1>3. Follows(f, <<>>, step, n) /\ <<>> \in Seq(A)
  BY <1>1
<1> HIDE DEF step
<1>4. \A k \in 0..n : f[k] \in Seq(A)
  BY <1>2, <1>3, StepsStayIn
<1> QED
  BY <1>1, <1>4

-------------------------------------------------------------------------------
(***************************************************************************)
(* split                                                                   *)
(***************************************************************************)
Parts(A) == [complete : Seq(Seq(A)), rest : Seq(A)]

Uncut == [complete |-> <<>>, rest |-> <<>>]

LEMMA CutType ==
  ASSUME NEW A, NEW parts \in Parts(A), NEW a \in A, NEW sep \in Seq(A)
  PROVE  Cut(parts, a, sep) \in Parts(A)
<1> DEFINE rest == Append(parts.rest, a)
           n == Len(rest) - Len(sep)
<1>1. rest \in Seq(A) /\ Len(rest) \in Nat /\ Len(sep) \in Nat /\ parts.complete \in Seq(Seq(A))
  BY AppendProperties DEF Parts
<1> HIDE DEF rest
<1>2. n \in Int /\ n <= Len(rest)
  BY <1>1
<1> HIDE DEF n
<1>3. n >= 0 => SubSeq(rest, 1, n) \in Seq(A)
  BY <1>1, <1>2
<1>4. n >= 0 => Append(parts.complete, SubSeq(rest, 1, n)) \in Seq(Seq(A))
  BY <1>1, <1>3
<1>5. [complete |-> parts.complete, rest |-> rest] \in Parts(A)
  BY <1>1 DEF Parts
<1>6. n >= 0 => [complete |-> Append(parts.complete, SubSeq(rest, 1, n)), rest |-> <<>>] \in Parts(A)
  BY <1>1, <1>4 DEF Parts
<1> QED
  BY <1>5, <1>6 DEF Cut, rest, n

Cutting(A, text, sep) ==
  [k \in 1..Len(text) |-> [v \in Parts(A) |-> Cut(v, text[k], sep)]]

LEMMA SplitFollows ==
  ASSUME NEW A, NEW text \in Seq(A), NEW sep \in Seq(A)
  PROVE  \E f : /\ Follows(f, Uncut, Cutting(A, text, sep), Len(text))
                /\ Split(text, sep) = f[Len(text)]
<1> DEFINE n == Len(text)
           step == Cutting(A, text, sep)
           next(t, k) == IF k = 0 THEN Uncut ELSE Cut(t[k - 1], text[k], sep)
           is(t) == t = [k \in 0..n |-> next(t, k)]
           chosen == CHOOSE t : is(t)
<1>1. n \in Nat /\ Uncut \in Parts(A)
  BY DEF Uncut, Parts
<1>2. \A k \in 1..n : \A v \in Parts(A) :
        step[k][v] = Cut(v, text[k], sep) /\ step[k][v] \in Parts(A)
  BY CutType DEF Cutting
<1>3. Split(text, sep) = chosen[n]
  BY DEF Split, Uncut
<1> HIDE DEF step, n
<1>4. PICK f : Follows(f, Uncut, step, n)
  BY <1>1, StepsCanBeFollowed
<1>5. \A k \in 0..n : f[k] \in Parts(A)
  BY <1>1, <1>2, <1>4, StepsStayIn
<1>6. \A k \in 0..n : f[k] = next(f, k)
  <2>1. \A k \in 0..n : k = 0 \/ (k \in 1..n /\ k # 0)
    BY <1>1
  <2>2. ASSUME NEW k \in 1..n
        PROVE  f[k] = Cut(f[k - 1], text[k], sep)
    <3>1. k - 1 \in 0..n
      BY <1>1
    <3>2. f[k] = step[k][f[k - 1]] /\ f[k - 1] \in Parts(A)
      BY <1>4, <1>5, <3>1 DEF Follows
    <3> QED
      BY <1>2, <3>2
  <2> QED
    BY <1>4, <2>1, <2>2 DEF Follows
<1>7. is(f)
  BY <1>4, <1>6 DEF Follows
<1>8. is(chosen)
  BY <1>7
<1> HIDE DEF chosen
<1>9. /\ DOMAIN chosen = 0..n /\ chosen = [k \in 0..n |-> chosen[k]]
      /\ \A k \in 0..n : chosen[k] = next(chosen, k)
  BY <1>8
<1> HIDE DEF is
<1>10. chosen[0] = Uncut /\ \A k \in 1..n : chosen[k] = Cut(chosen[k - 1], text[k], sep)
  <2>1. 0 \in 0..n /\ \A k \in 1..n : k \in 0..n /\ k # 0
    BY <1>1
  <2> QED
    BY <1>9, <2>1, Zenon
<1> DEFINE S == {k \in Nat : k <= n => chosen[k] \in Parts(A)}
<1>11. 0 \in S
  BY <1>1, <1>10
<1>12. ASSUME NEW k \in Nat, k \in S
       PROVE  k + 1 \in S
  <2>1. SUFFICES ASSUME k + 1 <= n PROVE chosen[k + 1] \in Parts(A)
    OBVIOUS
  <2>2. k + 1 \in 1..n /\ (k + 1) - 1 = k /\ chosen[k] \in Parts(A)
    BY <1>1, <1>12, <2>1
  <2>3. chosen[k + 1] = Cut(chosen[k], text[k + 1], sep)
    BY <1>10, <2>2, Zenon
  <2>4. text[k + 1] \in A
    BY <2>2 DEF n
  <2> QED
    BY <2>2, <2>3, <2>4, CutType
<1> HIDE DEF S
<1>13. \A k \in Nat : k \in S
  BY <1>11, <1>12, AllNumbers
<1>14. ASSUME NEW k \in 1..n
       PROVE  chosen[k] = step[k][chosen[k - 1]]
  <2>1. k - 1 \in Nat /\ k - 1 <= n
    BY <1>1
  <2>2. chosen[k - 1] \in Parts(A)
    BY <1>13, <2>1 DEF S
  <2> QED
    BY <1>2, <1>10, <2>2
<1>15. Follows(chosen, Uncut, step, n)
  BY <1>9, <1>10, <1>14 DEF Follows
<1> QED
  BY <1>3, <1>15 DEF step, n

LEMMA SplitType ==
  ASSUME NEW A, NEW text \in Seq(A), NEW sep \in Seq(A)
  PROVE  Split(text, sep) \in Parts(A)
<1> DEFINE n == Len(text)
           step == Cutting(A, text, sep)
<1>1. \A k \in 1..n : \A v \in Parts(A) : step[k][v] \in Parts(A)
  BY CutType DEF Cutting
<1>2. PICK f : Follows(f, Uncut, step, n) /\ Split(text, sep) = f[n]
  BY SplitFollows
<1>3. n \in Nat /\ n \in 0..n /\ Uncut \in Parts(A)
  BY DEF Uncut, Parts
<1> HIDE DEF step, n
<1>4. \A k \in 0..n : f[k] \in Parts(A)
  BY <1>1, <1>2, <1>3, StepsStayIn
<1> QED
  BY <1>2, <1>3, <1>4

LEMMA SplitNone ==
  ASSUME NEW sep
  PROVE  Split(<<>>, sep) = Uncut
<1> DEFINE next(t, k) == IF k = 0 THEN Uncut ELSE Cut(t[k - 1], <<>>[k], sep)
           is(t) == t = [k \in 0..0 |-> next(t, k)]
           chosen == CHOOSE t : is(t)
<1>1. Split(<<>>, sep) = chosen[0]
  BY DEF Split, Uncut
<1>2. is([k \in 0..0 |-> Uncut])
  OBVIOUS
<1>3. is(chosen)
  BY <1>2
<1> HIDE DEF chosen
<1> QED
  BY <1>1, <1>3

LEMMA SplitSteps ==
  ASSUME NEW A, NEW text \in Seq(A), NEW a \in A, NEW sep \in Seq(A)
  PROVE  Split(Append(text, a), sep) = Cut(Split(text, sep), a, sep)
<1> DEFINE n == Len(text)
           longer == Append(text, a)
           less == Cutting(A, text, sep)
           more == Cutting(A, longer, sep)
<1>1. /\ longer \in Seq(A) /\ n \in Nat /\ Len(longer) = n + 1 /\ longer[n + 1] = a
      /\ \A i \in 1..n : longer[i] = text[i]
  BY AppendProperties
<1> HIDE DEF longer
<1>2. \A k \in 1..n : k \in 1..(n + 1) /\ less[k] = more[k]
  BY <1>1 DEF Cutting
<1>3. PICK f : Follows(f, Uncut, less, n) /\ Split(text, sep) = f[n]
  BY SplitFollows
<1>4. PICK g : Follows(g, Uncut, more, n + 1) /\ Split(longer, sep) = g[n + 1]
  <2>1. PICK h : Follows(h, Uncut, more, Len(longer)) /\ Split(longer, sep) = h[Len(longer)]
    BY <1>1, SplitFollows
  <2> QED
    BY <1>1, <2>1
<1>5. \A v \in Parts(A) : more[n + 1][v] = Cut(v, a, sep)
  BY <1>1 DEF Cutting
<1>6. Split(text, sep) \in Parts(A)
  BY SplitType
<1> HIDE DEF n, less, more
<1>7. n + 1 \in Nat /\ n <= n + 1 /\ n + 1 \in 1..(n + 1) /\ (n + 1) - 1 = n
  BY <1>1
<1>8. f[n] = g[n]
  BY <1>1, <1>2, <1>3, <1>4, <1>7, OneWayToFollow
<1>9. g[n + 1] = more[n + 1][g[n]]
  BY <1>4, <1>7, Zenon DEF Follows
<1> QED
  BY <1>3, <1>4, <1>5, <1>6, <1>8, <1>9 DEF longer

-------------------------------------------------------------------------------
(***************************************************************************)
(* Texts                                                                   *)
(***************************************************************************)
LEMMA AllTexts ==
  ASSUME NEW A, NEW S, <<>> \in S,
         \A s \in Seq(A) : \A a \in A : s \in S => Append(s, a) \in S
  PROVE  \A s \in Seq(A) : s \in S
<1> DEFINE N == {n \in Nat : \A s \in Seq(A) : Len(s) = n => s \in S}
<1>1. 0 \in N
  <2>1. \A s \in Seq(A) : Len(s) = 0 => s = <<>>
    BY EmptySeq
  <2> QED
    BY <2>1
<1>2. ASSUME NEW n \in Nat, n \in N
      PROVE  n + 1 \in N
  <2>1. SUFFICES ASSUME NEW s \in Seq(A), Len(s) = n + 1 PROVE s \in S
    OBVIOUS
  <2>2. s # <<>>
    BY <1>2, <2>1
  <2>3. PICK t \in Seq(A), a \in A : s = Append(t, a)
    BY <2>2, SequenceEmptyOrAppend
  <2>4. Len(t) = n
    <3>1. Len(s) = Len(t) + 1 /\ Len(t) \in Nat
      BY <2>3, AppendProperties
    <3> QED
      BY <1>2, <2>1, <3>1
  <2>5. t \in S
    BY <1>2, <2>4
  <2> QED
    BY <2>3, <2>5
<1> HIDE DEF N
<1>3. \A n \in Nat : n \in N
  BY <1>1, <1>2, AllNumbers
<1>4. \A s \in Seq(A) : Len(s) \in Nat
  OBVIOUS
<1> QED
  BY <1>3, <1>4 DEF N

\* What is appended to the second of two texts is appended to both.
LEMMA AppendToConcat ==
  ASSUME NEW A, NEW s \in Seq(A), NEW t \in Seq(A), NEW a \in A
  PROVE  s \o Append(t, a) = Append(s \o t, a)
<1>1. Append(t, a) = t \o <<a>> /\ <<a>> \in Seq(A) /\ s \o t \in Seq(A)
  BY AppendIsConcat, ConcatProperties
<1>2. Append(s \o t, a) = (s \o t) \o <<a>>
  BY <1>1, AppendIsConcat
<1> QED
  BY <1>1, <1>2, ConcatAssociative

LEMMA AppendFacts ==
  ASSUME NEW A, NEW s \in Seq(A), NEW a \in A
  PROVE  /\ Append(s, a) \in Seq(A) /\ Append(s, a) # <<>>
         /\ Len(s) \in Nat /\ Len(Append(s, a)) = Len(s) + 1
         /\ Append(s, a)[Len(Append(s, a))] = a
         /\ \A i \in 1..Len(s) : Append(s, a)[i] = s[i]
         /\ SubSeq(Append(s, a), 1, Len(Append(s, a)) - 1) = s
<1>1. /\ Append(s, a) \in Seq(A) /\ Append(s, a) # <<>>
      /\ Len(s) \in Nat /\ Len(Append(s, a)) = Len(s) + 1
      /\ Append(s, a)[Len(Append(s, a))] = a
      /\ \A i \in 1..Len(s) : Append(s, a)[i] = s[i]
  BY AppendProperties
<1> DEFINE t == Append(s, a)
           n == Len(s)
<1> HIDE DEF t, n
<1>2. n \in Int /\ 1 \in Int /\ Len(t) - 1 = n /\ \A i \in 1..n : t[i] \in A
  BY <1>1 DEF t, n
<1>3. /\ SubSeq(t, 1, n) \in Seq(A) /\ Len(SubSeq(t, 1, n)) = IF 1 <= n THEN n - 1 + 1 ELSE 0
      /\ \A i \in 1..(n - 1 + 1) : SubSeq(t, 1, n)[i] = t[1 + i - 1]
  BY <1>2, SubSeqProperties
<1>4. Len(SubSeq(t, 1, n)) = n /\ \A i \in 1..n : SubSeq(t, 1, n)[i] = t[i]
  BY <1>1, <1>2, <1>3 DEF n
<1>5. SubSeq(t, 1, n) = s
  BY <1>1, <1>3, <1>4, SeqEqual DEF t, n
<1> QED
  BY <1>1, <1>2, <1>5 DEF t, n

-------------------------------------------------------------------------------
(***************************************************************************)
(* Line endings                                                            *)
(***************************************************************************)
EndsInCr(text) == text # <<>> /\ text[Len(text)] = "\r"

Kept(text) ==
  [i \in DOMAIN text |->
     IF text[i] = "\r" /\ i + 1 \in DOMAIN text /\ text[i + 1] = "\n" THEN <<>> ELSE <<text[i]>>]

\* LfOnly, an atom at a time: a line feed replaces the carriage return before it.
Normal(text, a) ==
  IF a = "\n" /\ EndsInCr(text) THEN Append(SubSeq(text, 1, Len(text) - 1), a)
  ELSE Append(text, a)

LEMMA LfOnlyIsKept ==
  ASSUME NEW A, NEW text \in Seq(A)
  PROVE  /\ LfOnly(text) = UpTo(Kept(text), Len(text))
         /\ TextsOver(A, Kept(text), Len(text))
         /\ LfOnly(text) \in Seq(A)
<1>1. DOMAIN text = 1..Len(text) /\ Len(text) \in Nat /\ \A i \in 1..Len(text) : text[i] \in A
  OBVIOUS
<1>2. DOMAIN Kept(text) = 1..Len(text) /\ Len(Kept(text)) = Len(text)
  BY <1>1 DEF Kept
<1>3. LfOnly(text) = UpTo(Kept(text), Len(text))
  BY <1>2 DEF LfOnly, Concat, Kept
<1>4. TextsOver(A, Kept(text), Len(text))
  BY <1>1 DEF TextsOver, Kept
<1> QED
  BY <1>1, <1>3, <1>4, UpToType

LEMMA LfOnlySteps ==
  ASSUME NEW A, NEW text \in Seq(A), NEW a \in A
  PROVE  LfOnly(Append(text, a)) = Normal(LfOnly(text), a)
<1> DEFINE n == Len(text)
           longer == Append(text, a)
           kept == Kept(text)
           more == Kept(longer)
<1>1. /\ longer \in Seq(A) /\ n \in Nat /\ Len(longer) = n + 1 /\ longer[n + 1] = a
      /\ \A i \in 1..n : longer[i] = text[i]
      /\ DOMAIN text = 1..n /\ DOMAIN longer = 1..(n + 1)
  BY AppendProperties
<1> HIDE DEF longer
<1>2. /\ LfOnly(text) = UpTo(kept, n) /\ TextsOver(A, kept, n)
      /\ LfOnly(longer) = UpTo(more, n + 1) /\ TextsOver(A, more, n + 1)
  BY <1>1, LfOnlyIsKept
<1>3. more[n + 1] = <<a>>
  BY <1>1 DEF Kept
<1>4. /\ UpTo(more, n) \in Seq(A)
      /\ LfOnly(longer) = Append(UpTo(more, n), a)
  <2>1. UpTo(more, n) \in Seq(A) /\ UpTo(more, n + 1) = UpTo(more, n) \o more[n + 1]
    BY <1>1, <1>2, UpToSteps
  <2> QED
    BY <1>2, <1>3, <2>1, AppendIsConcat
<1>5. CASE n = 0
  <2>1. UpTo(more, n) = <<>> /\ UpTo(kept, n) = <<>>
    BY <1>5, UpToNone
  <2> QED
    BY <1>2, <1>4, <2>1 DEF Normal, EndsInCr, longer
<1>6. CASE n # 0
  <2> DEFINE m == n - 1
             c == text[n]
  <2>1. m \in Nat /\ m + 1 = n /\ n \in 1..n /\ n \in 1..(n + 1) /\ c \in A
    BY <1>1, <1>6
  <2>2. \A i \in 1..m : i \in 1..n /\ i \in 1..(n + 1) /\ i + 1 \in 1..n /\ i + 1 \in 1..(n + 1)
    BY <1>1, <2>1
  <2>3. \A i \in 1..m : kept[i] = more[i]
    BY <1>1, <2>2 DEF Kept
  <2>4. kept[n] = <<c>>
    <3>1. n \in DOMAIN text /\ n + 1 \notin DOMAIN text
      BY <1>1, <2>1
    <3> QED
      BY <3>1 DEF Kept
  <2>5. more[n] = IF c = "\r" /\ a = "\n" THEN <<>> ELSE <<c>>
    <3>1. n \in DOMAIN longer /\ n + 1 \in DOMAIN longer
      BY <1>1, <2>1
    <3> QED
      BY <1>1, <2>1, <3>1 DEF Kept
  <2> HIDE DEF m, c, kept, more
  <2>6. TextsOver(A, kept, m + 1) /\ TextsOver(A, more, m + 1) /\ TextsOver(A, more, m)
    BY <1>1, <1>2, <2>1, <2>2 DEF TextsOver
  <2> DEFINE u == UpTo(kept, m)
  <2>7. u \in Seq(A) /\ UpTo(kept, m + 1) = u \o kept[m + 1]
    BY <2>1, <2>6, UpToSteps
  <2>8. u = UpTo(more, m)
    BY <2>1, <2>3, <2>6, UpToSame
  <2>9. UpTo(more, m + 1) = u \o more[m + 1]
    BY <2>1, <2>6, <2>8, UpToSteps
  <2> HIDE DEF u
  <2>10. LfOnly(text) = Append(u, c)
    BY <1>2, <2>1, <2>4, <2>7, AppendIsConcat
  <2>11. /\ LfOnly(text) # <<>> /\ LfOnly(text)[Len(LfOnly(text))] = c
         /\ SubSeq(LfOnly(text), 1, Len(LfOnly(text)) - 1) = u
    BY <2>1, <2>7, <2>10, AppendFacts
  <2>12. CASE c = "\r" /\ a = "\n"
    <3>1. UpTo(more, n) = u
      BY <2>1, <2>5, <2>7, <2>9, <2>12, ConcatEmptySeq
    <3> QED
      BY <1>4, <2>11, <2>12, <3>1 DEF Normal, EndsInCr, longer
  <2>13. CASE ~(c = "\r" /\ a = "\n")
    <3>1. UpTo(more, n) = LfOnly(text)
      BY <2>1, <2>5, <2>7, <2>9, <2>10, <2>13, AppendIsConcat
    <3> QED
      BY <1>4, <2>11, <2>13, <3>1 DEF Normal, EndsInCr, longer
  <2> QED
    BY <2>12, <2>13
<1> QED
  BY <1>5, <1>6

LEMMA LfOnlyNone == LfOnly(<<>>) = <<>>
<1>1. <<>> \in Seq({}) /\ Len(<<>>) = 0
  OBVIOUS
<1> QED
  BY <1>1, LfOnlyIsKept, UpToNone

\* The text read so far only counts by what it has become.
LEMMA LfOnlyGoesOn ==
  ASSUME NEW A, NEW s \in Seq(A), NEW t \in Seq(A), LfOnly(s) = LfOnly(t)
  PROVE  \A x \in Seq(A) : LfOnly(s \o x) = LfOnly(t \o x)
<1> DEFINE S == {x \in Seq(A) : LfOnly(s \o x) = LfOnly(t \o x)}
<1>1. <<>> \in S
  BY ConcatEmptySeq
<1>2. ASSUME NEW x \in Seq(A), NEW a \in A, x \in S
      PROVE  Append(x, a) \in S
  <2>1. s \o x \in Seq(A) /\ t \o x \in Seq(A) /\ Append(x, a) \in Seq(A)
    BY ConcatProperties, AppendFacts
  <2>2. s \o Append(x, a) = Append(s \o x, a) /\ t \o Append(x, a) = Append(t \o x, a)
    BY AppendToConcat
  <2>3. /\ LfOnly(Append(s \o x, a)) = Normal(LfOnly(s \o x), a)
        /\ LfOnly(Append(t \o x, a)) = Normal(LfOnly(t \o x), a)
    BY <2>1, LfOnlySteps
  <2> QED
    BY <1>2, <2>1, <2>2, <2>3
<1> HIDE DEF S
<1>3. \A x \in Seq(A) : x \in S
  BY <1>1, <1>2, AllTexts
<1> QED
  BY <1>3 DEF S

LEMMA NormalEnds ==
  ASSUME NEW A, NEW s \in Seq(A), NEW a \in A
  PROVE  \E u \in Seq(A) : /\ Normal(s, a) = Append(u, a) 
                           /\ (a # "\n" \/ ~EndsInCr(s)) => u = s
<1>1. CASE a = "\n" /\ EndsInCr(s)
  <2>1. PICK t \in Seq(A), c \in A : s = Append(t, c)
    BY <1>1, SequenceEmptyOrAppend DEF EndsInCr
  <2>2. SubSeq(s, 1, Len(s) - 1) = t
    BY <2>1, AppendFacts
  <2> QED
    BY <1>1, <2>2 DEF Normal
<1>2. CASE ~(a = "\n" /\ EndsInCr(s))
  BY <1>2 DEF Normal
<1> QED
  BY <1>1, <1>2

LEMMA NormalOfConcat ==
  ASSUME NEW A, NEW s \in Seq(A), NEW t \in Seq(A), NEW a \in A, ~EndsInCr(s)
  PROVE  Normal(s \o t, a) = s \o Normal(t, a)
<1>1. CASE t = <<>>
  <2>1. s \o t = s /\ Append(s, a) = s \o <<a>> /\ Append(t, a) = <<a>>
    BY <1>1, ConcatEmptySeq, AppendIsConcat
  <2> QED
    BY <1>1, <2>1 DEF Normal, EndsInCr
<1>2. CASE t # <<>>
  <2>1. PICK u \in Seq(A), c \in A : t = Append(u, c)
    BY <1>2, SequenceEmptyOrAppend
  <2>2. s \o t = Append(s \o u, c) /\ s \o u \in Seq(A)
    BY <2>1, AppendToConcat, ConcatProperties
  <2>3. /\ t # <<>> /\ t[Len(t)] = c /\ SubSeq(t, 1, Len(t) - 1) = u
        /\ s \o t # <<>> /\ (s \o t)[Len(s \o t)] = c
        /\ SubSeq(s \o t, 1, Len(s \o t) - 1) = s \o u
    BY <2>1, <2>2, AppendFacts
  <2>4. /\ s \o Append(u, a) = Append(s \o u, a)
        /\ s \o Append(t, a) = Append(s \o t, a)
    BY AppendToConcat
  <2> QED
    BY <2>3, <2>4 DEF Normal, EndsInCr
<1> QED
  BY <1>1, <1>2

LEMMA LfOnlyOfConcat ==
  ASSUME NEW A, NEW s \in Seq(A), ~EndsInCr(LfOnly(s))
  PROVE  \A t \in Seq(A) : LfOnly(s \o t) = LfOnly(s) \o LfOnly(t)
<1> DEFINE S == {t \in Seq(A) : LfOnly(s \o t) = LfOnly(s) \o LfOnly(t)}
<1>1. <<>> \in S
  <2>1. LfOnly(s) \in Seq(A)
    BY LfOnlyIsKept
  <2> QED
    BY <2>1, ConcatEmptySeq, LfOnlyNone
<1>2. ASSUME NEW t \in Seq(A), NEW a \in A, t \in S
      PROVE  Append(t, a) \in S
  <2>1. LfOnly(s) \in Seq(A) /\ LfOnly(t) \in Seq(A) /\ s \o t \in Seq(A)
    BY LfOnlyIsKept, ConcatProperties
  <2>2. s \o Append(t, a) = Append(s \o t, a)
    BY AppendToConcat
  <2>3. LfOnly(Append(s \o t, a)) = Normal(LfOnly(s) \o LfOnly(t), a)
    BY <1>2, <2>1, LfOnlySteps
  <2>4. Normal(LfOnly(s) \o LfOnly(t), a) = LfOnly(s) \o Normal(LfOnly(t), a)
    BY <2>1, NormalOfConcat
  <2>5. LfOnly(Append(t, a)) = Normal(LfOnly(t), a)
    BY LfOnlySteps
  <2>6. Append(t, a) \in Seq(A)
    BY AppendFacts
  <2> QED
    BY <2>2, <2>3, <2>4, <2>5, <2>6
<1> HIDE DEF S
<1>3. \A t \in Seq(A) : t \in S
  BY <1>1, <1>2, AllTexts
<1> QED
  BY <1>3 DEF S

-------------------------------------------------------------------------------
(***************************************************************************)
(* Tidy texts: no line ending is behind another or behind a stray "\r".    *)
(***************************************************************************)
Tidy(text) ==
  \A i \in DOMAIN text : i + 1 \in DOMAIN text /\ text[i + 1] = "\n" => text[i] \notin {"\r", "\n"}

LEMMA TidySteps ==
  ASSUME NEW A, NEW s \in Seq(A), NEW a \in A
  PROVE  Tidy(Append(s, a)) <=>
           Tidy(s) /\ (a = "\n" /\ s # <<>> => s[Len(s)] \notin {"\r", "\n"})
<1> DEFINE t == Append(s, a)
           n == Len(s)
<1>1. /\ n \in Nat /\ DOMAIN s = 1..n /\ DOMAIN t = 1..(n + 1) /\ t[n + 1] = a
      /\ \A i \in 1..n : t[i] = s[i]
      /\ s # <<>> <=> n # 0
  BY AppendFacts, EmptySeq
<1> HIDE DEF t, n
<1>2. \A i \in 1..n : i + 1 \in 1..(n + 1) <=> TRUE
  BY <1>1
<1>3. \A i \in 1..(n + 1) : i + 1 \in 1..(n + 1) => i \in 1..n /\ (i + 1 \in 1..n \/ i = n)
  BY <1>1
<1>4. \A i \in 1..n : i + 1 \in 1..n => i \in 1..(n + 1) /\ i + 1 \in 1..(n + 1)
  BY <1>1
<1>5. n # 0 => n \in 1..n /\ n \in 1..(n + 1) /\ n + 1 \in 1..(n + 1)
  BY <1>1
<1>6. ASSUME Tidy(t)
      PROVE  Tidy(s) /\ (a = "\n" /\ s # <<>> => s[n] \notin {"\r", "\n"})
  <2>1. Tidy(s)
    BY <1>1, <1>4, <1>6 DEF Tidy
  <2> QED
    BY <1>1, <1>5, <1>6, <2>1 DEF Tidy
<1>7. ASSUME Tidy(s), a = "\n" /\ s # <<>> => s[n] \notin {"\r", "\n"}
      PROVE  Tidy(t)
  <2>1. ASSUME NEW i \in 1..(n + 1), i + 1 \in 1..(n + 1), t[i + 1] = "\n"
        PROVE  t[i] \notin {"\r", "\n"}
    <3>1. CASE i + 1 \in 1..n
      BY <1>1, <1>3, <1>7, <2>1, <3>1 DEF Tidy
    <3>2. CASE i = n
      BY <1>1, <1>3, <1>7, <2>1, <3>2
    <3> QED
      BY <1>3, <2>1, <3>1, <3>2
  <2> QED
    BY <1>1, <2>1 DEF Tidy
<1> QED
  BY <1>6, <1>7 DEF t, n

LEMMA TidyBeginnings ==
  ASSUME NEW A, NEW s \in Seq(A)
  PROVE  \A t \in Seq(A) : Tidy(s \o t) => Tidy(s)
<1> DEFINE S == {t \in Seq(A) : Tidy(s \o t) => Tidy(s)}
<1>1. <<>> \in S
  BY ConcatEmptySeq
<1>2. ASSUME NEW t \in Seq(A), NEW a \in A, t \in S
      PROVE  Append(t, a) \in S
  <2>1. s \o Append(t, a) = Append(s \o t, a) /\ s \o t \in Seq(A) /\ Append(t, a) \in Seq(A)
    BY AppendToConcat, ConcatProperties, AppendFacts
  <2> QED
    BY <1>2, <2>1, TidySteps
<1> HIDE DEF S
<1>3. \A t \in Seq(A) : t \in S
  BY <1>1, <1>2, AllTexts
<1> QED
  BY <1>3 DEF S

LEMMA TidyStays ==
  ASSUME NEW A
  PROVE  \A s \in Seq(A) : Tidy(s) => LfOnly(s) = s
<1> DEFINE S == {s \in Seq(A) : Tidy(s) => LfOnly(s) = s}
<1>1. <<>> \in S
  BY LfOnlyNone
<1>2. ASSUME NEW s \in Seq(A), NEW a \in A, s \in S
      PROVE  Append(s, a) \in S
  <2>1. Append(s, a) \in Seq(A) /\ LfOnly(Append(s, a)) = Normal(LfOnly(s), a)
    BY LfOnlySteps, AppendFacts
  <2>2. ASSUME Tidy(Append(s, a))
        PROVE  LfOnly(Append(s, a)) = Append(s, a)
    <3>1. LfOnly(s) = s /\ (a = "\n" /\ s # <<>> => s[Len(s)] \notin {"\r", "\n"})
      BY <1>2, <2>2, TidySteps
    <3> QED
      BY <2>1, <3>1 DEF Normal, EndsInCr
  <2> QED
    BY <2>1, <2>2
<1> HIDE DEF S
<1>3. \A s \in Seq(A) : s \in S
  BY <1>1, <1>2, AllTexts
<1> QED
  BY <1>3 DEF S

\* A word behind a tidy text: its line may be ended.
LEMMA TidyWords ==
  ASSUME NEW A, NEW s \in Seq(A), Tidy(s)
  PROVE  \A w \in Seq(A \ {"\r", "\n"}) :
           Tidy(s \o w) /\ (w # <<>> => (s \o w)[Len(s \o w)] \notin {"\r", "\n"})
<1> DEFINE Good(w) == Tidy(s \o w) /\ (w # <<>> => (s \o w)[Len(s \o w)] \notin {"\r", "\n"})
           S == {w \in Seq(A \ {"\r", "\n"}) : Good(w)}
<1>1. <<>> \in S
  BY ConcatEmptySeq
<1>2. ASSUME NEW w \in Seq(A \ {"\r", "\n"}), NEW a \in A \ {"\r", "\n"}, w \in S
      PROVE  Append(w, a) \in S
  <2>1. w \in Seq(A) /\ a \in A
    BY SeqMonotonic
  <2>2. /\ s \o Append(w, a) = Append(s \o w, a) /\ s \o w \in Seq(A)
        /\ Append(w, a) \in Seq(A \ {"\r", "\n"})
    BY <2>1, AppendToConcat, ConcatProperties, AppendFacts
  <2>3. Append(s \o w, a)[Len(Append(s \o w, a))] = a
    BY <2>1, <2>2, AppendFacts
  <2>4. Tidy(Append(s \o w, a))
    BY <1>2, <2>1, <2>2, TidySteps
  <2> QED
    BY <2>2, <2>3, <2>4
<1> HIDE DEF S
<1>3. \A w \in Seq(A \ {"\r", "\n"}) : w \in S
  BY <1>1, <1>2, AllTexts
<1> QED
  BY <1>3 DEF S

-------------------------------------------------------------------------------
(***************************************************************************)
(* Frames and lines                                                        *)
(***************************************************************************)
Gap == LF \o LF

LEMMA PairOf ==
  ASSUME NEW A, NEW s \in Seq(A), Len(s) = 2, NEW a \in A, NEW b \in A, s[1] = a, s[2] = b
  PROVE  s = <<a, b>>
<1> DEFINE two == <<a, b>>
<1>1. two \in Seq(A) /\ Len(two) = 2 /\ two[1] = a /\ two[2] = b
  OBVIOUS
<1>2. \A i \in 1..2 : i = 1 \/ i = 2
  OBVIOUS
<1> HIDE DEF two
<1>3. s = two
  BY <1>1, <1>2, SeqEqual
<1> QED
  BY <1>3 DEF two

LEMMA SingleOf ==
  ASSUME NEW A, NEW t, NEW m \in Int, NEW n \in Int, m = n, t[n] \in A
  PROVE  SubSeq(t, m, n) = <<t[n]>>
<1> DEFINE s == SubSeq(t, m, n)
           one == <<t[n]>>
<1>1. \A i \in m..n : t[i] \in A
  OBVIOUS
<1>2. /\ s \in Seq(A) /\ Len(s) = IF m <= n THEN n - m + 1 ELSE 0
      /\ \A i \in 1..(n - m + 1) : s[i] = t[m + i - 1]
  BY <1>1, SubSeqProperties
<1> HIDE DEF s
<1>3. Len(s) = 1 /\ s[1] = t[n]
  BY <1>2
<1>4. one \in Seq(A) /\ Len(one) = 1 /\ one[1] = t[n] /\ \A i \in 1..1 : i = 1
  OBVIOUS
<1> HIDE DEF one
<1>5. s = one
  BY <1>2, <1>3, <1>4, SeqEqual
<1> QED
  BY <1>5 DEF s, one

LEMMA GapIs ==
  /\ Gap = <<"\n", "\n">> /\ Gap \in Seq(Atoms) /\ Len(Gap) = 2
  /\ LF \in Seq(Atoms) /\ "\n" \in Atoms /\ "\r" \in Atoms
<1>1. "\n" \in Atoms /\ "\r" \in Atoms
  BY DEF Atoms
<1>2. LF \in Seq(Atoms) /\ Len(LF) = 1 /\ LF[1] = "\n"
  BY <1>1 DEF LF
<1> DEFINE two == Append(LF, "\n")
<1>a. /\ two \in Seq(Atoms) /\ Len(two) = Len(LF) + 1 /\ two[Len(two)] = "\n"
      /\ \A i \in 1..Len(LF) : two[i] = LF[i]
  BY <1>1, <1>2, AppendFacts
<1>b. Gap = two
  BY <1>1, <1>2, AppendIsConcat DEF Gap, LF
<1> HIDE DEF two
<1>3. Gap \in Seq(Atoms) /\ Len(Gap) = 2 /\ Gap[1] = "\n" /\ Gap[2] = "\n"
  BY <1>2, <1>a, <1>b
<1>4. Gap = <<"\n", "\n">>
  BY <1>1, <1>3, PairOf
<1> QED
  BY <1>1, <1>2, <1>3, <1>4

LEMMA LastAtoms ==
  ASSUME NEW A, NEW s \in Seq(A), NEW a \in A, s # <<>>
  PROVE  SubSeq(Append(s, a), Len(s), Len(s) + 1) = <<s[Len(s)], a>>
<1> DEFINE t == Append(s, a)
           n == Len(s)
<1>1. /\ n \in Nat /\ n # 0 /\ t \in Seq(A) /\ t[n + 1] = a /\ n \in 1..n /\ t[n] = s[n]
      /\ Len(t) = n + 1 /\ s[n] \in A
  BY AppendFacts, EmptySeq
<1> HIDE DEF t, n
<1>2. n \in Int /\ n + 1 \in Int /\ \A i \in n..(n + 1) : t[i] \in A
  BY <1>1
<1>3. /\ SubSeq(t, n, n + 1) \in Seq(A)
      /\ Len(SubSeq(t, n, n + 1)) = IF n <= n + 1 THEN n + 1 - n + 1 ELSE 0
      /\ \A i \in 1..(n + 1 - n + 1) : SubSeq(t, n, n + 1)[i] = t[n + i - 1]
  BY <1>2, SubSeqProperties
<1>4. Len(SubSeq(t, n, n + 1)) = 2 /\ SubSeq(t, n, n + 1)[1] = t[n] /\ SubSeq(t, n, n + 1)[2] = t[n + 1]
  BY <1>1, <1>3
<1> DEFINE pair == SubSeq(t, n, n + 1)
           c == s[n]
<1>5. pair \in Seq(A) /\ Len(pair) = 2 /\ pair[1] = c /\ pair[2] = a /\ c \in A
  BY <1>1, <1>3, <1>4
<1> HIDE DEF pair, c
<1>6. pair = <<c, a>>
  BY <1>5, PairOf
<1> QED
  BY <1>6 DEF t, n, pair, c

LEMMA LastAtom ==
  ASSUME NEW A, NEW s \in Seq(A), NEW a \in A
  PROVE  SubSeq(Append(s, a), Len(s) + 1, Len(s) + 1) = <<a>>
<1> DEFINE t == Append(s, a)
           n == Len(s) + 1
<1>1. n \in Nat /\ t[n] = a
  BY AppendFacts
<1> HIDE DEF t, n
<1>2. SubSeq(t, n, n) = <<a>>
  BY <1>1, SingleOf
<1> QED
  BY <1>2 DEF t, n

LEMMA CutAtGap ==
  ASSUME NEW A, NEW c, NEW s \in Seq(A), NEW a \in A
  PROVE  /\ ~(a = "\n" /\ s # <<>> /\ s[Len(s)] = "\n")
            => Cut([complete |-> c, rest |-> s], a, Gap) = [complete |-> c, rest |-> Append(s, a)]
         /\ \A b \in Seq(A) :
              a = "\n" /\ s = Append(b, "\n") 
              => Cut([complete |-> c, rest |-> s], a, Gap) = [complete |-> Append(c, b), rest |-> <<>>]
<1> DEFINE rest == Append(s, a)
           n == Len(rest) - Len(Gap)
           parts == [complete |-> c, rest |-> s]
<1>1. /\ Len(s) \in Nat /\ Len(rest) = Len(s) + 1 /\ n = Len(s) - 1
      /\ s # <<>> <=> Len(s) # 0
  BY GapIs, AppendFacts, EmptySeq
<1>2. Cut(parts, a, Gap) =
        IF n >= 0 /\ SubSeq(rest, n + 1, Len(rest)) = Gap
        THEN [complete |-> Append(c, SubSeq(rest, 1, n)), rest |-> <<>>]
        ELSE [complete |-> c, rest |-> rest]
  BY DEF Cut
<1>3. n >= 0 <=> s # <<>>
  BY <1>1
<1>4. s # <<>> => SubSeq(rest, n + 1, Len(rest)) = <<s[Len(s)], a>>
  <2>1. n + 1 = Len(s)
    BY <1>1
  <2> QED
    BY <1>1, <2>1, LastAtoms
<1> HIDE DEF parts
<1>5. SubSeq(rest, n + 1, Len(rest)) = Gap /\ s # <<>> <=> (a = "\n" /\ s # <<>> /\ s[Len(s)] = "\n")
  BY <1>4, GapIs
<1>6. ASSUME ~(a = "\n" /\ s # <<>> /\ s[Len(s)] = "\n")
      PROVE  Cut(parts, a, Gap) = [complete |-> c, rest |-> Append(s, a)]
  BY <1>2, <1>3, <1>5, <1>6
<1>7. ASSUME NEW b \in Seq(A), a = "\n", s = Append(b, "\n")
      PROVE  Cut(parts, a, Gap) = [complete |-> Append(c, b), rest |-> <<>>]
  <2>1. /\ s # <<>> /\ s[Len(s)] = "\n" /\ SubSeq(s, 1, Len(s) - 1) = b
        /\ \A i \in 1..Len(s) : rest[i] = s[i]
    BY <1>7, AppendFacts
  <2>2. SubSeq(rest, 1, n) = SubSeq(s, 1, n)
    <3>1. \A i \in 1..n : i \in 1..Len(s) /\ rest[i] = s[i] /\ s[i] \in A
      BY <1>1, <2>1
    <3> HIDE DEF rest, n
    <3>2. n \in Int /\ 1 \in Int
      BY <1>1
    <3>3. /\ SubSeq(rest, 1, n) \in Seq(A) /\ SubSeq(s, 1, n) \in Seq(A)
          /\ Len(SubSeq(rest, 1, n)) = Len(SubSeq(s, 1, n))
          /\ Len(SubSeq(rest, 1, n)) = IF 1 <= n THEN n - 1 + 1 ELSE 0
          /\ \A i \in 1..(n - 1 + 1) : /\ SubSeq(rest, 1, n)[i] = rest[1 + i - 1]
                                       /\ SubSeq(s, 1, n)[i] = s[1 + i - 1]
      <4>1. \A i \in 1..n : rest[i] \in A /\ s[i] \in A
        BY <3>1
      <4>2. /\ SubSeq(rest, 1, n) \in Seq(A) /\ Len(SubSeq(rest, 1, n)) = IF 1 <= n THEN n - 1 + 1 ELSE 0
            /\ \A i \in 1..(n - 1 + 1) : SubSeq(rest, 1, n)[i] = rest[1 + i - 1]
        BY <3>2, <4>1, SubSeqProperties
      <4>3. /\ SubSeq(s, 1, n) \in Seq(A) /\ Len(SubSeq(s, 1, n)) = IF 1 <= n THEN n - 1 + 1 ELSE 0
            /\ \A i \in 1..(n - 1 + 1) : SubSeq(s, 1, n)[i] = s[1 + i - 1]
        BY <3>2, <4>1, SubSeqProperties
      <4> QED
        BY <4>2, <4>3
    <3>4. \A i \in 1..Len(SubSeq(rest, 1, n)) : SubSeq(rest, 1, n)[i] = SubSeq(s, 1, n)[i]
      BY <3>1, <3>2, <3>3
    <3> QED
      BY <3>3, <3>4, SeqEqual
  <2> QED
    BY <1>1, <1>2, <1>3, <1>5, <1>7, <2>1, <2>2
<1> QED
  BY <1>6, <1>7 DEF parts

LEMMA CutAtLf ==
  ASSUME NEW A, NEW c, NEW s \in Seq(A), NEW a \in A
  PROVE  /\ a = "\n" => Cut([complete |-> c, rest |-> s], a, LF) = [complete |-> Append(c, s), rest |-> <<>>]
         /\ a # "\n" => Cut([complete |-> c, rest |-> s], a, LF) = [complete |-> c, rest |-> Append(s, a)]
<1> DEFINE rest == Append(s, a)
           n == Len(rest) - Len(LF)
<1>1. Len(s) \in Nat /\ Len(rest) = Len(s) + 1 /\ n = Len(s) /\ SubSeq(rest, 1, Len(rest) - 1) = s
  BY AppendFacts DEF LF
<1>2. Cut([complete |-> c, rest |-> s], a, LF) =
        IF n >= 0 /\ SubSeq(rest, n + 1, Len(rest)) = LF
        THEN [complete |-> Append(c, SubSeq(rest, 1, n)), rest |-> <<>>]
        ELSE [complete |-> c, rest |-> rest]
  BY DEF Cut
<1>3. SubSeq(rest, n + 1, Len(rest)) = <<a>>
  BY <1>1, LastAtom
<1>4. SubSeq(rest, 1, n) = s
  <2>1. Len(rest) - 1 = n
    BY <1>1
  <2> QED
    BY <1>1, <2>1
<1>5. n >= 0 /\ (<<a>> = LF <=> a = "\n")
  BY <1>1 DEF LF
<1> HIDE DEF n, rest
<1> QED
  BY <1>2, <1>3, <1>4, <1>5 DEF rest

\* A tidy text behind complete frames completes none, until it ends with a gap.
LEMMA SplitAtGaps ==
  ASSUME NEW y \in Seq(Atoms), NEW c, Split(y, Gap) = [complete |-> c, rest |-> <<>>]
  PROVE  \A z \in Seq(Atoms) : Tidy(z) => Split(y \o z, Gap) = [complete |-> c, rest |-> z]
<1> DEFINE S == {z \in Seq(Atoms) : Tidy(z) => Split(y \o z, Gap) = [complete |-> c, rest |-> z]}
<1>1. <<>> \in S
  BY ConcatEmptySeq
<1>2. ASSUME NEW z \in Seq(Atoms), NEW a \in Atoms, z \in S
      PROVE  Append(z, a) \in S
  <2>1. /\ y \o Append(z, a) = Append(y \o z, a) /\ y \o z \in Seq(Atoms)
        /\ Append(z, a) \in Seq(Atoms)
    BY AppendToConcat, ConcatProperties, AppendFacts
  <2>2. Split(Append(y \o z, a), Gap) = Cut(Split(y \o z, Gap), a, Gap)
    BY <2>1, GapIs, SplitSteps
  <2>3. ASSUME Tidy(Append(z, a))
        PROVE  Split(Append(y \o z, a), Gap) = [complete |-> c, rest |-> Append(z, a)]
    <3>1. Tidy(z) /\ ~(a = "\n" /\ z # <<>> /\ z[Len(z)] = "\n")
      BY <2>3, TidySteps
    <3>2. Split(y \o z, Gap) = [complete |-> c, rest |-> z]
      BY <1>2, <3>1
    <3>3. Cut([complete |-> c, rest |-> z], a, Gap) = [complete |-> c, rest |-> Append(z, a)]
      BY <3>1, CutAtGap
    <3> QED
      BY <2>2, <3>2, <3>3
  <2> QED
    BY <2>1, <2>3
<1> HIDE DEF S
<1>3. \A z \in Seq(Atoms) : z \in S
  BY <1>1, <1>2, AllTexts
<1> QED
  BY <1>3 DEF S

LEMMA SplitEndsFrame ==
  ASSUME NEW y \in Seq(Atoms), NEW c, Split(y, Gap) = [complete |-> c, rest |-> <<>>],
         NEW b \in Seq(Atoms), Tidy(Append(b, "\n"))
  PROVE  Split(y \o Append(Append(b, "\n"), "\n"), Gap) = [complete |-> Append(c, b), rest |-> <<>>]
<1> DEFINE z == Append(b, "\n")
<1>1. z \in Seq(Atoms) /\ "\n" \in Atoms
  BY GapIs, AppendFacts
<1>2. Split(y \o z, Gap) = [complete |-> c, rest |-> z]
  BY <1>1, SplitAtGaps
<1>3. y \o Append(z, "\n") = Append(y \o z, "\n") /\ y \o z \in Seq(Atoms)
  BY <1>1, AppendToConcat, ConcatProperties
<1>4. Split(Append(y \o z, "\n"), Gap) = Cut([complete |-> c, rest |-> z], "\n", Gap)
  BY <1>1, <1>2, <1>3, GapIs, SplitSteps
<1>5. Cut([complete |-> c, rest |-> z], "\n", Gap) = [complete |-> Append(c, b), rest |-> <<>>]
  BY <1>1, CutAtGap
<1> QED
  BY <1>3, <1>4, <1>5

LEMMA SplitEndsLine ==
  ASSUME NEW y \in Seq(Atoms), NEW c, Split(y, LF) = [complete |-> c, rest |-> <<>>]
  PROVE  \A w \in Line : /\ Split(y \o w, LF) = [complete |-> c, rest |-> w]
                         /\ Split((y \o w) \o LF, LF) = [complete |-> Append(c, w), rest |-> <<>>]
<1> DEFINE S == {w \in Line : Split(y \o w, LF) = [complete |-> c, rest |-> w]}
<1>1. <<>> \in S
  BY ConcatEmptySeq DEF Line
<1>2. ASSUME NEW w \in Seq(Atoms \ {"\r", "\n"}), NEW a \in Atoms \ {"\r", "\n"}, w \in S
      PROVE  Append(w, a) \in S
  <2>1. w \in Seq(Atoms) /\ a \in Atoms /\ Append(w, a) \in Line
    BY SeqMonotonic, AppendFacts DEF Line
  <2>2. y \o Append(w, a) = Append(y \o w, a) /\ y \o w \in Seq(Atoms)
    BY <2>1, AppendToConcat, ConcatProperties
  <2>3. Split(Append(y \o w, a), LF) = Cut(Split(y \o w, LF), a, LF)
    BY <2>1, <2>2, GapIs, SplitSteps
  <2>4. Cut([complete |-> c, rest |-> w], a, LF) = [complete |-> c, rest |-> Append(w, a)]
    <3>1. a # "\n"
      OBVIOUS
    <3> QED
      BY <2>1, <3>1, CutAtLf
  <2> QED
    BY <1>2, <2>1, <2>2, <2>3, <2>4
<1> HIDE DEF S
<1>3. \A w \in Line : w \in S
  BY <1>1, <1>2, AllTexts DEF Line
<1>4. ASSUME NEW w \in Line
      PROVE  Split((y \o w) \o LF, LF) = [complete |-> Append(c, w), rest |-> <<>>]
  <2>1. w \in Seq(Atoms) /\ "\n" \in Atoms
    BY GapIs, SeqMonotonic DEF Line
  <2>2. y \o w \in Seq(Atoms)
    BY <2>1, ConcatProperties
  <2>3. (y \o w) \o LF = Append(y \o w, "\n")
    BY <2>1, <2>2, AppendIsConcat DEF LF
  <2>4. Split(Append(y \o w, "\n"), LF) = Cut([complete |-> c, rest |-> w], "\n", LF)
    <3>1. Split(Append(y \o w, "\n"), LF) = Cut(Split(y \o w, LF), "\n", LF)
      BY <2>1, <2>2, GapIs, SplitSteps
    <3> QED
      BY <1>3, <3>1 DEF S
  <2>5. Cut([complete |-> c, rest |-> w], "\n", LF) = [complete |-> Append(c, w), rest |-> <<>>]
    BY <2>1, CutAtLf
  <2> QED
    BY <2>3, <2>4, <2>5
<1> QED
  BY <1>3, <1>4 DEF S

-------------------------------------------------------------------------------
(***************************************************************************)
(* The frame of an event                                                   *)
(***************************************************************************)
Events == Sendable \cup {Ping}

LEMMA LineIsText == \A w \in Line : w \in Seq(Atoms)
BY SeqMonotonic DEF Line

LEMMA SentEvent ==
  ASSUME NEW e \in Events, e # Ping
  PROVE  e.event \in Name /\ e.lines \in Seq(Line)
BY SseAssumption DEF Events

LEMMA FieldIsLine ==
  ASSUME NEW name \in {"event:", "data:"}, NEW w \in Line
  PROVE  /\ <<name, "blank">> \o w \in Line /\ <<name, "blank">> \o w # <<>>
         /\ (<<name, "blank">> \o w)[1] = name
         /\ Tail(<<name, "blank">> \o w) = <<"blank">> \o w
<1> DEFINE A == Atoms \ {"\r", "\n"}
           p == <<name, "blank">>
           q == <<"blank">>
<1>1. name \in A /\ "blank" \in A
  BY DEF Atoms
<1> HIDE DEF A
<1>2. p \in Seq(A) /\ Len(p) = 2 /\ p[1] = name /\ p[2] = "blank" /\ q \in Seq(A) /\ Len(q) = 1 /\ q[1] = "blank"
  BY <1>1
<1>3. w \in Seq(A) /\ Len(w) \in Nat
  BY DEF A, Line
<1> HIDE DEF p, q
<1>4. /\ p \o w \in Seq(A) /\ Len(p \o w) = Len(p) + Len(w)
      /\ \A i \in 1..(Len(p) + Len(w)) : (p \o w)[i] = IF i <= Len(p) THEN p[i] ELSE w[i - Len(p)]
  BY <1>2, <1>3, ConcatProperties
<1>5. /\ q \o w \in Seq(A) /\ Len(q \o w) = Len(q) + Len(w)
      /\ \A i \in 1..(Len(q) + Len(w)) : (q \o w)[i] = IF i <= Len(q) THEN q[i] ELSE w[i - Len(q)]
  BY <1>2, <1>3, ConcatProperties
<1> DEFINE s == p \o w
           t == q \o w
<1> HIDE DEF s, t
<1>6. /\ s \in Seq(A) /\ Len(s) = 2 + Len(w) /\ s[1] = name /\ s[2] = "blank"
      /\ \A i \in 1..Len(w) : s[i + 2] = w[i]
  <2>1. 1 \in 1..(Len(p) + Len(w)) /\ 2 \in 1..(Len(p) + Len(w)) /\ 1 <= Len(p) /\ 2 <= Len(p)
    BY <1>2, <1>3
  <2>2. \A i \in 1..Len(w) : i + 2 \in 1..(Len(p) + Len(w)) /\ ~(i + 2 <= Len(p)) /\ (i + 2) - Len(p) = i
    BY <1>2, <1>3
  <2>3. \A i \in 1..Len(w) : s[i + 2] = w[i]
    BY <1>4, <2>2 DEF s
  <2> QED
    BY <1>2, <1>4, <2>1, <2>3 DEF s
<1>7. /\ t \in Seq(A) /\ Len(t) = 1 + Len(w) /\ t[1] = "blank"
      /\ \A i \in 1..Len(w) : t[i + 1] = w[i]
  <2>1. 1 \in 1..(Len(q) + Len(w)) /\ 1 <= Len(q)
    BY <1>2, <1>3
  <2>2. \A i \in 1..Len(w) : i + 1 \in 1..(Len(q) + Len(w)) /\ ~(i + 1 <= Len(q)) /\ (i + 1) - Len(q) = i
    BY <1>2, <1>3
  <2>3. \A i \in 1..Len(w) : t[i + 1] = w[i]
    BY <1>5, <2>2 DEF t
  <2> QED
    BY <1>2, <1>5, <2>1, <2>3 DEF t
<1>8. s # <<>>
  BY <1>3, <1>6
<1>9. Tail(s) = t
  <2>1. /\ Tail(s) \in Seq(A) /\ Len(Tail(s)) = Len(s) - 1
        /\ \A i \in 1..Len(Tail(s)) : Tail(s)[i] = s[i + 1]
    BY <1>6, <1>8, HeadTailProperties
  <2> DEFINE u == Tail(s)
  <2> HIDE DEF u
  <2>2. Len(u) = Len(t) /\ \A i \in 1..Len(u) : u[i] = s[i + 1]
    BY <1>3, <1>6, <1>7, <2>1 DEF u
  <2>3. ASSUME NEW i \in 1..Len(u)
        PROVE  u[i] = t[i]
    <3>1. CASE i = 1
      BY <1>6, <1>7, <2>2, <2>3, <3>1
    <3>2. CASE i # 1
      <4>1. i - 1 \in 1..Len(w) /\ (i - 1) + 2 = i + 1 /\ (i - 1) + 1 = i
        BY <1>3, <1>7, <2>2, <2>3, <3>2
      <4>2. s[(i - 1) + 2] = w[i - 1] /\ t[(i - 1) + 1] = w[i - 1]
        BY <1>6, <1>7, <4>1
      <4> QED
        BY <2>2, <2>3, <4>1, <4>2
    <3> QED
      BY <3>1, <3>2
  <2>4. u \in Seq(A)
    BY <2>1 DEF u
  <2>5. u = t
    BY <1>7, <2>2, <2>3, <2>4, SeqEqual
  <2> QED
    BY <2>5 DEF u
<1> QED
  BY <1>6, <1>8, <1>9 DEF s, t, p, q, A, Line

LEMMA FieldsShape ==
  ASSUME NEW e \in Events, e # Ping
  PROVE  /\ FieldsOf(e) \in Seq(Line) /\ Len(FieldsOf(e)) = Len(e.lines) + 1
         /\ FieldsOf(e)[1] = <<"event:", "blank">> \o e.event
         /\ \A i \in 1..Len(e.lines) : FieldsOf(e)[i + 1] = <<"data:", "blank">> \o e.lines[i]
<1> DEFINE name == <<"event:", "blank">> \o e.event
           n == Len(e.lines)
           data == [i \in 1..n |-> <<"data:", "blank">> \o e.lines[i]]
           one == <<name>>
<1>1. n \in Nat /\ DOMAIN e.lines = 1..n /\ \A i \in 1..n : e.lines[i] \in Line
  BY SentEvent
<1>2. name \in Line
  <2>1. e.event \in Line
    <3>1. Atoms \ {"\r", "\n", "blank"} \subseteq Atoms \ {"\r", "\n"}
      OBVIOUS
    <3> QED
      BY <3>1, SentEvent, SeqMonotonic DEF Name, Line
  <2> QED
    BY <2>1, FieldIsLine
<1>3. \A i \in 1..n : <<"data:", "blank">> \o e.lines[i] \in Line
  BY <1>1, FieldIsLine
<1>4. FieldsOf(e) = one \o data
  BY <1>1 DEF FieldsOf
<1>5. data \in Seq(Line) /\ Len(data) = n /\ \A i \in 1..n : data[i] = <<"data:", "blank">> \o e.lines[i]
  BY <1>1, <1>3
<1> HIDE DEF name
<1>6. one \in Seq(Line) /\ Len(one) = 1 /\ one[1] = name
  BY <1>2
<1> HIDE DEF data, one, n
<1>7. /\ one \o data \in Seq(Line) /\ Len(one \o data) = Len(one) + Len(data)
      /\ \A i \in 1..(Len(one) + Len(data)) :
           (one \o data)[i] = IF i <= Len(one) THEN one[i] ELSE data[i - Len(one)]
  BY <1>5, <1>6, ConcatProperties
<1>8. (one \o data)[1] = name
  <2>1. 1 \in 1..(Len(one) + Len(data)) /\ 1 <= Len(one)
    BY <1>1, <1>5, <1>6
  <2> QED
    BY <1>6, <1>7, <2>1
<1>9. ASSUME NEW i \in 1..n
      PROVE  (one \o data)[i + 1] = data[i]
  <2>1. i + 1 \in 1..(Len(one) + Len(data)) /\ ~(i + 1 <= Len(one)) /\ (i + 1) - Len(one) = i
    BY <1>1, <1>5, <1>6
  <2> QED
    BY <1>7, <2>1
<1> QED
  BY <1>1, <1>4, <1>5, <1>6, <1>7, <1>8, <1>9 DEF name, n

LEMMA FieldsAreLines ==
  ASSUME NEW e \in Events
  PROVE  /\ FieldsOf(e) \in Seq(Line) /\ Len(FieldsOf(e)) \in Nat \ {0}
         /\ DOMAIN FieldsOf(e) = 1..Len(FieldsOf(e))
         /\ \A i \in 1..Len(FieldsOf(e)) : FieldsOf(e)[i] \in Line /\ FieldsOf(e)[i] # <<>>
<1>1. CASE e = Ping
  <2>1. FieldsOf(e) = << <<":">> >>
    BY <1>1 DEF FieldsOf
  <2>2. ":" \in Atoms \ {"\r", "\n"}
    BY DEF Atoms
  <2> DEFINE w == <<":">>
  <2>3. w \in Line /\ w # <<>>
    BY <2>2 DEF Line
  <2> HIDE DEF w
  <2>4. <<w>> \in Seq(Line) /\ Len(<<w>>) = 1 /\ <<w>>[1] = w /\ \A i \in 1..1 : i = 1
    BY <2>3
  <2> QED
    BY <2>1, <2>3, <2>4 DEF w
<1>2. CASE e # Ping
  <2> DEFINE fields == FieldsOf(e)
             n == Len(e.lines)
  <2>1. /\ fields \in Seq(Line) /\ Len(fields) = n + 1
        /\ fields[1] = <<"event:", "blank">> \o e.event
        /\ \A i \in 1..n : fields[i + 1] = <<"data:", "blank">> \o e.lines[i]
    BY <1>2, FieldsShape
  <2>2. n \in Nat /\ \A i \in 1..n : e.lines[i] \in Line
    BY <1>2, SentEvent
  <2>3. e.event \in Line
    <3>1. Atoms \ {"\r", "\n", "blank"} \subseteq Atoms \ {"\r", "\n"}
      OBVIOUS
    <3> QED
      BY <1>2, <3>1, SentEvent, SeqMonotonic DEF Name, Line
  <2> HIDE DEF fields, n
  <2>4. fields[1] # <<>>
    BY <2>1, <2>3, FieldIsLine
  <2>5. \A i \in 1..n : fields[i + 1] # <<>>
    BY <2>1, <2>2, FieldIsLine
  <2>6. ASSUME NEW i \in 1..(n + 1)
        PROVE  fields[i] # <<>>
    <3>1. CASE i = 1
      BY <2>4, <3>1
    <3>2. CASE i # 1
      <4>1. i - 1 \in 1..n /\ (i - 1) + 1 = i
        BY <2>2, <3>2
      <4>2. fields[(i - 1) + 1] # <<>>
        BY <2>5, <4>1
      <4> QED
        BY <4>1, <4>2
    <3> QED
      BY <3>1, <3>2
  <2> QED
    BY <2>1, <2>2, <2>6 DEF fields
<1> QED
  BY <1>1, <1>2

Crlf(e) == [i \in DOMAIN FieldsOf(e) |-> FieldsOf(e)[i] \o CRLF]

Lf(e) == [i \in DOMAIN FieldsOf(e) |-> FieldsOf(e)[i] \o LF]

\* The first n lines of an event's frame, ended by line feeds.
Ended(e, n) == UpTo(Lf(e), n)

\* What the parser takes for the frame of an event.
BodyOf(e) == Ended(e, Len(FieldsOf(e)) - 1) \o FieldsOf(e)[Len(FieldsOf(e))]

LEMMA LineEnds ==
  ASSUME NEW s \in Seq(Atoms)
  PROVE  /\ s \o CRLF = Append(Append(s, "\r"), "\n")
         /\ s \o LF = Append(s, "\n")
         /\ s \o CRLF \in Seq(Atoms) /\ s \o LF \in Seq(Atoms)
<1> DEFINE r == <<"\r">>
<1>1. /\ "\r" \in Atoms /\ "\n" \in Atoms /\ r \in Seq(Atoms) /\ LF \in Seq(Atoms)
      /\ Append(s, "\r") \in Seq(Atoms)
  BY GapIs, AppendFacts
<1>2. CRLF \in Seq(Atoms) /\ CRLF = Append(r, "\n")
  <2>1. CRLF \in Seq(Atoms) /\ Len(CRLF) = 2 /\ CRLF[1] = "\r" /\ CRLF[2] = "\n"
    BY <1>1 DEF CRLF
  <2>2. /\ Append(r, "\n") \in Seq(Atoms) /\ Len(Append(r, "\n")) = 2
        /\ Append(r, "\n")[1] = "\r" /\ Append(r, "\n")[2] = "\n"
    BY <1>1
  <2>3. CRLF = <<"\r", "\n">>
    BY DEF CRLF
  <2> DEFINE t == Append(r, "\n")
  <2> HIDE DEF t
  <2>4. t = <<"\r", "\n">>
    BY <1>1, <2>2, PairOf DEF t
  <2> QED
    BY <2>1, <2>3, <2>4 DEF t
<1>3. s \o r = Append(s, "\r") /\ s \o LF = Append(s, "\n")
  BY <1>1, AppendIsConcat DEF LF
<1> HIDE DEF r
<1>4. s \o Append(r, "\n") = Append(s \o r, "\n")
  BY <1>1, AppendToConcat
<1> QED
  BY <1>1, <1>2, <1>3, <1>4, ConcatProperties

LEMMA LineBehind ==
  ASSUME NEW s \in Seq(Atoms), NEW w \in Seq(Atoms)
  PROVE  s \o (w \o LF) = (s \o w) \o LF
<1> DEFINE lf == LF
<1>1. lf \in Seq(Atoms)
  BY GapIs
<1> HIDE DEF lf
<1>2. (s \o w) \o lf = s \o (w \o lf)
  BY <1>1, ConcatAssociative
<1> QED
  BY <1>2 DEF lf

LEMMA LfOnlyOfLine ==
  ASSUME NEW w \in Line
  PROVE  LfOnly(w \o CRLF) = w \o LF
<1>1. w \in Seq(Atoms) /\ "\r" \in Atoms /\ "\n" \in Atoms /\ <<>> \in Seq(Atoms)
  BY GapIs, LineIsText
<1>2. Tidy(w)
  <2>1. Tidy(<<>>)
    BY DEF Tidy
  <2>2. Tidy(<<>> \o w)
    BY <1>1, <2>1, TidyWords DEF Line
  <2> QED
    BY <1>1, <2>2, ConcatEmptySeq
<1>3. LfOnly(w) = w
  BY <1>1, <1>2, TidyStays
<1> DEFINE wr == Append(w, "\r")
<1>4. LfOnly(wr) = wr
  BY <1>1, <1>3, LfOnlySteps DEF Normal
<1>5. wr \in Seq(Atoms) /\ EndsInCr(wr) /\ SubSeq(wr, 1, Len(wr) - 1) = w
  BY <1>1, AppendFacts DEF EndsInCr
<1> HIDE DEF wr
<1>6. LfOnly(Append(wr, "\n")) = Append(w, "\n")
  BY <1>1, <1>4, <1>5, LfOnlySteps DEF Normal
<1> QED
  BY <1>1, <1>6, LineEnds DEF wr

LEMMA FrameTexts ==
  ASSUME NEW e \in Events, NEW n \in Nat, n <= Len(FieldsOf(e))
  PROVE  /\ TextsOver(Atoms, Crlf(e), n) /\ TextsOver(Atoms, Lf(e), n)
         /\ UpTo(Crlf(e), n) \in Seq(Atoms) /\ Ended(e, n) \in Seq(Atoms)
<1>1. \A i \in 1..n : /\ i \in 1..Len(FieldsOf(e)) /\ i \in DOMAIN FieldsOf(e)
                      /\ FieldsOf(e)[i] \in Seq(Atoms)
  BY FieldsAreLines, LineIsText
<1>2. TextsOver(Atoms, Crlf(e), n) /\ TextsOver(Atoms, Lf(e), n)
  BY <1>1, LineEnds DEF TextsOver, Crlf, Lf
<1> QED
  BY <1>2, UpToType DEF Ended

LEMMA OneMoreLine ==
  ASSUME NEW e \in Events, NEW n \in Nat, n + 1 <= Len(FieldsOf(e))
  PROVE  /\ FieldsOf(e)[n + 1] \in Line /\ FieldsOf(e)[n + 1] # <<>>
         /\ UpTo(Crlf(e), n + 1) = UpTo(Crlf(e), n) \o (FieldsOf(e)[n + 1] \o CRLF)
         /\ Ended(e, n + 1) = (Ended(e, n) \o FieldsOf(e)[n + 1]) \o LF
         /\ Ended(e, n) \in Seq(Atoms) /\ UpTo(Crlf(e), n) \in Seq(Atoms)
<1> DEFINE fields == FieldsOf(e)
<1>1. n + 1 \in 1..Len(fields) /\ n + 1 \in DOMAIN fields /\ fields[n + 1] \in Line /\ fields[n + 1] # <<>>
  BY FieldsAreLines
<1>2. /\ TextsOver(Atoms, Crlf(e), n + 1) /\ TextsOver(Atoms, Lf(e), n + 1)
      /\ UpTo(Crlf(e), n) \in Seq(Atoms) /\ Ended(e, n) \in Seq(Atoms)
  <2>1. n + 1 \in Nat /\ n <= Len(FieldsOf(e))
    BY FieldsAreLines
  <2> QED
    BY <2>1, FrameTexts
<1>3. Crlf(e)[n + 1] = fields[n + 1] \o CRLF /\ Lf(e)[n + 1] = fields[n + 1] \o LF
  BY <1>1 DEF Crlf, Lf
<1>4. /\ UpTo(Crlf(e), n + 1) = UpTo(Crlf(e), n) \o Crlf(e)[n + 1]
      /\ UpTo(Lf(e), n + 1) = UpTo(Lf(e), n) \o Lf(e)[n + 1]
  BY <1>2, UpToSteps
<1>5. Ended(e, n) \o (fields[n + 1] \o LF) = (Ended(e, n) \o fields[n + 1]) \o LF
  <2>1. fields[n + 1] \in Seq(Atoms)
    BY <1>1, LineIsText
  <2> QED
    BY <1>2, <2>1, LineBehind
<1> QED
  BY <1>1, <1>2, <1>3, <1>4, <1>5 DEF Ended

LEMMA LinesOfFrame ==
  ASSUME NEW e \in Events, NEW m \in Nat
  PROVE  m <= Len(FieldsOf(e)) =>
           /\ LfOnly(UpTo(Crlf(e), m)) = Ended(e, m)
           /\ Tidy(Ended(e, m)) /\ ~EndsInCr(Ended(e, m))
           /\ Split(Ended(e, m), LF) = [complete |-> SubSeq(FieldsOf(e), 1, m), rest |-> <<>>]
<1> DEFINE fields == FieldsOf(e)
           Good(n) == /\ LfOnly(UpTo(Crlf(e), n)) = Ended(e, n)
                      /\ Tidy(Ended(e, n)) /\ ~EndsInCr(Ended(e, n))
                      /\ Split(Ended(e, n), LF) = [complete |-> SubSeq(fields, 1, n), rest |-> <<>>]
           S == {n \in Nat : n <= Len(fields) => Good(n)}
<1>1. 0 \in S
  <2>1. UpTo(Crlf(e), 0) = <<>> /\ Ended(e, 0) = <<>>
    BY UpToNone DEF Ended
  <2>2. SubSeq(fields, 1, 0) = <<>>
    BY SubSeqEmpty
  <2>3. Tidy(<<>>) /\ ~EndsInCr(<<>>)
    BY DEF Tidy, EndsInCr
  <2> QED
    BY <2>1, <2>2, <2>3, LfOnlyNone, SplitNone DEF Uncut
<1>2. ASSUME NEW n \in Nat, n \in S
      PROVE  n + 1 \in S
  <2>1. SUFFICES ASSUME n + 1 <= Len(fields) PROVE Good(n + 1)
    OBVIOUS
  <2> DEFINE w == fields[n + 1]
             s == Ended(e, n)
  <2>2. Good(n)
    BY <1>2, <2>1, FieldsAreLines
  <2>3. /\ w \in Line /\ w # <<>>
        /\ UpTo(Crlf(e), n + 1) = UpTo(Crlf(e), n) \o (w \o CRLF)
        /\ Ended(e, n + 1) = (s \o w) \o LF
        /\ s \in Seq(Atoms) /\ UpTo(Crlf(e), n) \in Seq(Atoms)
    BY <2>1, OneMoreLine
  <2>4. SubSeq(fields, 1, n + 1) = Append(SubSeq(fields, 1, n), w)
    <3>1. /\ fields \in Seq(Line) /\ 1 \in 1..Len(fields) /\ n + 1 \in 1..Len(fields)
          /\ n + 1 \in 1..Len(fields) /\ (n + 1) - 1 = n
      BY <2>1, FieldsAreLines
    <3>2. SubSeq(fields, 1, n + 1) = SubSeq(fields, 1, n) \o <<w>>
      <4> DEFINE k == n + 1
      <4>1. k \in 1..Len(fields) /\ k - 1 = n
        BY <3>1
      <4> HIDE DEF k
      <4>2. SubSeq(fields, 1, k) = SubSeq(fields, 1, k - 1) \o <<fields[k]>>
        BY <3>1, <4>1, SubSeqRecursiveSecond
      <4> QED
        BY <4>1, <4>2 DEF k
    <3>3. SubSeq(fields, 1, n) \in Seq(Line)
      <4>1. \A i \in 1..n : fields[i] \in Line
        BY <3>1
      <4> QED
        BY <3>1, <4>1, SubSeqProperties
    <3> QED
      BY <2>3, <3>2, <3>3, AppendIsConcat
  <2> HIDE DEF w, s
  <2>5. w \in Seq(Atoms) /\ s \o w \in Seq(Atoms) /\ w \o CRLF \in Seq(Atoms)
    BY <2>3, LineIsText, LineEnds, ConcatProperties
  <2>6. LfOnly(UpTo(Crlf(e), n) \o (w \o CRLF)) = Ended(e, n + 1)
    <3>1. LfOnly(UpTo(Crlf(e), n) \o (w \o CRLF)) = LfOnly(UpTo(Crlf(e), n)) \o LfOnly(w \o CRLF)
      BY <2>2, <2>3, <2>5, LfOnlyOfConcat
    <3>2. s \o (w \o LF) = (s \o w) \o LF
      BY <2>3, <2>5, LineBehind
    <3> QED
      BY <2>2, <2>3, <3>1, <3>2, LfOnlyOfLine DEF s
  <2>7. Tidy(s \o w) /\ (s \o w)[Len(s \o w)] \notin {"\r", "\n"} /\ s \o w # <<>>
    <3>1. Tidy(s \o w) /\ (s \o w)[Len(s \o w)] \notin {"\r", "\n"}
      BY <2>2, <2>3, TidyWords DEF Line, s
    <3>2. s \o w # <<>>
      BY <2>3, <2>5, ConcatEqualIffEmpty
    <3> QED
      BY <3>1, <3>2
  <2>8. Ended(e, n + 1) = Append(s \o w, "\n")
    BY <2>3, <2>5, LineEnds
  <2>9. Tidy(Ended(e, n + 1)) /\ ~EndsInCr(Ended(e, n + 1))
    <3>1. Tidy(Append(s \o w, "\n"))
      BY <2>5, <2>7, GapIs, TidySteps
    <3>2. Append(s \o w, "\n")[Len(Append(s \o w, "\n"))] = "\n"
      BY <2>5, GapIs, AppendFacts
    <3> QED
      BY <2>8, <3>1, <3>2 DEF EndsInCr
  <2>10. Split(Ended(e, n + 1), LF) =
           [complete |-> Append(SubSeq(fields, 1, n), w), rest |-> <<>>]
    <3> DEFINE c == SubSeq(fields, 1, n)
    <3>1. Split(s, LF) = [complete |-> c, rest |-> <<>>]
      BY <2>2 DEF s
    <3> HIDE DEF c
    <3>2. Split((s \o w) \o LF, LF) = [complete |-> Append(c, w), rest |-> <<>>]
      BY <2>3, <3>1, SplitEndsLine
    <3> QED
      BY <2>3, <3>2 DEF c
  <2> QED
    BY <2>3, <2>4, <2>6, <2>9, <2>10 DEF w
<1> HIDE DEF S
<1>3. \A n \in Nat : n \in S
  BY <1>1, <1>2, AllNumbers
<1> QED
  BY <1>3 DEF S

LEMMA WholeFrame ==
  ASSUME NEW e \in Events
  PROVE  /\ BodyOf(e) \in Seq(Atoms) /\ Tidy(Append(BodyOf(e), "\n"))
         /\ Encoded(e) \in Seq(Atoms) /\ Encoded(e) # <<>>
         /\ LfOnly(Encoded(e)) = Append(Append(BodyOf(e), "\n"), "\n")
<1> DEFINE n == Len(FieldsOf(e))
           m == n - 1
           lines == UpTo(Crlf(e), n)
<1>1. n \in Nat /\ n <= n /\ m \in Nat /\ m + 1 = n /\ m + 1 <= n
  BY FieldsAreLines
<1>2. Encoded(e) = lines \o CRLF
  <2>1. Len(Crlf(e)) = n
    BY <1>1, FieldsAreLines DEF Crlf
  <2> QED
    BY <2>1 DEF Encoded, Concat, Crlf
<1>3. lines \in Seq(Atoms) /\ Ended(e, n) \in Seq(Atoms)
  BY <1>1, FrameTexts
<1>4. LfOnly(lines) = Ended(e, n) /\ Tidy(Ended(e, n)) /\ ~EndsInCr(Ended(e, n))
  BY <1>1, LinesOfFrame
<1> HIDE DEF lines
<1>5. /\ FieldsOf(e)[m + 1] \in Line /\ Ended(e, m) \in Seq(Atoms)
      /\ Ended(e, m + 1) = (Ended(e, m) \o FieldsOf(e)[m + 1]) \o LF
  BY <1>1, OneMoreLine
<1>6. BodyOf(e) = Ended(e, m) \o FieldsOf(e)[m + 1]
  BY <1>1 DEF BodyOf
<1> HIDE DEF m, n
<1>7. BodyOf(e) \in Seq(Atoms) /\ Ended(e, n) = Append(BodyOf(e), "\n")
  BY <1>1, <1>5, <1>6, LineIsText, ConcatProperties, LineEnds
<1>8. /\ Encoded(e) \in Seq(Atoms) /\ Encoded(e) = Append(Append(lines, "\r"), "\n")
  BY <1>2, <1>3, LineEnds
<1>9. Encoded(e) # <<>>
  BY <1>3, <1>8, GapIs, AppendFacts
<1>10. LfOnly(CRLF) = LF /\ CRLF \in Seq(Atoms) /\ LF \in Seq(Atoms)
  <2>1. <<>> \in Line /\ <<>> \in Seq(Atoms)
    BY DEF Line
  <2>2. LfOnly(<<>> \o CRLF) = <<>> \o LF /\ <<>> \o CRLF \in Seq(Atoms)
    BY <2>1, LfOnlyOfLine, LineEnds
  <2>3. CRLF \in Seq(Atoms) /\ LF \in Seq(Atoms)
    BY GapIs DEF CRLF
  <2> QED
    BY <2>2, <2>3, ConcatEmptySeq
<1>11. LfOnly(lines \o CRLF) = LfOnly(lines) \o LfOnly(CRLF)
  BY <1>3, <1>4, <1>10, LfOnlyOfConcat
<1>12. Ended(e, n) \o LF = Append(Ended(e, n), "\n")
  BY <1>3, LineEnds
<1> QED
  BY <1>2, <1>4, <1>7, <1>8, <1>9, <1>10, <1>11, <1>12

LEMMA LfOnlyKeepsSome ==
  ASSUME NEW r \in Seq(Atoms), r # <<>>
  PROVE  \E u \in Seq(Atoms), a \in Atoms : LfOnly(r) = Append(u, a)
<1>1. PICK t \in Seq(Atoms), a \in Atoms : r = Append(t, a)
  BY SequenceEmptyOrAppend
<1>2. LfOnly(r) = Normal(LfOnly(t), a) /\ LfOnly(t) \in Seq(Atoms)
  BY <1>1, LfOnlySteps, LfOnlyIsKept
<1> DEFINE s == LfOnly(t)
<1> HIDE DEF s
<1>3. s \in Seq(Atoms)
  BY <1>2 DEF s
<1>4. PICK u \in Seq(Atoms) : Normal(s, a) = Append(u, a)
  BY <1>3, NormalEnds
<1> QED
  BY <1>2, <1>4 DEF s

\* What has arrived of a frame never holds a complete one.
LEMMA BeginningsTidy ==
  ASSUME NEW e \in Events
  PROVE  \A p \in Seq(Atoms) : \A r \in Seq(Atoms) :
           Encoded(e) = p \o r /\ r # <<>> => Tidy(LfOnly(p))
<1> DEFINE Good(p) == \A r \in Seq(Atoms) : Encoded(e) = p \o r /\ r # <<>> => Tidy(LfOnly(p))
           S == {p \in Seq(Atoms) : Good(p)}
<1>1. <<>> \in S
  BY LfOnlyNone DEF Tidy
<1>2. ASSUME NEW p \in Seq(Atoms), NEW a \in Atoms, p \in S
      PROVE  Append(p, a) \in S
  <2> DEFINE q == Append(p, a)
  <2>1. q \in Seq(Atoms) /\ LfOnly(q) \in Seq(Atoms) /\ LfOnly(p) \in Seq(Atoms)
    BY AppendFacts, LfOnlyIsKept
  <2>2. LfOnly(q) = Normal(LfOnly(p), a)
    BY LfOnlySteps
  <2>3. SUFFICES ASSUME NEW r \in Seq(Atoms), Encoded(e) = q \o r, r # <<>>
                 PROVE  Tidy(LfOnly(q))
    BY <2>1
  <2>4. CASE a = "\r"
    <3>1. q = p \o <<a>> /\ <<a>> \in Seq(Atoms)
      BY AppendIsConcat
    <3> DEFINE one == <<a>>
    <3> HIDE DEF q, one
    <3>2. (p \o one) \o r = p \o (one \o r) /\ one \o r \in Seq(Atoms) /\ one \o r # <<>>
      BY <2>3, <3>1, ConcatAssociative, ConcatProperties, ConcatEqualIffEmpty DEF one
    <3>3. Encoded(e) = p \o (one \o r)
      BY <2>3, <3>1, <3>2 DEF one
    <3>4. Tidy(LfOnly(p))
      BY <1>2, <3>2, <3>3
    <3>5. LfOnly(q) = Append(LfOnly(p), a)
      BY <2>2, <2>4 DEF Normal
    <3> QED
      BY <2>1, <2>4, <3>4, <3>5, TidySteps
  <2>5. CASE a # "\r"
    <3>1. ~EndsInCr(LfOnly(q))
      <4>1. PICK u \in Seq(Atoms) : Normal(LfOnly(p), a) = Append(u, a)
        BY <2>1, NormalEnds
      <4>2. Append(u, a)[Len(Append(u, a))] = a
        BY AppendFacts
      <4> QED
        BY <2>2, <2>5, <4>1, <4>2 DEF EndsInCr
    <3> HIDE DEF q
    <3>2. LfOnly(Encoded(e)) = LfOnly(q) \o LfOnly(r)
      BY <2>1, <2>3, <3>1, LfOnlyOfConcat
    <3>3. PICK u \in Seq(Atoms), b \in Atoms : LfOnly(r) = Append(u, b)
      BY <2>3, LfOnlyKeepsSome
    <3>4. LfOnly(q) \o Append(u, b) = Append(LfOnly(q) \o u, b) /\ LfOnly(q) \o u \in Seq(Atoms)
      BY <2>1, AppendToConcat, ConcatProperties
    <3> DEFINE body == Append(BodyOf(e), "\n")
    <3>5. LfOnly(Encoded(e)) = Append(body, "\n") /\ body \in Seq(Atoms) /\ Tidy(body) /\ "\n" \in Atoms
      BY WholeFrame, GapIs, AppendFacts
    <3> HIDE DEF body
    <3> DEFINE v == LfOnly(q) \o u
    <3>6. v \in Seq(Atoms) /\ Append(v, b) = Append(body, "\n")
      BY <3>2, <3>3, <3>4, <3>5
    <3> HIDE DEF v
    <3>7. body = v
      BY <3>5, <3>6, AppendInjective
    <3> QED
      BY <2>1, <3>5, <3>7, TidyBeginnings DEF v
  <2> QED
    BY <2>4, <2>5
<1> HIDE DEF S
<1>3. \A p \in Seq(Atoms) : p \in S
  BY <1>1, <1>2, AllTexts
<1> QED
  BY <1>3 DEF S

-------------------------------------------------------------------------------
(***************************************************************************)
(* A stream                                                                *)
(***************************************************************************)
Wires(es) == [i \in DOMAIN es |-> Encoded(es[i])]

Bodies(es, n) == [i \in 1..n |-> BodyOf(es[i])]

LEMMA WiresAreTexts ==
  ASSUME NEW es \in Seq(Events), NEW n \in Nat, n <= Len(es)
  PROVE  /\ TextsOver(Atoms, Wires(es), n) /\ UpTo(Wires(es), n) \in Seq(Atoms)
         /\ \A i \in 1..n : es[i] \in Events /\ Wires(es)[i] = Encoded(es[i])
<1>1. \A i \in 1..n : i \in 1..Len(es) /\ i \in DOMAIN es /\ es[i] \in Events
  OBVIOUS
<1>2. TextsOver(Atoms, Wires(es), n) /\ \A i \in 1..n : Wires(es)[i] = Encoded(es[i])
  BY <1>1, WholeFrame DEF TextsOver, Wires
<1> QED
  BY <1>1, <1>2, UpToType

LEMMA StreamSplits ==
  ASSUME NEW es \in Seq(Events), NEW m \in Nat
  PROVE  m <= Len(es) =>
           /\ ~EndsInCr(LfOnly(UpTo(Wires(es), m)))
           /\ Split(LfOnly(UpTo(Wires(es), m)), Gap) = [complete |-> Bodies(es, m), rest |-> <<>>]
<1> DEFINE Text(n) == UpTo(Wires(es), n)
           Good(n) == /\ ~EndsInCr(LfOnly(Text(n)))
                      /\ Split(LfOnly(Text(n)), Gap) = [complete |-> Bodies(es, n), rest |-> <<>>]
           S == {n \in Nat : n <= Len(es) => Good(n)}
<1>1. 0 \in S
  <2>1. Text(0) = <<>>
    BY UpToNone
  <2>2. Bodies(es, 0) = <<>>
    BY DEF Bodies
  <2>3. ~EndsInCr(<<>>)
    BY DEF EndsInCr
  <2> QED
    BY <2>1, <2>2, <2>3, LfOnlyNone, SplitNone DEF Uncut
<1>2. ASSUME NEW n \in Nat, n \in S
      PROVE  n + 1 \in S
  <2>1. SUFFICES ASSUME n + 1 <= Len(es) PROVE Good(n + 1)
    OBVIOUS
  <2>2. Good(n) /\ n <= Len(es) /\ n + 1 \in Nat /\ n + 1 \in 1..(n + 1)
    BY <1>2, <2>1
  <2> DEFINE e == es[n + 1]
             t == Text(n)
             body == BodyOf(e)
             lf == Append(Append(body, "\n"), "\n")
  <2>3. e \in Events /\ Wires(es)[n + 1] = Encoded(e) /\ t \in Seq(Atoms) /\ TextsOver(Atoms, Wires(es), n + 1)
    BY <2>1, <2>2, WiresAreTexts
  <2>4. Text(n + 1) = t \o Encoded(e)
    BY <2>3, UpToSteps
  <2>5. /\ body \in Seq(Atoms) /\ Tidy(Append(body, "\n"))
        /\ Encoded(e) \in Seq(Atoms) /\ LfOnly(Encoded(e)) = lf
    BY <2>3, WholeFrame
  <2> HIDE DEF e, body
  <2>6. ~EndsInCr(LfOnly(t)) /\ Split(LfOnly(t), Gap) = [complete |-> Bodies(es, n), rest |-> <<>>]
    BY <2>2
  <2> HIDE DEF t
  <2>7. LfOnly(Text(n + 1)) = LfOnly(t) \o lf /\ LfOnly(t) \in Seq(Atoms)
    <3> DEFINE frame == Encoded(e)
    <3>1. frame \in Seq(Atoms) /\ LfOnly(frame) = lf /\ Text(n + 1) = t \o frame
      BY <2>4, <2>5
    <3> HIDE DEF frame, lf
    <3>2. LfOnly(t \o frame) = LfOnly(t) \o LfOnly(frame)
      BY <2>3, <2>6, <3>1, LfOnlyOfConcat
    <3> QED
      BY <2>3, <3>1, <3>2, LfOnlyIsKept
  <2>8. Split(LfOnly(t) \o lf, Gap) = [complete |-> Append(Bodies(es, n), body), rest |-> <<>>]
    BY <2>5, <2>6, <2>7, SplitEndsFrame
  <2>9. Append(Bodies(es, n), body) = Bodies(es, n + 1)
    <3> DEFINE less == Bodies(es, n)
               more == Bodies(es, n + 1)
    <3>1. \A i \in 1..(n + 1) : es[i] \in Events /\ BodyOf(es[i]) \in Seq(Atoms)
      BY <2>1, <2>2, WiresAreTexts, WholeFrame
    <3>2. /\ less \in Seq(Seq(Atoms)) /\ Len(less) = n
          /\ more \in Seq(Seq(Atoms)) /\ Len(more) = n + 1
      BY <3>1 DEF Bodies
    <3>3. more[n + 1] = body /\ \A i \in 1..n : more[i] = less[i]
      BY DEF Bodies, body, e
    <3> HIDE DEF less, more
    <3>4. /\ Append(less, body) \in Seq(Seq(Atoms)) /\ Len(Append(less, body)) = n + 1
          /\ Append(less, body)[n + 1] = body /\ \A i \in 1..n : Append(less, body)[i] = less[i]
      BY <2>5, <3>2, AppendProperties
    <3>5. \A i \in 1..(n + 1) : Append(less, body)[i] = more[i]
      <4>1. \A i \in 1..(n + 1) : i \in 1..n \/ i = n + 1
        OBVIOUS
      <4> QED
        BY <3>3, <3>4, <4>1
    <3> QED
      BY <3>2, <3>4, <3>5, SeqEqual DEF less, more
  <2>10. ~EndsInCr(LfOnly(Text(n + 1)))
    <3> DEFINE u == LfOnly(t) \o Append(body, "\n")
    <3>1. LfOnly(t) \o lf = Append(u, "\n") /\ u \in Seq(Atoms) /\ "\n" \in Atoms
      <4>1. Append(body, "\n") \in Seq(Atoms) /\ "\n" \in Atoms
        BY <2>5, GapIs, AppendFacts
      <4> QED
        BY <2>7, <4>1, AppendToConcat, ConcatProperties
    <3> HIDE DEF u
    <3>2. Append(u, "\n")[Len(Append(u, "\n"))] = "\n"
      BY <3>1, AppendFacts
    <3> QED
      BY <2>7, <3>1, <3>2 DEF EndsInCr
  <2> QED
    BY <2>7, <2>8, <2>9, <2>10
<1> HIDE DEF S
<1>3. \A n \in Nat : n \in S
  BY <1>1, <1>2, AllNumbers
<1> QED
  BY <1>3 DEF S

LEMMA StreamAndRest ==
  ASSUME NEW es \in Seq(Events), NEW p \in Seq(Atoms), Tidy(LfOnly(p))
  PROVE  Split(LfOnly(UpTo(Wires(es), Len(es)) \o p), Gap) =
           [complete |-> Bodies(es, Len(es)), rest |-> LfOnly(p)]
<1> DEFINE m == Len(es)
           t == UpTo(Wires(es), m)
           c == Bodies(es, m)
<1>1. m \in Nat /\ m <= m
  OBVIOUS
<1>2. t \in Seq(Atoms) /\ ~EndsInCr(LfOnly(t)) /\ Split(LfOnly(t), Gap) = [complete |-> c, rest |-> <<>>]
  BY <1>1, WiresAreTexts, StreamSplits
<1> HIDE DEF m, t, c
<1>3. LfOnly(t \o p) = LfOnly(t) \o LfOnly(p) /\ LfOnly(t) \in Seq(Atoms) /\ LfOnly(p) \in Seq(Atoms)
  BY <1>2, LfOnlyOfConcat, LfOnlyIsKept
<1>4. Split(LfOnly(t) \o LfOnly(p), Gap) = [complete |-> c, rest |-> LfOnly(p)]
  BY <1>2, <1>3, SplitAtGaps
<1> QED
  BY <1>3, <1>4 DEF m, t, c

-------------------------------------------------------------------------------
(***************************************************************************)
(* What the parser makes of a frame                                        *)
(***************************************************************************)
LEMMA Cons ==
  ASSUME NEW A, NEW a \in A, NEW w \in Seq(A)
  PROVE  /\ <<a>> \o w \in Seq(A) /\ <<a>> \o w # <<>> /\ Len(w) \in Nat
         /\ Len(<<a>> \o w) = Len(w) + 1 /\ (<<a>> \o w)[1] = a
         /\ \A i \in 1..Len(w) : (<<a>> \o w)[i + 1] = w[i]
         /\ Tail(<<a>> \o w) = w
<1> DEFINE q == <<a>>
           t == q \o w
<1>1. q \in Seq(A) /\ Len(q) = 1 /\ q[1] = a /\ Len(w) \in Nat
  OBVIOUS
<1> HIDE DEF q
<1>2. /\ t \in Seq(A) /\ Len(t) = Len(q) + Len(w)
      /\ \A i \in 1..(Len(q) + Len(w)) : t[i] = IF i <= Len(q) THEN q[i] ELSE w[i - Len(q)]
  BY <1>1, ConcatProperties
<1> HIDE DEF t
<1>3. t[1] = a
  <2>1. 1 \in 1..(Len(q) + Len(w)) /\ 1 <= Len(q)
    BY <1>1
  <2> QED
    BY <1>1, <1>2, <2>1
<1>4. ASSUME NEW i \in 1..Len(w)
      PROVE  t[i + 1] = w[i]
  <2>1. i + 1 \in 1..(Len(q) + Len(w)) /\ ~(i + 1 <= Len(q)) /\ (i + 1) - Len(q) = i
    BY <1>1
  <2> QED
    BY <1>2, <2>1
<1>5. t # <<>> /\ Len(t) = Len(w) + 1
  BY <1>1, <1>2
<1>6. Tail(t) = w
  <2>1. /\ Tail(t) \in Seq(A) /\ Len(Tail(t)) = Len(t) - 1
        /\ \A i \in 1..Len(Tail(t)) : Tail(t)[i] = t[i + 1]
    BY <1>2, <1>5, HeadTailProperties
  <2> DEFINE u == Tail(t)
  <2> HIDE DEF u
  <2>2. u \in Seq(A) /\ Len(u) = Len(w) /\ \A i \in 1..Len(u) : u[i] = w[i]
    BY <1>1, <1>4, <1>5, <2>1 DEF u
  <2>3. u = w
    BY <2>2, SeqEqual
  <2> QED
    BY <2>3 DEF u
<1> QED
  BY <1>1, <1>2, <1>3, <1>4, <1>5, <1>6 DEF t, q

LEMMA SmallTexts ==
  ASSUME NEW A
  PROVE  <<>> \in Seq(A) /\ \A a \in A : <<a>> \in Seq(A)
OBVIOUS

LEMMA UpToOne ==
  ASSUME NEW A, NEW texts, TextsOver(A, texts, 1)
  PROVE  UpTo(texts, 1) = texts[1]
<1>1. TextsOver(A, texts, 0 + 1) /\ 0 \in Nat /\ texts[1] \in Seq(A)
  BY DEF TextsOver
<1>2. UpTo(texts, 0 + 1) = UpTo(texts, 0) \o texts[0 + 1]
  BY <1>1, UpToSteps
<1> QED
  BY <1>1, <1>2, UpToNone, ConcatEmptySeq

From(texts, k, n) == [i \in 1..n |-> texts[k + i]]

LEMMA UpToBehind ==
  ASSUME NEW A, NEW texts, NEW k \in Nat, NEW m \in Nat, TextsOver(A, texts, k + m)
  PROVE  /\ TextsOver(A, From(texts, k, m), m)
         /\ UpTo(texts, k + m) = UpTo(texts, k) \o UpTo(From(texts, k, m), m)
<1> DEFINE rest == From(texts, k, m)
           S == {n \in Nat : n <= m => UpTo(texts, k + n) = UpTo(texts, k) \o UpTo(rest, n)}
<1>1. TextsOver(A, rest, m) /\ TextsOver(A, texts, k)
  <2>1. \A i \in 1..m : k + i \in 1..(k + m) /\ rest[i] = texts[k + i]
    BY DEF From
  <2>2. \A i \in 1..k : i \in 1..(k + m)
    OBVIOUS
  <2> QED
    BY <2>1, <2>2 DEF TextsOver
<1>2. UpTo(texts, k) \in Seq(A)
  BY <1>1, UpToType
<1>3. 0 \in S
  <2>1. UpTo(texts, k + 0) = UpTo(texts, k)
    OBVIOUS
  <2> QED
    BY <1>2, <2>1, UpToNone, ConcatEmptySeq
<1>4. ASSUME NEW n \in Nat, n \in S
      PROVE  n + 1 \in S
  <2>1. SUFFICES ASSUME n + 1 <= m
                 PROVE  UpTo(texts, k + (n + 1)) = UpTo(texts, k) \o UpTo(rest, n + 1)
    OBVIOUS
  <2>2. k + n \in Nat /\ k + (n + 1) = (k + n) + 1 /\ n + 1 \in 1..m /\ n <= m
    BY <2>1
  <2>3. TextsOver(A, texts, (k + n) + 1) /\ TextsOver(A, rest, n + 1)
    BY <1>1, <2>1 DEF TextsOver
  <2>4. rest[n + 1] = texts[(k + n) + 1] /\ rest[n + 1] \in Seq(A)
    BY <1>1, <2>2 DEF From, TextsOver
  <2> DEFINE j == k + n
             x == texts[j + 1]
  <2>5. UpTo(texts, j + 1) = UpTo(texts, j) \o x
    <3> HIDE DEF j
    <3>1. j \in Nat /\ TextsOver(A, texts, j + 1)
      BY <2>2, <2>3 DEF j
    <3> QED
      BY <3>1, UpToSteps
  <2>6. UpTo(rest, n + 1) = UpTo(rest, n) \o x /\ UpTo(rest, n) \in Seq(A)
    BY <2>3, <2>4, UpToSteps
  <2>7. UpTo(texts, j) = UpTo(texts, k) \o UpTo(rest, n)
    BY <1>4, <2>2
  <2>8. x \in Seq(A)
    BY <2>4
  <2>9. UpTo(texts, k + (n + 1)) = UpTo(texts, j + 1)
    BY <2>2
  <2> HIDE DEF x, j, rest
  <2>10. (UpTo(texts, k) \o UpTo(rest, n)) \o x = UpTo(texts, k) \o (UpTo(rest, n) \o x)
    <3> DEFINE a == UpTo(texts, k)
               b == UpTo(rest, n)
    <3>1. a \in Seq(A) /\ b \in Seq(A) /\ x \in Seq(A)
      BY <1>2, <2>6, <2>8
    <3> HIDE DEF a, b
    <3>2. (a \o b) \o x = a \o (b \o x)
      BY <3>1, ConcatAssociative
    <3> QED
      BY <3>2 DEF a, b
  <2> QED
    BY <2>5, <2>6, <2>7, <2>9, <2>10
<1> HIDE DEF S
<1>5. \A n \in Nat : n \in S
  BY <1>3, <1>4, AllNumbers
<1> QED
  BY <1>1, <1>5 DEF S

LEMMA NothingAdded ==
  ASSUME NEW texts, NEW n \in Nat, \A i \in 1..n : texts[i] = <<>>
  PROVE  UpTo(texts, n) = <<>>
<1> DEFINE S == {k \in Nat : k <= n => UpTo(texts, k) = <<>>}
<1>1. 0 \in S
  BY UpToNone
<1>2. ASSUME NEW k \in Nat, k \in S
      PROVE  k + 1 \in S
  <2>1. SUFFICES ASSUME k + 1 <= n PROVE UpTo(texts, k + 1) = <<>>
    OBVIOUS
  <2>2. TextsOver({}, texts, k + 1)
    <3>1. <<>> \in Seq({}) /\ \A i \in 1..(k + 1) : texts[i] = <<>>
      BY <2>1, SmallTexts
    <3> QED
      BY <3>1 DEF TextsOver
  <2>3. UpTo(texts, k + 1) = UpTo(texts, k) \o texts[k + 1]
    BY <2>2, UpToSteps
  <2>4. UpTo(texts, k) = <<>> /\ texts[k + 1] = <<>> /\ <<>> \in Seq({})
    BY <1>2, <2>1
  <2> QED
    BY <2>3, <2>4, ConcatEmptySeq
<1> HIDE DEF S
<1>3. \A k \in Nat : k \in S
  BY <1>1, <1>2, AllNumbers
<1> QED
  BY <1>3 DEF S

LEMMA OneByOne ==
  ASSUME NEW V, NEW s \in Seq(V), NEW texts, \A i \in 1..Len(s) : texts[i] = <<s[i]>>
  PROVE  UpTo(texts, Len(s)) = s
<1> DEFINE n == Len(s)
           S == {k \in Nat : k <= n => UpTo(texts, k) = SubSeq(s, 1, k)}
<1>1. 0 \in S
  <2>1. SubSeq(s, 1, 0) = <<>>
    <3> DEFINE one == 1
               none == 0
    <3>1. one \in Int /\ none \in Int /\ one > none
      OBVIOUS
    <3> HIDE DEF one, none
    <3>2. SubSeq(s, one, none) = <<>>
      BY <3>1, SubSeqEmpty
    <3> QED
      BY <3>2 DEF one, none
  <2> QED
    BY <2>1, UpToNone
<1>2. ASSUME NEW k \in Nat, k \in S
      PROVE  k + 1 \in S
  <2>1. SUFFICES ASSUME k + 1 <= n PROVE UpTo(texts, k + 1) = SubSeq(s, 1, k + 1)
    OBVIOUS
  <2>2. \A i \in 1..(k + 1) : i \in 1..n /\ s[i] \in V /\ texts[i] = <<s[i]>>
    BY <2>1
  <2>3. TextsOver(V, texts, k + 1)
    <3>1. \A i \in 1..(k + 1) : texts[i] \in Seq(V)
      BY <2>2, SmallTexts
    <3> QED
      BY <3>1 DEF TextsOver
  <2>4. UpTo(texts, k + 1) = UpTo(texts, k) \o texts[k + 1]
    BY <2>3, UpToSteps
  <2>5. UpTo(texts, k) = SubSeq(s, 1, k) /\ texts[k + 1] = <<s[k + 1]>>
    BY <1>2, <2>1, <2>2
  <2> DEFINE j == k + 1
  <2>6. j \in 1..Len(s) /\ 1 \in 1..Len(s) /\ j - 1 = k
    BY <2>1
  <2> HIDE DEF j
  <2>7. SubSeq(s, 1, j) = SubSeq(s, 1, j - 1) \o <<s[j]>>
    BY <2>6, SubSeqRecursiveSecond
  <2> QED
    BY <2>4, <2>5, <2>6, <2>7 DEF j
<1> HIDE DEF S
<1>3. \A k \in Nat : k \in S
  BY <1>1, <1>2, AllNumbers
<1>4. n \in Nat /\ UpTo(texts, n) = SubSeq(s, 1, n)
  BY <1>3 DEF S
<1> QED
  BY <1>4, SubSeqFull

\* What one field is read from: its own line.
LEMMA FirstOnly ==
  ASSUME NEW A, NEW texts, NEW n \in Nat, texts[1] \in Seq(A), \A i \in 1..n : texts[i + 1] = <<>>
  PROVE  UpTo(texts, n + 1) = texts[1]
<1>1. \A i \in 1..(n + 1) : i = 1 \/ (i - 1 \in 1..n /\ (i - 1) + 1 = i)
  OBVIOUS
<1>2. TextsOver(A, texts, 1 + n) /\ TextsOver(A, texts, 1)
  <2>1. \A i \in 1..(n + 1) : texts[i] \in Seq(A)
    <3>1. ASSUME NEW i \in 1..(n + 1)
          PROVE  texts[i] \in Seq(A)
      <4>1. CASE i = 1
        BY <4>1
      <4>2. CASE i # 1
        <5>1. i - 1 \in 1..n /\ (i - 1) + 1 = i
          BY <1>1, <4>2
        <5>2. texts[(i - 1) + 1] = <<>>
          BY <5>1
        <5> QED
          BY <5>1, <5>2, SmallTexts
      <4> QED
        BY <4>1, <4>2
    <3> QED
      BY <3>1
  <2> QED
    BY <2>1 DEF TextsOver
<1>3. UpTo(texts, 1 + n) = UpTo(texts, 1) \o UpTo(From(texts, 1, n), n)
  <2> DEFINE one == 1
  <2>1. one \in Nat /\ TextsOver(A, texts, one + n)
    BY <1>2
  <2> HIDE DEF one
  <2>2. UpTo(texts, one + n) = UpTo(texts, one) \o UpTo(From(texts, one, n), n)
    BY <2>1, UpToBehind
  <2> QED
    BY <2>2 DEF one
<1>4. UpTo(From(texts, 1, n), n) = <<>>
  <2>1. \A i \in 1..n : From(texts, 1, n)[i] = <<>>
    <3>1. \A i \in 1..n : 1 + i = i + 1
      OBVIOUS
    <3> QED
      BY <3>1 DEF From
  <2> QED
    BY <2>1, NothingAdded
<1>5. UpTo(texts, 1) = texts[1]
  BY <1>2, UpToOne
<1> QED
  BY <1>3, <1>4, <1>5, ConcatEmptySeq

\* What the others are read from: the lines after that.
LEMMA AllButFirst ==
  ASSUME NEW V, NEW s \in Seq(V), NEW texts, texts[1] = <<>>,
         \A i \in 1..Len(s) : texts[i + 1] = <<s[i]>>
  PROVE  UpTo(texts, Len(s) + 1) = s
<1> DEFINE n == Len(s)
<1>1. n \in Nat /\ \A i \in 1..n : texts[i + 1] = <<s[i]>> /\ s[i] \in V
  OBVIOUS
<1> HIDE DEF n
<1>2. TextsOver(V, texts, 1 + n) /\ TextsOver(V, texts, 1)
  <2>1. ASSUME NEW i \in 1..(1 + n)
        PROVE  texts[i] \in Seq(V)
    <3>1. CASE i = 1
      BY <3>1, SmallTexts
    <3>2. CASE i # 1
      <4>1. i - 1 \in 1..n /\ (i - 1) + 1 = i
        BY <1>1, <3>2
      <4>2. texts[(i - 1) + 1] = <<s[i - 1]>> /\ s[i - 1] \in V
        BY <1>1, <4>1
      <4> QED
        BY <4>1, <4>2, SmallTexts
    <3> QED
      BY <3>1, <3>2
  <2> QED
    BY <1>1, <2>1 DEF TextsOver
<1>3. UpTo(texts, 1 + n) = UpTo(texts, 1) \o UpTo(From(texts, 1, n), n)
  <2> DEFINE one == 1
  <2>1. one \in Nat /\ TextsOver(V, texts, one + n)
    BY <1>2
  <2> HIDE DEF one
  <2>2. UpTo(texts, one + n) = UpTo(texts, one) \o UpTo(From(texts, one, n), n)
    BY <1>1, <2>1, UpToBehind
  <2> QED
    BY <2>2 DEF one
<1>4. UpTo(From(texts, 1, n), n) = s
  <2>1. \A i \in 1..n : From(texts, 1, n)[i] = <<s[i]>>
    <3>1. \A i \in 1..n : 1 + i = i + 1
      BY <1>1
    <3> QED
      BY <1>1, <3>1 DEF From
  <2> QED
    BY <2>1, OneByOne DEF n
<1>5. UpTo(texts, 1) = <<>>
  BY <1>2, UpToOne
<1>6. 1 + n = n + 1
  BY <1>1
<1> QED
  BY <1>3, <1>4, <1>5, <1>6, ConcatEmptySeq DEF n

-------------------------------------------------------------------------------
LEMMA LinesOfBody ==
  ASSUME NEW e \in Events
  PROVE  Append(Split(BodyOf(e), LF).complete, Split(BodyOf(e), LF).rest) = FieldsOf(e)
<1> DEFINE fields == FieldsOf(e)
           n == Len(fields)
           m == n - 1
           c == SubSeq(fields, 1, m)
<1>1. /\ fields \in Seq(Line) /\ n \in Nat /\ n # 0 /\ m \in Nat /\ m <= n
      /\ fields[n] \in Line /\ n \in 1..Len(fields) /\ 1 \in 1..Len(fields) /\ n - 1 = m
  BY FieldsAreLines
<1>2. Split(Ended(e, m), LF) = [complete |-> c, rest |-> <<>>] /\ Ended(e, m) \in Seq(Atoms)
  BY <1>1, LinesOfFrame, FrameTexts
<1>3. BodyOf(e) = Ended(e, m) \o fields[n]
  BY DEF BodyOf
<1>4. SubSeq(fields, 1, n) = SubSeq(fields, 1, m) \o <<fields[n]>>
  <2> HIDE DEF fields, n, m
  <2>1. SubSeq(fields, 1, n) = SubSeq(fields, 1, n - 1) \o <<fields[n]>>
    BY <1>1, SubSeqRecursiveSecond
  <2> QED
    BY <1>1, <2>1
<1>5. SubSeq(fields, 1, n) = fields
  <2> HIDE DEF fields
  <2> QED
    BY <1>1, SubSeqFull
<1>6. c \in Seq(Line)
  <2>1. \A i \in 1..m : fields[i] \in Line
    BY <1>1
  <2> HIDE DEF fields, m
  <2> QED
    BY <1>1, <2>1, SubSeqProperties
<1> HIDE DEF c, m, n, fields
<1>7. Split(Ended(e, m) \o fields[n], LF) = [complete |-> c, rest |-> fields[n]]
  BY <1>1, <1>2, SplitEndsLine
<1>8. Append(c, fields[n]) = c \o <<fields[n]>>
  BY <1>1, <1>6, AppendIsConcat
<1>9. /\ Split(BodyOf(e), LF).complete = c /\ Split(BodyOf(e), LF).rest = fields[n]
  BY <1>3, <1>7
<1> QED
  BY <1>4, <1>5, <1>8, <1>9 DEF c, fields

\* For each line of a frame what a search for a name takes from it.
Found(e, name) ==
  [i \in DOMAIN FieldsOf(e) |->
     IF FieldsOf(e)[i] # <<>> /\ FieldsOf(e)[i][1] = name THEN <<Tail(FieldsOf(e)[i])>> ELSE <<>>]

LEMMA FieldsAreFound ==
  ASSUME NEW e \in Events, NEW name
  PROVE  /\ Fields(BodyOf(e), name) = UpTo(Found(e, name), Len(FieldsOf(e)))
         /\ \A i \in 1..Len(FieldsOf(e)) :
              /\ FieldsOf(e)[i][1] = name => Found(e, name)[i] = <<Tail(FieldsOf(e)[i])>>
              /\ FieldsOf(e)[i][1] # name => Found(e, name)[i] = <<>>
<1>1. Fields(BodyOf(e), name) = Concat(Found(e, name))
  BY LinesOfBody DEF Fields, Found
<1>2. DOMAIN FieldsOf(e) = 1..Len(FieldsOf(e)) /\ Len(FieldsOf(e)) \in Nat
  BY FieldsAreLines
<1>3. Len(Found(e, name)) = Len(FieldsOf(e))
  BY <1>2 DEF Found
<1>4. \A i \in 1..Len(FieldsOf(e)) : FieldsOf(e)[i] # <<>>
  BY FieldsAreLines
<1> QED
  BY <1>1, <1>2, <1>3, <1>4 DEF Concat, Found

LEMMA NameTrimmed == \A name \in Name : Trim(<<"blank">> \o name) = name
<1> SUFFICES ASSUME NEW name \in Name PROVE Trim(<<"blank">> \o name) = name
  OBVIOUS
<1> DEFINE A == Atoms \ {"\r", "\n", "blank"}
           n == Len(name)
           text == <<"blank">> \o name
           inside == {i \in DOMAIN text :
                        /\ \E j \in DOMAIN text : j <= i /\ text[j] \notin {"blank", "\r"}
                        /\ \E j \in DOMAIN text : i <= j /\ text[j] \notin {"blank", "\r"}}
           kept == [i \in DOMAIN text |-> IF i \in inside THEN <<text[i]>> ELSE <<>>]
<1>1. name \in Seq(A) /\ n \in Nat /\ \A i \in 1..n : name[i] \notin {"blank", "\r"}
  BY DEF Name
<1>2. name \in Seq(Atoms) /\ "blank" \in Atoms
  BY SeqMonotonic DEF Name, Atoms
<1> HIDE DEF n
<1>3. /\ text \in Seq(Atoms) /\ Len(text) = n + 1 /\ text[1] = "blank"
      /\ \A i \in 1..n : text[i + 1] = name[i]
  BY <1>2, Cons DEF n
<1>4. Trim(text) = Concat(kept)
  BY DEF Trim
<1> HIDE DEF text
<1>5. DOMAIN text = 1..(n + 1)
  BY <1>1, <1>3
<1>6. 1 \notin inside
  <2>1. \A j \in 1..(n + 1) : j <= 1 => j = 1
    BY <1>1
  <2> QED
    BY <1>3, <1>5, <2>1
<1>7. \A i \in 1..n : i + 1 \in inside
  <2>1. ASSUME NEW i \in 1..n
        PROVE  i + 1 \in inside
    <3>1. i + 1 \in DOMAIN text /\ i + 1 <= i + 1
      BY <1>1, <1>5
    <3>2. text[i + 1] \notin {"blank", "\r"}
      BY <1>1, <1>3
    <3> QED
      BY <3>1, <3>2
  <2> QED
    BY <2>1
<1> HIDE DEF inside
<1>8. kept[1] = <<>> /\ \A i \in 1..n : kept[i + 1] = <<name[i]>>
  <2>1. 1 \in DOMAIN text /\ \A i \in 1..n : i + 1 \in DOMAIN text
    BY <1>1, <1>5
  <2> QED
    BY <1>3, <1>6, <1>7, <2>1
<1>9. Concat(kept) = UpTo(kept, n + 1)
  <2>1. Len(kept) = n + 1
    BY <1>1, <1>5
  <2> QED
    BY <2>1 DEF Concat
<1> HIDE DEF kept
<1>10. UpTo(kept, n + 1) = name
  BY <1>1, <1>8, AllButFirst DEF n
<1> QED
  BY <1>4, <1>9, <1>10 DEF text

\* The parser reads in a frame what its event meant.
LEMMA Understood ==
  ASSUME NEW e \in Events
  PROVE  EventOf(BodyOf(e)) = Meant(e)
<1>1. CASE e = Ping
  <2>1. FieldsOf(e) = << <<":">> >> /\ Meant(e) = <<>>
    BY <1>1 DEF FieldsOf, Meant
  <2>2. Len(FieldsOf(e)) = 1 /\ FieldsOf(e)[1] = <<":">> /\ FieldsOf(e)[1][1] = ":" /\ \A i \in 1..1 : i = 1
    BY <2>1
  <2>3. \A i \in 1..Len(FieldsOf(e)) : FieldsOf(e)[i][1] # "event:"
    BY <2>2
  <2>4. /\ Fields(BodyOf(e), "event:") = UpTo(Found(e, "event:"), Len(FieldsOf(e)))
        /\ \A i \in 1..Len(FieldsOf(e)) : Found(e, "event:")[i] = <<>>
    BY <2>3, FieldsAreFound
  <2>5. UpTo(Found(e, "event:"), Len(FieldsOf(e))) = <<>>
    BY <2>2, <2>4, NothingAdded
  <2> QED
    BY <2>1, <2>4, <2>5 DEF EventOf
<1>2. CASE e # Ping
  <2> DEFINE n == Len(e.lines)
             name == e.event
             lines == e.lines
             x == <<"blank">> \o name
             values == [i \in 1..n |-> <<"blank">> \o lines[i]]
             named == Found(e, "event:")
             found == Found(e, "data:")
  <2>1. name \in Name /\ lines \in Seq(Line) /\ n \in Nat /\ DOMAIN lines = 1..n
    BY <1>2, SentEvent
  <2>2. name \in Line /\ name # <<>> /\ \A i \in 1..n : lines[i] \in Line
    <3>1. Atoms \ {"\r", "\n", "blank"} \subseteq Atoms \ {"\r", "\n"}
      OBVIOUS
    <3> QED
      BY <2>1, <3>1, SeqMonotonic DEF Name, Line
  <2>3. /\ Len(FieldsOf(e)) = n + 1
        /\ FieldsOf(e)[1] = <<"event:", "blank">> \o name
        /\ \A i \in 1..n : FieldsOf(e)[i + 1] = <<"data:", "blank">> \o lines[i]
    BY <1>2, FieldsShape
  <2>4. FieldsOf(e)[1][1] = "event:" /\ Tail(FieldsOf(e)[1]) = x
    BY <2>2, <2>3, FieldIsLine
  <2>5. ASSUME NEW i \in 1..n
        PROVE  FieldsOf(e)[i + 1][1] = "data:" /\ Tail(FieldsOf(e)[i + 1]) = values[i]
    <3>1. lines[i] \in Line /\ FieldsOf(e)[i + 1] = <<"data:", "blank">> \o lines[i]
      BY <2>2, <2>3
    <3>2. values[i] = <<"blank">> \o lines[i]
      OBVIOUS
    <3> DEFINE w == lines[i]
    <3> HIDE DEF w, values
    <3>3. /\ (<<"data:", "blank">> \o w)[1] = "data:"
          /\ Tail(<<"data:", "blank">> \o w) = <<"blank">> \o w
      BY <3>1, FieldIsLine DEF w
    <3> QED
      BY <3>1, <3>2, <3>3 DEF w
  <2>6. \A i \in 1..n : i + 1 \in 1..Len(FieldsOf(e))
    BY <2>1, <2>3
  <2>7. 1 \in 1..Len(FieldsOf(e))
    BY <2>1, <2>3
  <2> HIDE DEF x, n
  <2>8. Fields(BodyOf(e), "event:") = <<x>>
    <3>1. /\ Fields(BodyOf(e), "event:") = UpTo(named, n + 1)
          /\ named[1] = <<x>> /\ \A i \in 1..n : named[i + 1] = <<>>
      <4>1. /\ Fields(BodyOf(e), "event:") = UpTo(named, Len(FieldsOf(e)))
            /\ \A i \in 1..Len(FieldsOf(e)) :
                 /\ FieldsOf(e)[i][1] = "event:" => named[i] = <<Tail(FieldsOf(e)[i])>>
                 /\ FieldsOf(e)[i][1] # "event:" => named[i] = <<>>
        BY FieldsAreFound
      <4> HIDE DEF named, values
      <4>2. named[1] = <<x>>
        BY <2>4, <2>7, <4>1
      <4>3. \A i \in 1..n : named[i + 1] = <<>>
        BY <2>5, <2>6, <4>1
      <4> QED
        BY <2>3, <4>1, <4>2, <4>3
    <3>2. <<x>> \in Seq({x})
      BY SmallTexts
    <3> HIDE DEF named
    <3> QED
      BY <2>1, <3>1, <3>2, FirstOnly
  <2>9. Fields(BodyOf(e), "data:") = values
    <3>1. /\ Fields(BodyOf(e), "data:") = UpTo(found, n + 1)
          /\ found[1] = <<>> /\ \A i \in 1..n : found[i + 1] = <<values[i]>>
      <4>1. /\ Fields(BodyOf(e), "data:") = UpTo(found, Len(FieldsOf(e)))
            /\ \A i \in 1..Len(FieldsOf(e)) :
                 /\ FieldsOf(e)[i][1] = "data:" => found[i] = <<Tail(FieldsOf(e)[i])>>
                 /\ FieldsOf(e)[i][1] # "data:" => found[i] = <<>>
        BY FieldsAreFound
      <4> HIDE DEF found, values
      <4>2. found[1] = <<>>
        BY <2>4, <2>7, <4>1
      <4>3. \A i \in 1..n : found[i + 1] = <<values[i]>>
        BY <2>5, <2>6, <4>1
      <4> QED
        BY <2>3, <4>1, <4>2, <4>3
    <3>2. values \in Seq({values[i] : i \in 1..n}) /\ Len(values) = n
      BY <2>1
    <3> HIDE DEF found, values
    <3>3. UpTo(found, Len(values) + 1) = values
      BY <3>1, <3>2, AllButFirst
    <3> QED
      BY <3>1, <3>2, <3>3
  <2>10. \A i \in 1..n : Value(values[i]) = lines[i]
    <3>1. ASSUME NEW i \in 1..n
          PROVE  Value(values[i]) = lines[i]
      <4> DEFINE w == <<"blank">> \o lines[i]
      <4>1. lines[i] \in Seq(Atoms) /\ "blank" \in Atoms
        BY <2>2, LineIsText DEF Atoms
      <4>2. w # <<>> /\ w[1] = "blank" /\ Tail(w) = lines[i]
        BY <4>1, Cons
      <4>3. values[i] = w
        OBVIOUS
      <4> HIDE DEF w, values
      <4> QED
        BY <4>2, <4>3 DEF Value
    <3> QED
      BY <3>1
  <2>11. DataOf(BodyOf(e)) = Join(lines, LF)
    <3>1. DOMAIN values = 1..n
      OBVIOUS
    <3>2. DataOf(BodyOf(e)) = Join([i \in DOMAIN values |-> Value(values[i])], LF)
      BY <2>9 DEF DataOf
    <3>3. [i \in DOMAIN values |-> Value(values[i])] = lines
      <4> HIDE DEF values
      <4>1. lines = [i \in 1..n |-> lines[i]]
        BY <2>1
      <4> QED
        BY <2>10, <3>1, <4>1
    <3> QED
      BY <3>2, <3>3
  <2>12. Trim(x) = name
    BY <2>1, NameTrimmed DEF x
  <2> HIDE DEF values
  <2>13. <<x>> # <<>> /\ <<x>>[1] = x
    OBVIOUS
  <2>14. EventOf(BodyOf(e)) = <<[event |-> name, data |-> Join(lines, LF)]>>
    BY <2>2, <2>8, <2>11, <2>12, <2>13 DEF EventOf
  <2> QED
    BY <1>2, <2>14 DEF Meant
<1> QED
  BY <1>1, <1>2

-------------------------------------------------------------------------------
(***************************************************************************)
(* What has arrived of a stream: some whole frames and the beginning of    *)
(* the next                                                                *)
(***************************************************************************)
LEMMA CancelLeft ==
  ASSUME NEW A, NEW s \in Seq(A), NEW t \in Seq(A), NEW v \in Seq(A), s \o t = s \o v
  PROVE  t = v
BY ConcatSimplifications

\* c begins with a, and b with what c has more.
Overlap(A, a, b, c, d) == \E e \in Seq(A) : c = a \o e /\ b = e \o d

LEMMA TheLonger ==
  ASSUME NEW A, NEW a \in Seq(A), NEW b \in Seq(A), NEW c \in Seq(A), NEW d \in Seq(A),
         a \o b = c \o d, Len(a) <= Len(c)
  PROVE  Overlap(A, a, b, c, d)
<1> DEFINE m == Len(a)
           n == Len(c)
           e == SubSeq(c, m + 1, n)
           one == 1
<1>1. /\ m \in Nat /\ n \in Nat /\ m <= n /\ Len(b) \in Nat /\ Len(d) \in Nat
      /\ one \in Int /\ one = 1
  OBVIOUS
<1>2. \A i \in 1..m : c[i] = a[i]
  <2>1. \A i \in 1..m : i \in 1..(Len(a) + Len(b)) /\ i \in 1..(Len(c) + Len(d)) /\ i <= Len(a) /\ i <= Len(c)
    BY <1>1
  <2>2. /\ \A i \in 1..(Len(a) + Len(b)) : (a \o b)[i] = IF i <= Len(a) THEN a[i] ELSE b[i - Len(a)]
        /\ \A i \in 1..(Len(c) + Len(d)) : (c \o d)[i] = IF i <= Len(c) THEN c[i] ELSE d[i - Len(c)]
    BY ConcatProperties
  <2> QED
    BY <2>1, <2>2
<1> HIDE DEF m, n, one
<1>3. SubSeq(c, one, m) = a
  <2>1. \A i \in one..m : c[i] \in A
    BY <1>1 DEF n
  <2> DEFINE s == SubSeq(c, one, m)
  <2>2. /\ s \in Seq(A) /\ Len(s) = IF one <= m THEN m - one + 1 ELSE 0
        /\ \A i \in 1..(m - one + 1) : s[i] = c[one + i - 1]
    BY <1>1, <2>1, SubSeqProperties
  <2> HIDE DEF s
  <2>3. Len(s) = Len(a) /\ \A i \in 1..Len(s) : i \in 1..(m - one + 1) /\ one + i - 1 = i /\ i \in 1..m
    BY <1>1, <2>2 DEF m
  <2>4. \A i \in 1..Len(s) : s[i] = a[i]
    BY <1>2, <2>2, <2>3
  <2>5. s = a
    BY <2>2, <2>3, <2>4, SeqEqual
  <2> QED
    BY <2>5 DEF s
<1>4. e \in Seq(A)
  <2> DEFINE k == m + 1
  <2>1. k \in Int /\ \A i \in k..n : c[i] \in A
    BY <1>1 DEF n
  <2> HIDE DEF k
  <2>2. SubSeq(c, k, n) \in Seq(A)
    BY <1>1, <2>1, SubSeqProperties
  <2> QED
    BY <2>2 DEF k
<1>5. c = a \o e
  <2>1. SubSeq(c, one, m) \o SubSeq(c, m + 1, n) = SubSeq(c, one, n)
    <3>1. one \in 1..(Len(c) + 1) /\ m \in (one - 1)..Len(c) /\ n \in m..Len(c)
      BY <1>1 DEF n
    <3> QED
      BY <3>1, ConcatAdjacentSubSeq
  <2>2. SubSeq(c, one, n) = c
    BY <1>1, SubSeqFull DEF n
  <2> QED
    BY <1>3, <2>1, <2>2
<1> HIDE DEF e
<1>6. a \o b = a \o (e \o d)
  BY <1>4, <1>5, ConcatAssociative
<1>7. e \o d \in Seq(A)
  BY <1>4, ConcatProperties
<1>8. b = e \o d
  BY <1>6, <1>7, CancelLeft
<1> QED
  BY <1>4, <1>5, <1>8 DEF Overlap

\* text is the first k of n texts and the beginning p of the next, if there is one.
Stops(A, texts, n, text, k, p) ==
  /\ text = UpTo(texts, k) \o p
  /\ k = n => p = <<>>
  /\ k < n => \E r \in Seq(A) : r # <<>> /\ texts[k + 1] = p \o r

LEMMA WhereItStops ==
  ASSUME NEW A, NEW texts, NEW n \in Nat, TextsOver(A, texts, n)
  PROVE  \A y \in Seq(A) : \A z \in Seq(A) :
           UpTo(texts, n) = y \o z => \E k \in 0..n, p \in Seq(A) : Stops(A, texts, n, y, k, p)
<1> DEFINE Good(m) == \A y \in Seq(A) : \A z \in Seq(A) :
                        UpTo(texts, m) = y \o z => \E k \in 0..m, p \in Seq(A) : Stops(A, texts, m, y, k, p)
           S == {m \in Nat : m <= n => Good(m)}
<1>1. 0 \in S
  <2>1. SUFFICES ASSUME NEW y \in Seq(A), NEW z \in Seq(A), UpTo(texts, 0) = y \o z
                 PROVE  \E k \in 0..0, p \in Seq(A) : Stops(A, texts, 0, y, k, p)
    OBVIOUS
  <2>2. UpTo(texts, 0) = <<>> /\ <<>> \in Seq(A)
    BY UpToNone, SmallTexts
  <2>3. y = <<>>
    BY <2>1, <2>2, ConcatEqualIffEmpty
  <2>4. y = UpTo(texts, 0) \o <<>>
    BY <2>2, <2>3, ConcatEmptySeq
  <2>5. 0 \in 0..0 /\ ~(0 < 0)
    OBVIOUS
  <2> QED
    BY <2>2, <2>4, <2>5 DEF Stops
<1>2. ASSUME NEW m \in Nat, m \in S
      PROVE  m + 1 \in S
  <2>1. SUFFICES ASSUME m + 1 <= n PROVE Good(m + 1)
    OBVIOUS
  <2>2. SUFFICES ASSUME NEW y \in Seq(A), NEW z \in Seq(A), UpTo(texts, m + 1) = y \o z
                 PROVE  \E k \in 0..(m + 1), p \in Seq(A) : Stops(A, texts, m + 1, y, k, p)
    OBVIOUS
  <2> DEFINE W == UpTo(texts, m)
             last == texts[m + 1]
  <2>3. Good(m)
    BY <1>2, <2>1
  <2>4. /\ W \in Seq(A) /\ last \in Seq(A)
        /\ UpTo(texts, m + 1) = W \o last
    <3>1. TextsOver(A, texts, m + 1) /\ m + 1 \in 1..(m + 1)
      BY <2>1 DEF TextsOver
    <3>2. W \in Seq(A) /\ UpTo(texts, m + 1) = W \o last
      BY <3>1, UpToSteps
    <3> QED
      BY <3>1, <3>2 DEF TextsOver
  <2>5. W \o last = y \o z /\ Len(W) \in Nat /\ Len(y) \in Nat
    <3>1. W \o last = y \o z
      BY <2>2, <2>4
    <3> HIDE DEF W
    <3>2. Len(W) \in Nat /\ Len(y) \in Nat
      BY <2>4
    <3> QED
      BY <3>1, <3>2
  <2>6. CASE z = <<>>
    <3>1. y = UpTo(texts, m + 1) \o <<>>
      BY <2>2, <2>6, ConcatEmptySeq
    <3>2. m + 1 \in 0..(m + 1) /\ ~(m + 1 < m + 1) /\ <<>> \in Seq(A)
      BY SmallTexts
    <3> QED
      BY <3>1, <3>2 DEF Stops
  <2>7. CASE z # <<>> /\ Len(W) <= Len(y)
    <3> HIDE DEF W, last
    <3>1. PICK p \in Seq(A) : y = W \o p /\ last = p \o z
      <4>1. W \in Seq(A) /\ last \in Seq(A) /\ W \o last = y \o z /\ Len(W) <= Len(y)
        BY <2>4, <2>5, <2>7
      <4>2. y \in Seq(A) /\ z \in Seq(A)
        OBVIOUS
      <4> HIDE DEF S, Good
      <4>3. Overlap(A, W, last, y, z)
        BY <4>1, <4>2, TheLonger
      <4> QED
        BY <4>3 DEF Overlap
    <3>2. m \in 0..(m + 1) /\ m # m + 1
      OBVIOUS
    <3> QED
      BY <2>7, <3>1, <3>2 DEF Stops, W, last
  <2>8. CASE z # <<>> /\ Len(y) <= Len(W)
    <3>1. PICK e \in Seq(A) : W = y \o e /\ z = e \o last
      <4> HIDE DEF W, last
      <4>1. W \in Seq(A) /\ last \in Seq(A) /\ y \o z = W \o last /\ Len(y) <= Len(W)
        BY <2>4, <2>5, <2>8
      <4>2. y \in Seq(A) /\ z \in Seq(A)
        OBVIOUS
      <4> HIDE DEF S, Good
      <4>3. Overlap(A, y, z, W, last)
        BY <4>1, <4>2, TheLonger
      <4> QED
        BY <4>3 DEF Overlap
    <3>2. PICK k \in 0..m, p \in Seq(A) : Stops(A, texts, m, y, k, p)
      BY <2>3, <3>1
    <3>3. k \in 0..(m + 1) /\ k # m + 1
      OBVIOUS
    <3>4. \E r \in Seq(A) : r # <<>> /\ texts[k + 1] = p \o r
      <4>1. CASE k = m
        <5>1. p = <<>> /\ y = UpTo(texts, m) \o <<>>
          BY <3>2, <4>1 DEF Stops
        <5>2. y = W
          BY <2>4, <5>1, ConcatEmptySeq
        <5>3. z = last
          <6> HIDE DEF W, last
          <6> QED
            BY <2>4, <2>5, <5>2, CancelLeft
        <5>4. texts[k + 1] = p \o last
          BY <2>4, <4>1, <5>1, ConcatEmptySeq
        <5> QED
          BY <2>4, <2>8, <5>3, <5>4
      <4>2. CASE k # m
        <5>1. k < m
          BY <4>2
        <5> QED
          BY <3>2, <5>1 DEF Stops
      <4> QED
        BY <4>1, <4>2
    <3>5. Stops(A, texts, m + 1, y, k, p)
      BY <3>2, <3>3, <3>4 DEF Stops
    <3> QED
      BY <3>3, <3>5
  <2> QED
    BY <2>5, <2>6, <2>7, <2>8
<1> HIDE DEF S
<1>3. \A m \in Nat : m \in S
  BY <1>1, <1>2, AllNumbers
<1>4. Good(n)
  <2>1. n \in S /\ n <= n
    BY <1>3
  <2> HIDE DEF Good
  <2> QED
    BY <2>1 DEF S
<1> QED
  BY <1>4

-------------------------------------------------------------------------------
LEMMA StopsTidy ==
  ASSUME NEW es \in Seq(Events), NEW y, NEW k \in 0..Len(es), NEW p \in Seq(Atoms),
         Stops(Atoms, Wires(es), Len(es), y, k, p)
  PROVE  Tidy(LfOnly(p))
<1>1. CASE k = Len(es)
  <2>1. p = <<>>
    BY <1>1 DEF Stops
  <2> QED
    BY <2>1, LfOnlyNone DEF Tidy
<1>2. CASE k # Len(es)
  <2>1. k < Len(es) /\ k + 1 \in 1..Len(es) /\ k + 1 \in DOMAIN es /\ es[k + 1] \in Events
    BY <1>2
  <2>2. PICK r \in Seq(Atoms) : r # <<>> /\ Wires(es)[k + 1] = p \o r
    BY <2>1 DEF Stops
  <2> DEFINE e == es[k + 1]
  <2>3. e \in Events /\ Encoded(e) = p \o r
    BY <2>1, <2>2 DEF Wires
  <2> HIDE DEF e
  <2> QED
    BY <2>2, <2>3, BeginningsTidy
<1> QED
  BY <1>1, <1>2

SameText(s, t, u) == (s \o t) \o u = s \o (t \o u)

LEMMA Together ==
  ASSUME NEW A, NEW s \in Seq(A), NEW t \in Seq(A), NEW u \in Seq(A)
  PROVE  SameText(s, t, u)
BY ConcatAssociative DEF SameText

SameBehind(s, t, u, v, w) == t \o u = v \o w => (s \o t) \o u = (s \o v) \o w

LEMMA Regroup ==
  ASSUME NEW A, NEW s \in Seq(A), NEW t \in Seq(A), NEW u \in Seq(A), NEW v \in Seq(A),
         NEW w \in Seq(A)
  PROVE  SameBehind(s, t, u, v, w)
<1>1. (s \o t) \o u = s \o (t \o u)
  BY ConcatAssociative
<1>2. (s \o v) \o w = s \o (v \o w)
  BY ConcatAssociative
<1> QED
  BY <1>1, <1>2 DEF SameBehind

\* The chunk x completes m frames, the first of which p had begun, and q begins another.
StopsThen(es, y, k, p, x, m, q) ==
  /\ Stops(Atoms, Wires(es), Len(es), y \o x, k + m, q)
  /\ p \o x = UpTo(From(Wires(es), k, m), m) \o q

LEMMA NextStop ==
  ASSUME NEW es \in Seq(Events), NEW k \in 0..Len(es), NEW y \in Seq(Atoms), NEW p \in Seq(Atoms),
         Stops(Atoms, Wires(es), Len(es), y, k, p),
         NEW x \in Seq(Atoms), NEW u \in Seq(Atoms), UpTo(Wires(es), Len(es)) = y \o (x \o u)
  PROVE  \E m \in 0..(Len(es) - k), q \in Seq(Atoms) :
           StopsThen(es, y, k, p, x, m, q)
<1> DEFINE n == Len(es)
           f == Wires(es)
           more == n - k
           g == From(f, k, more)
           a == UpTo(f, k)
<1>1. n \in Nat /\ more \in Nat /\ k + more = n /\ k \in Nat /\ k <= n
  OBVIOUS
<1>2. TextsOver(Atoms, f, k + more) /\ a \in Seq(Atoms) /\ UpTo(f, n) = y \o (x \o u)
  <2>1. TextsOver(Atoms, f, n) /\ a \in Seq(Atoms)
    BY <1>1, WiresAreTexts
  <2> QED
    BY <1>1, <2>1
<1>3. Stops(Atoms, f, n, y, k, p)
  OBVIOUS
<1> HIDE DEF f, n, more
<1>4. TextsOver(Atoms, g, more) /\ UpTo(f, k + more) = UpTo(f, k) \o UpTo(g, more)
  <2>1. k \in Nat /\ more \in Nat /\ TextsOver(Atoms, f, k + more)
    BY <1>1, <1>2
  <2> QED
    BY <2>1, UpToBehind
<1>5. UpTo(g, more) \in Seq(Atoms)
  BY <1>1, <1>4, UpToType
<1> DEFINE b == UpTo(g, more)
           px == p \o x
<1>6. y = a \o p
  BY <1>3 DEF Stops
<1>7. b = px \o u /\ px \in Seq(Atoms)
  <2>1. a \o b = y \o (x \o u)
    BY <1>1, <1>2, <1>4
  <2> HIDE DEF a, b
  <2>2. /\ x \o u \in Seq(Atoms) /\ px \in Seq(Atoms)
        /\ (a \o p) \o (x \o u) = a \o (p \o (x \o u))
        /\ px \o u = p \o (x \o u)
    <3>1. x \o u \in Seq(Atoms) /\ px \in Seq(Atoms)
      BY ConcatProperties
    <3> DEFINE xu == x \o u
    <3>2. (a \o p) \o xu = a \o (p \o xu)
      <4> HIDE DEF xu
      <4>1. xu \in Seq(Atoms)
        BY <3>1 DEF xu
      <4> QED
        BY <1>2, <4>1, ConcatAssociative
    <3>3. (p \o x) \o u = p \o (x \o u)
      BY ConcatAssociative
    <3> QED
      BY <3>1, <3>2, <3>3
  <2> HIDE DEF px
  <2>3. a \o b = a \o (px \o u) /\ px \o u \in Seq(Atoms)
    BY <1>6, <2>1, <2>2, ConcatProperties
  <2>4. b \in Seq(Atoms)
    BY <1>5 DEF b
  <2>5. b = px \o u
    BY <1>2, <2>3, <2>4, CancelLeft
  <2> QED
    BY <2>2, <2>5
<1> HIDE DEF px
<1>8. PICK m \in 0..more, q \in Seq(Atoms) : Stops(Atoms, g, more, px, m, q)
  <2>1. UpTo(g, more) = px \o u
    BY <1>7
  <2> HIDE DEF g, b
  <2> QED
    BY <1>1, <1>4, <1>7, <2>1, WhereItStops
<1> DEFINE h == From(f, k, m)
           c == UpTo(h, m)
<1>9. m \in Nat /\ m <= more /\ k + m \in Nat /\ k + m <= n
  BY <1>1
<1>10. TextsOver(Atoms, f, k + m)
  BY <1>1, <1>2, <1>9 DEF TextsOver
<1>11. TextsOver(Atoms, h, m) /\ UpTo(f, k + m) = a \o c
  <2> HIDE DEF h
  <2>1. TextsOver(Atoms, From(f, k, m), m) /\ UpTo(f, k + m) = UpTo(f, k) \o UpTo(From(f, k, m), m)
    <3>1. k \in Nat /\ m \in Nat /\ TextsOver(Atoms, f, k + m)
      BY <1>1, <1>9, <1>10
    <3> QED
      BY <3>1, UpToBehind
  <2> QED
    BY <2>1 DEF h
<1>12. c \in Seq(Atoms)
  BY <1>9, <1>11, UpToType
<1>13. UpTo(g, m) = c
  <2>1. \A i \in 1..m : g[i] = h[i]
    <3>1. \A i \in 1..m : i \in 1..more
      BY <1>1, <1>9
    <3> QED
      BY <3>1 DEF From
  <2> HIDE DEF g, h
  <2> QED
    BY <1>9, <1>11, <2>1, UpToSame
<1>14. px = c \o q
  BY <1>8, <1>13 DEF Stops
<1>15. y \o x = UpTo(f, k + m) \o q
  <2>0. a \in Seq(Atoms) /\ c \in Seq(Atoms) /\ p \in Seq(Atoms) /\ x \in Seq(Atoms) /\ q \in Seq(Atoms)
    BY <1>2, <1>12
  <2> HIDE DEF a, b, c, g, h
  <2>1. y \o x = (a \o p) \o x
    BY <1>6
  <2>2. p \o x = c \o q
    BY <1>14 DEF px
  <2>3. SameBehind(a, p, x, c, q)
    BY <2>0, Regroup
  <2> QED
    BY <1>11, <2>1, <2>2, <2>3 DEF SameBehind
<1>16. k + m = n => q = <<>>
  <2>1. k + m = n => m = more
    BY <1>1, <1>9
  <2> QED
    BY <1>8, <2>1 DEF Stops
<1>17. k + m < n => \E r \in Seq(Atoms) : r # <<>> /\ f[(k + m) + 1] = q \o r
  <2>1. SUFFICES ASSUME k + m < n PROVE \E r \in Seq(Atoms) : r # <<>> /\ f[(k + m) + 1] = q \o r
    OBVIOUS
  <2>2. m < more /\ m + 1 \in 1..more /\ k + (m + 1) = (k + m) + 1
    BY <1>1, <1>9, <2>1
  <2>3. PICK r \in Seq(Atoms) : r # <<>> /\ g[m + 1] = q \o r
    BY <1>8, <2>2 DEF Stops
  <2>4. g[m + 1] = f[k + (m + 1)]
    BY <2>2 DEF From
  <2> QED
    BY <2>2, <2>3, <2>4
<1>18. Stops(Atoms, f, n, y \o x, k + m, q)
  BY <1>15, <1>16, <1>17 DEF Stops
<1> QED
  BY <1>14, <1>18 DEF n, f, more, px, StopsThen

\* What push makes of a chunk, given where the stream stopped before and stops now.
LEMMA ChunkSplits ==
  ASSUME NEW es \in Seq(Events), NEW k \in 0..Len(es), NEW m \in 0..(Len(es) - k),
         NEW p \in Seq(Atoms), NEW x \in Seq(Atoms), NEW q \in Seq(Atoms),
         Tidy(LfOnly(p)), Tidy(LfOnly(q)), NEW y, StopsThen(es, y, k, p, x, m, q)
  PROVE  Split(LfOnly(LfOnly(p) \o x), Gap) =
           [complete |-> Bodies(From(es, k, m), m), rest |-> LfOnly(q)]
<1> DEFINE some == From(es, k, m)
<1>1. /\ \A i \in 1..m : k + i \in 1..Len(es) /\ k + i \in DOMAIN es /\ es[k + i] \in Events
      /\ m \in Nat
  OBVIOUS
<1>2. some \in Seq(Events) /\ Len(some) = m /\ \A i \in 1..m : some[i] = es[k + i] /\ i \in DOMAIN some
  BY <1>1 DEF From
<1>3. UpTo(From(Wires(es), k, m), m) = UpTo(Wires(some), m)
  <2>1. \A i \in 1..m : From(Wires(es), k, m)[i] = Wires(some)[i]
    BY <1>1, <1>2 DEF From, Wires
  <2> HIDE DEF some
  <2>2. TextsOver(Atoms, Wires(some), m)
    <3>1. some \in Seq(Events) /\ m \in Nat /\ m <= Len(some)
      BY <1>1, <1>2
    <3> QED
      BY <3>1, WiresAreTexts
  <2> QED
    BY <1>1, <2>1, <2>2, UpToSame
<1> HIDE DEF some
<1>4. Split(LfOnly(UpTo(Wires(some), Len(some)) \o q), Gap) =
        [complete |-> Bodies(some, Len(some)), rest |-> LfOnly(q)]
  BY <1>2, StreamAndRest
<1>5. LfOnly(LfOnly(p) \o x) = LfOnly(p \o x)
  <2>1. LfOnly(p) \in Seq(Atoms)
    BY LfOnlyIsKept
  <2>2. LfOnly(LfOnly(p)) = LfOnly(p)
    BY <2>1, TidyStays
  <2> DEFINE s == LfOnly(p)
  <2> HIDE DEF s
  <2>3. s \in Seq(Atoms) /\ LfOnly(s) = LfOnly(p)
    BY <2>1, <2>2 DEF s
  <2>4. LfOnly(s \o x) = LfOnly(p \o x)
    BY <2>3, LfOnlyGoesOn
  <2> QED
    BY <2>4 DEF s
<1>6. LfOnly(p \o x) = LfOnly(UpTo(Wires(some), m) \o q)
  BY <1>3 DEF StopsThen
<1> QED
  BY <1>2, <1>4, <1>5, <1>6 DEF some

Meanings(es) == [i \in DOMAIN es |-> Meant(es[i])]

Shown == {[event |-> e.event, data |-> Join(e.lines, LF)] : e \in Sendable}

LEMMA MeaningsAreTexts ==
  ASSUME NEW es \in Seq(Events), NEW n \in Nat, n <= Len(es)
  PROVE  TextsOver(Shown, Meanings(es), n)
<1>1. \A e \in Events : Meant(e) \in Seq(Shown)
  <2> SUFFICES ASSUME NEW e \in Events PROVE Meant(e) \in Seq(Shown)
    OBVIOUS
  <2>1. CASE e = Ping
    BY <2>1, SmallTexts DEF Meant
  <2>2. CASE e # Ping
    <3> DEFINE v == [event |-> e.event, data |-> Join(e.lines, LF)]
    <3>1. v \in Shown
      BY <2>2 DEF Shown, Events
    <3>2. Meant(e) = <<v>>
      BY <2>2 DEF Meant
    <3> HIDE DEF v
    <3> QED
      BY <3>1, <3>2, SmallTexts
  <2> QED
    BY <2>1, <2>2
<1>2. \A i \in 1..n : i \in DOMAIN es /\ es[i] \in Events
  OBVIOUS
<1> QED
  BY <1>1, <1>2 DEF TextsOver, Meanings

\* The page is given what the frames that a chunk completes meant.
LEMMA ChunkShown ==
  ASSUME NEW es \in Seq(Events), NEW k \in 0..Len(es), NEW m \in 0..(Len(es) - k), NEW c,
         c = Bodies(From(es, k, m), m)
  PROVE  UpTo(Meanings(es), k) \o Concat([i \in DOMAIN c |-> EventOf(c[i])]) = UpTo(Meanings(es), k + m)
<1> DEFINE all == Meanings(es)
           h == From(all, k, m)
           read == [i \in DOMAIN c |-> EventOf(c[i])]
<1>1. /\ \A i \in 1..m : k + i \in 1..Len(es) /\ k + i \in DOMAIN es /\ es[k + i] \in Events
      /\ m \in Nat /\ k \in Nat /\ k + m \in Nat /\ k + m <= Len(es)
  OBVIOUS
<1>2. DOMAIN c = 1..m /\ \A i \in 1..m : c[i] = BodyOf(es[k + i])
  BY DEF Bodies, From
<1>3. \A i \in 1..m : read[i] = h[i]
  <2>1. ASSUME NEW i \in 1..m
        PROVE  read[i] = h[i]
    <3> DEFINE e == es[k + i]
    <3>1. e \in Events /\ read[i] = EventOf(BodyOf(e)) /\ h[i] = Meant(e)
      BY <1>1, <1>2 DEF From, Meanings
    <3> HIDE DEF e
    <3> QED
      BY <3>1, Understood
  <2> QED
    BY <2>1
<1>4. Concat(read) = UpTo(read, m)
  <2>1. Len(read) = m
    BY <1>1, <1>2
  <2> QED
    BY <2>1 DEF Concat
<1> HIDE DEF all, read, h
<1>5. TextsOver(Shown, all, k + m)
  BY <1>1, MeaningsAreTexts DEF all
<1>6. TextsOver(Shown, h, m) /\ UpTo(all, k + m) = UpTo(all, k) \o UpTo(h, m)
  <2>1. k \in Nat /\ m \in Nat
    BY <1>1
  <2> QED
    BY <1>5, <2>1, UpToBehind DEF h
<1>7. UpTo(read, m) = UpTo(h, m)
  BY <1>1, <1>3, <1>6, UpToSame
<1> QED
  BY <1>4, <1>6, <1>7 DEF all, read

LEMMA TwoPieces ==
  ASSUME NEW A, NEW s \in Seq(A), NEW n \in DOMAIN s
  PROVE  /\ SubSeq(s, 1, n) \in Seq(A) /\ SubSeq(s, n + 1, Len(s)) \in Seq(A)
         /\ s = SubSeq(s, 1, n) \o SubSeq(s, n + 1, Len(s))
<1> DEFINE one == 1
           k == n + 1
           m == Len(s)
<1>1. /\ one \in Int /\ k \in Int /\ m \in Int /\ n \in Int /\ one = 1 /\ n <= m /\ n >= 1
      /\ one \in 1..(Len(s) + 1) /\ n \in (one - 1)..Len(s) /\ m \in n..Len(s)
      /\ \A i \in one..n : s[i] \in A
      /\ \A i \in k..m : s[i] \in A
  OBVIOUS
<1> HIDE DEF one, k, m
<1>2. SubSeq(s, one, n) \in Seq(A) /\ SubSeq(s, k, m) \in Seq(A)
  BY <1>1, SubSeqProperties
<1>3. SubSeq(s, one, n) \o SubSeq(s, n + 1, m) = SubSeq(s, one, m)
  BY <1>1, ConcatAdjacentSubSeq
<1>4. SubSeq(s, one, m) = s
  BY <1>1, SubSeqFull DEF m
<1> QED
  BY <1>2, <1>3, <1>4 DEF one, k, m

-------------------------------------------------------------------------------
(***************************************************************************)
(* The page and the stream                                                 *)
(***************************************************************************)
\* The text y has arrived: the frames of k events, which the page has been given,
\* and the beginning of the next, which the buffer holds.
Arrived(y, k, p) ==
  /\ Concat(Frames) = y \o unread
  /\ Stops(Atoms, Frames, Len(sent), y, k, p)
  /\ buffer = LfOnly(p)
  /\ shown = UpTo(Meanings(sent), k)

StreamInv ==
  /\ sent \in Seq(Events) /\ unread \in Seq(Atoms)
  /\ \E y \in Seq(Atoms), k \in 0..Len(sent), p \in Seq(Atoms) : Arrived(y, k, p)

LEMMA WholeStream ==
  ASSUME sent \in Seq(Events)
  PROVE  /\ Frames = Wires(sent) /\ Concat(Frames) = UpTo(Frames, Len(sent))
         /\ Concat(Frames) \in Seq(Atoms)
<1>1. Frames = Wires(sent)
  BY DEF Frames, Wires
<1>2. Len(Frames) = Len(sent) /\ Len(sent) \in Nat /\ Len(sent) <= Len(sent)
  BY DEF Frames
<1>3. Concat(Frames) = UpTo(Frames, Len(sent))
  BY <1>2 DEF Concat
<1>4. UpTo(Wires(sent), Len(sent)) \in Seq(Atoms)
  BY <1>2, WiresAreTexts
<1> QED
  BY <1>1, <1>3, <1>4

LEMMA StreamStarts == Init => StreamInv
<1> SUFFICES ASSUME Init PROVE StreamInv
  OBVIOUS
<1>1. sent \in Seq(Events)
  BY SseAssumption DEF Init, Events
<1>2. unread = Concat(Frames) /\ unread \in Seq(Atoms) /\ UpTo(Frames, Len(sent)) = <<>> \o unread
  <2>1. unread = Concat(Frames) /\ unread \in Seq(Atoms) /\ Concat(Frames) = UpTo(Frames, Len(sent))
    BY <1>1, WholeStream DEF Init
  <2>2. <<>> \o unread = unread
    BY <2>1, ConcatEmptySeq
  <2> QED
    BY <2>1, <2>2
<1>3. TextsOver(Atoms, Frames, Len(sent)) /\ Len(sent) \in Nat
  <2>1. Len(sent) \in Nat /\ Len(sent) <= Len(sent)
    BY <1>1
  <2>2. TextsOver(Atoms, Wires(sent), Len(sent))
    BY <1>1, <2>1, WiresAreTexts
  <2> QED
    BY <1>1, <2>1, <2>2, WholeStream
<1>4. <<>> \in Seq(Atoms)
  BY SmallTexts
<1>5. 0 \in 0..Len(sent) /\ UpTo(Frames, 0) = <<>> /\ UpTo(Meanings(sent), 0) = <<>>
  BY <1>3, UpToNone
<1>6. Stops(Atoms, Frames, Len(sent), <<>>, 0, <<>>)
  <2>1. <<>> = UpTo(Frames, 0) \o <<>>
    BY <1>4, <1>5, ConcatEmptySeq
  <2>2. ASSUME 0 < Len(sent)
        PROVE  \E r \in Seq(Atoms) : r # <<>> /\ Frames[0 + 1] = <<>> \o r
    <3>1. 1 \in DOMAIN sent /\ sent[1] \in Events /\ 0 + 1 = 1
      BY <1>1, <2>2
    <3> DEFINE r == Encoded(sent[1])
    <3>2. r \in Seq(Atoms) /\ r # <<>>
      BY <3>1, WholeFrame
    <3>3. Frames[0 + 1] = r
      BY <3>1 DEF Frames
    <3> HIDE DEF r
    <3>4. <<>> \o r = r
      BY <3>2, ConcatEmptySeq
    <3> QED
      BY <3>2, <3>3, <3>4
  <2> QED
    BY <2>1, <2>2 DEF Stops
<1>7. Arrived(<<>>, 0, <<>>)
  <2>1. Concat(Frames) = <<>> \o unread
    BY <1>2, ConcatEmptySeq
  <2>2. buffer = LfOnly(<<>>) /\ shown = UpTo(Meanings(sent), 0)
    BY <1>5, LfOnlyNone DEF Init
  <2> QED
    BY <1>6, <2>1, <2>2 DEF Arrived
<1> QED
  BY <1>1, <1>2, <1>4, <1>5, <1>7 DEF StreamInv

LEMMA StreamGoesOn == StreamInv /\ [Next]_vars => StreamInv'
<1> SUFFICES ASSUME StreamInv, [Next]_vars PROVE StreamInv'
  OBVIOUS
<1>1. CASE Break \/ UNCHANGED vars
  <2>1. sent' = sent /\ unread' = unread /\ buffer' = buffer /\ shown' = shown
    BY <1>1 DEF Break, vars
  <2>2. Frames' = Frames
    BY <2>1 DEF Frames
  <2>3. \A y, k, p : Arrived(y, k, p) => Arrived(y, k, p)'
    BY <2>1, <2>2 DEF Arrived
  <2> QED
    BY <2>1, <2>3 DEF StreamInv
<1>2. CASE Push
  <2>1. PICK y \in Seq(Atoms), k \in 0..Len(sent), p \in Seq(Atoms) : Arrived(y, k, p)
    BY DEF StreamInv
  <2>2. sent \in Seq(Events) /\ unread \in Seq(Atoms) /\ sent' = sent
    BY <1>2 DEF StreamInv, Push
  <2>3. PICK x \in Seq(Atoms), u \in Seq(Atoms) : push(x) /\ unread' = u /\ unread = x \o u
    <3>1. PICK n \in DOMAIN unread : /\ push(SubSeq(unread, 1, n))
                                     /\ unread' = SubSeq(unread, n + 1, Len(unread))
      BY <1>2 DEF Push
    <3> DEFINE s == SubSeq(unread, 1, n)
               t == SubSeq(unread, n + 1, Len(unread))
    <3>2. s \in Seq(Atoms) /\ t \in Seq(Atoms) /\ unread = s \o t
      BY <2>2, TwoPieces
    <3>3. push(s) /\ unread' = t
      BY <3>1
    <3> HIDE DEF s, t
    <3> QED
      BY <3>2, <3>3
  <2> DEFINE N == Len(sent)
  <2>4. x \in Seq(Atoms) /\ u \in Seq(Atoms) /\ unread = x \o u
    BY <2>3
  <2>5. Frames = Wires(sent) /\ Concat(Frames) = UpTo(Frames, N) /\ Frames' = Frames
    <3>1. Frames' = Frames
      BY <2>2 DEF Frames
    <3> QED
      BY <2>2, <3>1, WholeStream
  <2>6. push(x) /\ unread' = u
    BY <2>3
  <2>7. /\ Stops(Atoms, Wires(sent), N, y, k, p)
        /\ UpTo(Wires(sent), N) = y \o (x \o u)
        /\ buffer = LfOnly(p) /\ shown = UpTo(Meanings(sent), k)
    BY <2>1, <2>4, <2>5 DEF Arrived
  <2>8. PICK m \in 0..(N - k), q \in Seq(Atoms) :
          /\ Stops(Atoms, Wires(sent), N, y \o x, k + m, q)
          /\ StopsThen(sent, y, k, p, x, m, q)
    <3>1. PICK m \in 0..(N - k), q \in Seq(Atoms) : StopsThen(sent, y, k, p, x, m, q)
      <4>1. UpTo(Wires(sent), Len(sent)) = y \o (x \o u)
        BY <2>7
      <4>2. Stops(Atoms, Wires(sent), Len(sent), y, k, p)
        BY <2>7
      <4> QED
        BY <2>2, <4>1, <4>2, NextStop
    <3> QED
      BY <3>1 DEF StopsThen
  <2>9. k + m \in 0..N
    BY <2>2
  <2>10. Tidy(LfOnly(p)) /\ Tidy(LfOnly(q))
    BY <2>2, <2>7, <2>8, <2>9, StopsTidy
  <2> DEFINE c == Bodies(From(sent, k, m), m)
  <2>11. Split(Received(x), Gap) = [complete |-> c, rest |-> LfOnly(q)]
    <3>1. StopsThen(sent, y, k, p, x, m, q)
      BY <2>8
    <3>2. /\ sent \in Seq(Events) /\ m \in 0..(Len(sent) - k)
          /\ Tidy(LfOnly(p)) /\ Tidy(LfOnly(q))
      BY <2>2, <2>10
    <3>3. Split(LfOnly(LfOnly(p) \o x), Gap) = [complete |-> c, rest |-> LfOnly(q)]
      BY <3>1, <3>2, ChunkSplits
    <3> QED
      BY <2>7, <3>3 DEF Received
  <2>12. buffer' = LfOnly(q) /\ shown' = shown \o Concat([i \in DOMAIN c |-> EventOf(c[i])])
    <3> HIDE DEF c
    <3> QED
      BY <2>6, <2>11 DEF push, Gap
  <2>13. shown' = UpTo(Meanings(sent), k + m)
    <3>1. UpTo(Meanings(sent), k) \o Concat([i \in DOMAIN c |-> EventOf(c[i])]) = UpTo(Meanings(sent), k + m)
      BY <2>2, ChunkShown
    <3> HIDE DEF c
    <3> QED
      BY <2>7, <2>12, <3>1
  <2>14. (y \o x) \o u = y \o (x \o u) /\ y \o x \in Seq(Atoms)
    <3> HIDE DEF c
    <3>1. SameText(y, x, u)
      BY Together
    <3>2. y \o x \in Seq(Atoms)
      BY ConcatProperties
    <3> QED
      BY <3>1, <3>2 DEF SameText
  <2>15. Arrived(y \o x, k + m, q)'
    <3>1. Concat(Frames) = (y \o x) \o u
      BY <2>5, <2>7, <2>14
    <3>2. Stops(Atoms, Frames, N, y \o x, k + m, q)
      BY <2>5, <2>8
    <3> QED
      BY <2>2, <2>5, <2>6, <2>12, <2>13, <3>1, <3>2 DEF Arrived
  <2> QED
    BY <2>2, <2>4, <2>6, <2>9, <2>14, <2>15 DEF StreamInv
<1> QED
  BY <1>1, <1>2 DEF Next

LEMMA StreamMeans == StreamInv => EventsOut
<1> SUFFICES ASSUME StreamInv PROVE EventsOut
  OBVIOUS
<1>1. sent \in Seq(Events) /\ unread \in Seq(Atoms)
  BY DEF StreamInv
<1>2. PICK y \in Seq(Atoms), k \in 0..Len(sent), p \in Seq(Atoms) : Arrived(y, k, p)
  BY DEF StreamInv
<1> DEFINE N == Len(sent)
           a == UpTo(Frames, k)
           all == Concat(Frames)
<1>3. /\ TextsOver(Atoms, Frames, N) /\ all = y \o unread /\ N \in Nat /\ k \in Nat /\ k <= N
  <2>1. N \in Nat /\ N <= N
    BY <1>1
  <2>2. TextsOver(Atoms, Wires(sent), N)
    BY <1>1, <2>1, WiresAreTexts
  <2> QED
    BY <1>1, <1>2, <2>2, WholeStream DEF Arrived
<1>4. a \in Seq(Atoms)
  <2>1. TextsOver(Atoms, Frames, k)
    BY <1>3 DEF TextsOver
  <2> QED
    BY <1>3, <2>1, UpToType
<1>5. Stops(Atoms, Frames, N, y, k, p) /\ shown = UpTo(Meanings(sent), k)
  BY <1>2 DEF Arrived
<1>6. y = a \o p
  BY <1>5 DEF Stops
<1>7. Len(all) - Len(unread) = Len(y)
  <2> HIDE DEF all
  <2> QED
    BY <1>1, <1>3
<1>8. Len(y) = Len(a) + Len(p) /\ Len(a) \in Nat /\ Len(p) \in Nat
  <2> HIDE DEF a
  <2> QED
    BY <1>4, <1>6
<1>9. ASSUME k < N
      PROVE  Len(y) < Len(UpTo(Frames, k + 1))
  <2>1. PICK r \in Seq(Atoms) : r # <<>> /\ Frames[k + 1] = p \o r
    BY <1>5, <1>9 DEF Stops
  <2>2. TextsOver(Atoms, Frames, k + 1)
    BY <1>3, <1>9 DEF TextsOver
  <2>3. UpTo(Frames, k + 1) = a \o (p \o r)
    BY <1>3, <2>1, <2>2, UpToSteps
  <2> HIDE DEF a
  <2>4. Len(a \o (p \o r)) = Len(a) + (Len(p) + Len(r)) /\ Len(r) \in Nat /\ Len(r) # 0
    <3> DEFINE w == p \o r
    <3>1. w \in Seq(Atoms) /\ Len(w) = Len(p) + Len(r) /\ Len(r) \in Nat /\ Len(r) # 0
      BY <2>1
    <3> HIDE DEF w
    <3>2. a \in Seq(Atoms) /\ w \in Seq(Atoms)
      BY <1>4, <3>1
    <3>3. Len(a \o w) = Len(a) + Len(w)
      BY <3>2, ConcatProperties
    <3> QED
      BY <3>1, <3>3 DEF w
  <2> QED
    BY <1>8, <2>3, <2>4
<1>10. Meanings(sent) = [i \in DOMAIN sent |-> Meant(sent[i])]
  BY DEF Meanings
<1> HIDE DEF all, a
<1> QED
  BY <1>3, <1>5, <1>7, <1>8, <1>9, <1>10 DEF EventsOut, all, a

\* However the network cuts the stream, the page is given exactly the events whose
\* frame has arrived to its end, each as the server meant it (push of sse.ts).
THEOREM StreamUnderstood == Spec => []EventsOut
<1>1. Init => StreamInv
  BY StreamStarts
<1>2. StreamInv /\ [Next]_vars => StreamInv'
  BY StreamGoesOn
<1>3. StreamInv => EventsOut
  BY StreamMeans
<1> QED
  BY <1>1, <1>2, <1>3, PTL DEF Spec
===============================================================================
