---------------------------- MODULE DocsIndexProofs ----------------------------
(***************************************************************************)
(* A rebuilt docs index is whole, and a search beside its rebuild finds    *)
(* nothing wrong: for any corpora, any batch size, any number of builds,   *)
(* rate limits and failures.                                               *)
(***************************************************************************)
EXTENDS DocsIndex, SequenceTheorems, TLAPS

Chunks == UNION {Range(c) : c \in Corpora}

Places == {"unused", "delete", "create", "fill", "open", "add",
           "returned", "raised", "died"}

IndexTypeOK ==
  /\ points = NoIndex \/ points \in Seq(Chunks)
  /\ at \in [Builds -> Places]
  /\ corpus \in [Builds -> Corpora \cup {<<>>}]
  /\ added \in [Builds -> Nat]
  /\ indexing \in Seq(Builds)
  /\ overlapped \subseteq Builds

\* A build enters indexing when it leaves "unused" with something to index.
Unstarted(b) == b \notin Range(indexing) /\ corpus[b] = <<>> /\ added[b] = 0

\* The first i chunks of a corpus, all of them from its length on.
Prefix(c, i) == SubSeq(c, 1, Min({i, Len(c)}))

\* What the collection is worth while and after build b had it for itself.
Progress(b) ==
  /\ at[b] # "unused" /\ corpus[b] # <<>>
  /\ at[b] \in {"delete", "create", "fill"} => added[b] = 0
  /\ at[b] = "fill" => points = <<>>
  /\ at[b] \in {"open", "add"} => added[b] > 0
  /\ at[b] = "add" => added[b] < Len(corpus[b])
  /\ at[b] = "returned" => added[b] >= Len(corpus[b]) /\ added[b] > 0
  /\ added[b] > 0 => points = Prefix(corpus[b], added[b])

\* An earlier collection lasts until the latest build deletes it.
OfOneCorpus ==
  points # NoIndex =>
    /\ IsInjective(points)
    /\ \E b \in Builds : Range(points) \subseteq Range(corpus[b])

IndexInv ==
  /\ IndexTypeOK
  /\ indexing = <<>> => points = NoIndex
  /\ \A b \in Builds : /\ at[b] = "unused" => Unstarted(b)
                       /\ Active(b) => b \in Range(indexing)
  /\ indexing # <<>> /\ Latest \notin overlapped =>
       /\ \A b \in Builds : Active(b) => b = Latest
       /\ Progress(Latest)
  /\ overlapped = {} => OfOneCorpus

-------------------------------------------------------------------------------
(***************************************************************************)
(* Batches are adjacent pieces of a corpus                                 *)
(***************************************************************************)
LEMMA MinOfTwo ==
  ASSUME NEW m \in Int, NEW n \in Int
  PROVE  Min({m, n}) = IF m <= n THEN m ELSE n
<1> DEFINE x == IF m <= n THEN m ELSE n
<1>1. x \in {m, n} /\ \A y \in {m, n} : x <= y
  OBVIOUS
<1>2. \A z \in {m, n} : (\A y \in {m, n} : z <= y) => z = x
  OBVIOUS
<1> HIDE DEF x
<1>3. (CHOOSE z \in {m, n} : \A y \in {m, n} : z =< y) = x
  BY <1>1, <1>2
<1> QED
  BY <1>3 DEF Min, x

LEMMA CorpusIsSeq ==
  ASSUME NEW c \in Corpora \cup {<<>>}
  PROVE  c \in Seq(Chunks) /\ Len(c) \in Nat /\ DOMAIN c = 1..Len(c) /\ IsInjective(c)
<1>1. CASE c = <<>>
  BY <1>1 DEF IsInjective
<1>2. CASE c \in Corpora
  <2>1. Range(c) \subseteq Chunks /\ c \in Seq(Range(c)) /\ IsInjective(c)
    BY <1>2, IndexAssumption DEF Chunks
  <2> QED
    BY <2>1, SeqMonotonic, LenProperties
<1> QED
  BY <1>1, <1>2

LEMMA PrefixFacts ==
  ASSUME NEW c \in Corpora \cup {<<>>}, NEW i \in Nat
  PROVE  /\ Prefix(c, i) \in Seq(Chunks)
         /\ IsInjective(Prefix(c, i))
         /\ Range(Prefix(c, i)) \subseteq Range(c)
         /\ i >= Len(c) => Prefix(c, i) = c
<1> DEFINE n == Min({i, Len(c)})
           p == SubSeq(c, 1, n)
<1>1. c \in Seq(Chunks) /\ Len(c) \in Nat /\ DOMAIN c = 1..Len(c) /\ IsInjective(c)
  BY CorpusIsSeq
<1>2. n \in 0..Len(c) /\ (i >= Len(c) => n = Len(c))
  BY <1>1, MinOfTwo
<1> HIDE DEF n
<1>a. n \in Nat /\ 1..n \subseteq DOMAIN c
  <2> DEFINE l == Len(c)
  <2>1. l \in Nat /\ n \in 0..l /\ DOMAIN c = 1..l
    BY <1>1, <1>2
  <2> HIDE DEF l
  <2>2. n \in Nat /\ 1..n \subseteq 1..l
    BY <2>1
  <2> QED
    BY <2>1, <2>2
<1>3. /\ p \in Seq(Chunks)
      /\ Len(p) = n
      /\ \A k \in 1..n : p[k] = c[k]
  <2>1. \A k \in 1..n : c[k] \in Chunks
    BY <1>1, <1>a, ElementOfSeq
  <2>2. /\ p \in Seq(Chunks)
        /\ Len(p) = IF 1 <= n THEN n - 1 + 1 ELSE 0
        /\ \A k \in 1..(n - 1 + 1) : p[k] = c[1 + k - 1]
    BY <1>2, <2>1, SubSeqProperties
  <2> QED
    BY <1>2, <2>2
<1>4. DOMAIN p = 1..n
  BY <1>3, LenProperties
<1> HIDE DEF p
<1>5. IsInjective(p)
  BY <1>1, <1>a, <1>3, <1>4, Zenon DEF IsInjective
<1>6. Range(p) \subseteq Range(c)
  BY <1>a, <1>3, <1>4, Zenon DEF Range
<1>7. i >= Len(c) => p = c
  BY <1>1, <1>2, SubSeqFull DEF p
<1> QED
  BY <1>3, <1>5, <1>6, <1>7 DEF Prefix, p, n

LEMMA NextBatch ==
  ASSUME NEW c \in Corpora \cup {<<>>}, NEW i \in Nat
  PROVE  /\ i <= Len(c) => Prefix(c, i) \o Batch(c, i) = Prefix(c, i + BATCH)
         /\ Prefix(c, 0) = <<>>
         /\ Batch(c, i) \in Seq(Chunks)
<1> DEFINE n == Min({i + BATCH, Len(c)})
<1>1. c \in Seq(Chunks) /\ Len(c) \in Nat /\ BATCH \in Nat \ {0}
  BY CorpusIsSeq, IndexAssumption
<1>2. /\ n \in 0..Len(c) /\ (i <= Len(c) => n \in i..Len(c) /\ Min({i, Len(c)}) = i)
      /\ Min({0, Len(c)}) = 0
  BY <1>1, MinOfTwo
<1> HIDE DEF n
<1>3. i <= Len(c) => SubSeq(c, 1, i) \o SubSeq(c, i + 1, n) = SubSeq(c, 1, n)
  <2>1. SUFFICES ASSUME i <= Len(c)
                 PROVE  SubSeq(c, 1, i) \o SubSeq(c, i + 1, n) = SubSeq(c, 1, n)
    OBVIOUS
  <2>2. 1 \in 1..(Len(c) + 1) /\ i \in (1 - 1)..Len(c) /\ n \in i..Len(c)
    BY <1>1, <1>2, <2>1
  <2> QED
    BY <1>1, <2>2, ConcatAdjacentSubSeq
<1>4. SubSeq(c, 1, 0) = <<>>
  BY SubSeqEmpty
<1>5. SubSeq(c, i + 1, n) \in Seq(Chunks)
  <2>1. \A k \in (i + 1)..n : c[k] \in Chunks
    BY <1>1, <1>2, ElementOfSeq
  <2> QED
    BY <1>2, <2>1, SubSeqProperties
<1> QED
  BY <1>2, <1>3, <1>4, <1>5 DEF Prefix, Batch, n

-------------------------------------------------------------------------------
(***************************************************************************)
(* The steps                                                               *)
(***************************************************************************)
Work(b) == Delete(b) \/ Create(b) \/ AddBatch(b) \/ Open(b) \/ RateLimitError(b) \/ Die(b)

LEMMA WorkShape ==
  ASSUME IndexTypeOK, NEW b \in Builds, Work(b)
  PROVE  /\ Active(b)
         /\ UNCHANGED <<corpus, indexing, overlapped>>
         /\ \E place \in Places \ {"unused"} : at' = [at EXCEPT ![b] = place]
         /\ \E n \in Nat : added' = [added EXCEPT ![b] = n]
         /\ \/ UNCHANGED points
            \/ points' = NoIndex
            \/ points' = <<>>
            \/ at[b] \in {"fill", "add"}
               /\ points' = points \o Batch(corpus[b], added[b]) /\ points # NoIndex
<1>1. added \in [Builds -> Nat] /\ at \in [Builds -> Places] /\ added[b] \in Nat /\ BATCH \in Nat
  BY IndexAssumption DEF IndexTypeOK
<1>2. added = [added EXCEPT ![b] = added[b]]
  BY <1>1
<1>3. CASE Delete(b)
  BY <1>1, <1>2, <1>3 DEF Delete, Goto, Active, Places
<1>4. CASE Create(b)
  BY <1>1, <1>2, <1>4 DEF Create, Goto, Active, Places
<1>5. CASE AddBatch(b)
  <2>1. AfterBatch(b, added[b] + BATCH) \in {"add", "returned"}
    BY DEF AfterBatch
  <2>2. added[b] + BATCH \in Nat
    BY <1>1
  <2> QED
    BY <1>1, <1>2, <1>5, <2>1, <2>2 DEF AddBatch, Goto, Active, Places
<1>6. CASE Open(b)
  <2>1. AfterBatch(b, added[b]) \in {"add", "returned"}
    BY DEF AfterBatch
  <2> QED
    BY <1>1, <1>2, <1>6, <2>1 DEF Open, Goto, Active, Places
<1>7. CASE RateLimitError(b)
  <2>1. Active(b) /\ Retried(at[b]) \in {"delete", "raised", "add"}
    BY <1>7 DEF RateLimitError, Active, Retried
  <2> QED
    BY <1>1, <1>2, <1>7, <2>1 DEF RateLimitError, Goto, Places
<1>8. CASE Die(b)
  BY <1>1, <1>2, <1>8 DEF Die, Goto, Places
<1> QED
  BY <1>3, <1>4, <1>5, <1>6, <1>7, <1>8 DEF Work

LEMMA TypeStep ==
  ASSUME IndexTypeOK, [Next]_vars
  PROVE  IndexTypeOK'
<1>1. ASSUME NEW b \in Builds, load_corpus_raises(b)
      PROVE  IndexTypeOK'
  BY <1>1 DEF load_corpus_raises, Goto, IndexTypeOK, Places
<1>2. ASSUME NEW b \in Builds, build_index(b)
      PROVE  IndexTypeOK'
  <2>1. PICK c \in Corpora :
          IF c = <<>> THEN Goto(b, "returned") /\ UNCHANGED <<corpus, indexing, overlapped>>
          ELSE LET others == {o \in Builds : Active(o)}
               IN /\ corpus' = [corpus EXCEPT ![b] = c]
                  /\ Goto(b, "delete")
                  /\ indexing' = Append(indexing, b)
                  /\ overlapped' = IF others = {} THEN overlapped
                                   ELSE overlapped \cup others \cup {b}
    BY <1>2 DEF build_index
  <2>2. UNCHANGED <<points, added>>
    BY <1>2 DEF build_index
  <2>3. /\ at' \in [Builds -> Places]
        /\ corpus' \in [Builds -> Corpora \cup {<<>>}]
        /\ overlapped' \subseteq Builds
    BY <2>1 DEF IndexTypeOK, Goto, Places
  <2>4. indexing' \in Seq(Builds)
    <3>1. indexing \in Seq(Builds) /\ (indexing' = indexing \/ indexing' = Append(indexing, b))
      BY <2>1 DEF IndexTypeOK
    <3> QED
      BY <3>1, AppendProperties
  <2> QED
    BY <2>2, <2>3, <2>4 DEF IndexTypeOK
<1>3. ASSUME NEW b \in Builds, Work(b)
      PROVE  IndexTypeOK'
  <2>1. corpus[b] \in Corpora \cup {<<>>} /\ added[b] \in Nat
    BY DEF IndexTypeOK
  <2>2. PICK place \in Places : at' = [at EXCEPT ![b] = place]
    BY <1>3, WorkShape
  <2>3. PICK n \in Nat : added' = [added EXCEPT ![b] = n]
    BY <1>3, WorkShape
  <2>4. Batch(corpus[b], added[b]) \in Seq(Chunks)
    BY <2>1, NextBatch
  <2>5. points' = NoIndex \/ points' \in Seq(Chunks)
    <3>1. ASSUME points # NoIndex, points' = points \o Batch(corpus[b], added[b])
          PROVE  points' \in Seq(Chunks)
      BY <2>4, <3>1, ConcatProperties DEF IndexTypeOK
    <3>2. <<>> \in Seq(Chunks)
      OBVIOUS
    <3> QED
      BY <1>3, <3>1, <3>2, WorkShape DEF IndexTypeOK
  <2> QED
    BY <1>3, <2>2, <2>3, <2>5, WorkShape DEF IndexTypeOK
<1>4. CASE UNCHANGED vars
  BY <1>4 DEF vars, IndexTypeOK
<1> QED
  BY <1>1, <1>2, <1>3, <1>4 DEF Next, Work
\* The one build at work adds its next batch, or starts over with nothing added.
LEMMA ProgressStep ==
  ASSUME IndexTypeOK, NEW b \in Builds, Progress(b), Work(b)
  PROVE  /\ Progress(b)'
         /\ points' = points \/ points' = NoIndex \/ points' = <<>>
            \/ points' = Prefix(corpus[b], added'[b])
<1> DEFINE c == corpus[b]
           i == added[b]
<1>1. /\ c \in Corpora \cup {<<>>} /\ i \in Nat /\ BATCH \in Nat \ {0} /\ Len(c) \in Nat
      /\ at \in [Builds -> Places] /\ added \in [Builds -> Nat]
  BY CorpusIsSeq, IndexAssumption DEF IndexTypeOK
<1>2. UNCHANGED corpus
  BY WorkShape
<1>3. CASE Delete(b)
  BY <1>1, <1>2, <1>3 DEF Delete, Goto, Progress
<1>4. CASE Create(b)
  BY <1>1, <1>2, <1>4 DEF Create, Goto, Progress
<1>5. CASE AddBatch(b)
  <2>1. CASE points = NoIndex
    BY <1>1, <1>2, <1>5, <2>1 DEF AddBatch, Goto, Progress
  <2>2. CASE points # NoIndex
    <3>1. /\ at[b] \in {"fill", "add"}
          /\ points' = points \o Batch(c, i)
          /\ added'[b] = i + BATCH
          /\ at'[b] = IF at[b] = "fill" THEN "open" ELSE AfterBatch(b, i + BATCH)
      BY <1>1, <1>5, <2>2 DEF AddBatch, Goto
    <3>2. points = Prefix(c, i) /\ i <= Len(c)
      <4>1. CASE at[b] = "fill"
        BY <1>1, <4>1, NextBatch DEF Progress
      <4>2. CASE at[b] = "add"
        <5>1. i < Len(c)
          BY <4>2 DEF Progress
        <5> QED
          BY <1>1, <4>2, <5>1 DEF Progress
      <4> QED
        BY <3>1, <4>1, <4>2
    <3>3. points' = Prefix(c, i + BATCH)
      BY <1>1, <3>1, <3>2, NextBatch
    <3>4. at'[b] \in {"open", "add", "returned"}
      BY <3>1 DEF AfterBatch
    <3>5. /\ at'[b] = "returned" => i + BATCH >= Len(c)
          /\ at'[b] = "add" => i + BATCH < Len(c)
      BY <1>1, <3>1 DEF AfterBatch
    <3> QED
      BY <1>1, <1>2, <3>1, <3>3, <3>4, <3>5 DEF Progress
  <2> QED
    BY <2>1, <2>2
<1>6. CASE Open(b)
  <2>1. UNCHANGED <<points, added>>
    BY <1>6 DEF Open
  <2>2. at'[b] \in {"raised", "add", "returned"} /\ (at'[b] = "returned" => i >= Len(c))
      /\ (at'[b] = "add" => i < Len(c))
    BY <1>1, <1>6 DEF Open, Goto, AfterBatch
  <2>3. i > 0
    BY <1>6 DEF Open, Progress
  <2> QED
    BY <1>1, <1>2, <2>1, <2>2, <2>3 DEF Progress
<1>7. CASE RateLimitError(b)
  BY <1>1, <1>2, <1>7 DEF RateLimitError, Retried, Active, Goto, Progress
<1>8. CASE Die(b)
  BY <1>1, <1>2, <1>8 DEF Die, Active, Goto, Progress
<1> QED
  BY <1>3, <1>4, <1>5, <1>6, <1>7, <1>8 DEF Work
-------------------------------------------------------------------------------
(***************************************************************************)
(* The invariant                                                           *)
(***************************************************************************)
LEMMA LatestIn ==
  ASSUME IndexTypeOK, indexing # <<>>
  PROVE  Latest \in Builds /\ Latest \in Range(indexing)
<1>1. indexing \in Seq(Builds) /\ Len(indexing) \in Nat \ {0}
  BY EmptySeq DEF IndexTypeOK
<1>2. Len(indexing) \in 1..Len(indexing) /\ DOMAIN indexing = 1..Len(indexing)
  BY <1>1
<1> QED
  BY <1>1, <1>2, ElementOfSeq DEF Latest, Last, Range

LEMMA WorkStep ==
  ASSUME IndexInv, NEW b \in Builds, Work(b)
  PROVE  IndexInv'
<1>1. Active(b) /\ UNCHANGED <<corpus, indexing, overlapped>>
  BY WorkShape DEF IndexInv
<1>2. PICK place \in Places \ {"unused"} : at' = [at EXCEPT ![b] = place]
  BY WorkShape DEF IndexInv
<1>3. PICK n \in Nat : added' = [added EXCEPT ![b] = n]
  BY WorkShape DEF IndexInv
<1>4. /\ at \in [Builds -> Places] /\ added \in [Builds -> Nat] /\ IndexTypeOK
      /\ b \in Range(indexing) /\ UNCHANGED Latest
  BY <1>1 DEF IndexInv, IndexTypeOK, Latest
<1>5. IndexTypeOK'
  BY TypeStep DEF IndexInv, Next, Work
<1>6. indexing # <<>>
  BY <1>4 DEF Range
<1>7. \A o \in Builds : /\ at'[o] = "unused" => Unstarted(o)'
                        /\ Active(o)' => o \in Range(indexing')
  BY <1>1, <1>2, <1>3, <1>4 DEF IndexInv, Unstarted, Active
<1>8. ASSUME Latest \notin overlapped
      PROVE  b = Latest /\ Progress(b)
  BY <1>1, <1>6, <1>8 DEF IndexInv
<1>9. ASSUME Latest \notin overlapped
      PROVE  (\A o \in Builds : Active(o)' => o = Latest) /\ Progress(Latest)'
  <2>1. \A o \in Builds : Active(o)' => o = Latest
    BY <1>1, <1>2, <1>4, <1>6, <1>8, <1>9 DEF IndexInv, Active
  <2>2. Progress(b)'
    BY <1>4, <1>8, <1>9, ProgressStep
  <2> QED
    BY <1>4, <1>8, <1>9, <2>1, <2>2 DEF Progress
<1>10. ASSUME overlapped = {}
       PROVE  OfOneCorpus'
  <2>1. Progress(b) /\ OfOneCorpus
    BY <1>8, <1>10 DEF IndexInv
  <2>2. CASE points' = points
    BY <1>1, <2>1, <2>2 DEF OfOneCorpus
  <2>3. CASE points' = NoIndex
    BY <2>3 DEF OfOneCorpus
  <2>4. CASE points' = <<>>
    BY <2>4 DEF OfOneCorpus, IsInjective, Range
  <2>5. CASE points' = Prefix(corpus[b], added'[b])
    <3>1. corpus'[b] \in Corpora \cup {<<>>} /\ added'[b] \in Nat
      BY <1>5 DEF IndexTypeOK
    <3> QED
      BY <1>1, <2>5, <3>1, PrefixFacts DEF OfOneCorpus
  <2> QED
    BY <1>4, <2>1, <2>2, <2>3, <2>4, <2>5, ProgressStep
<1> QED
  BY <1>1, <1>4, <1>5, <1>6, <1>7, <1>9, <1>10 DEF IndexInv

LEMMA StartStep ==
  ASSUME IndexInv, NEW b \in Builds, build_index(b)
  PROVE  IndexInv'
<1>1. PICK c \in Corpora :
        IF c = <<>> THEN Goto(b, "returned") /\ UNCHANGED <<corpus, indexing, overlapped>>
        ELSE LET others == {o \in Builds : Active(o)}
             IN /\ corpus' = [corpus EXCEPT ![b] = c]
                /\ Goto(b, "delete")
                /\ indexing' = Append(indexing, b)
                /\ overlapped' = IF others = {} THEN overlapped
                                 ELSE overlapped \cup others \cup {b}
  BY DEF build_index
<1>2. /\ at[b] = "unused" /\ UNCHANGED <<points, added>>
      /\ IndexTypeOK /\ at \in [Builds -> Places] /\ indexing \in Seq(Builds)
      /\ corpus \in [Builds -> Corpora \cup {<<>>}] /\ Unstarted(b) /\ ~Active(b)
  BY DEF build_index, IndexInv, IndexTypeOK, Active
<1>3. IndexTypeOK'
  BY <1>2, TypeStep DEF Next
<1>4. OfOneCorpus => OfOneCorpus'
  <2>1. \A o \in Builds : corpus'[o] = corpus[o] \/ corpus[o] = <<>>
    BY <1>1, <1>2 DEF Unstarted
  <2>2. Range(<<>>) = {}
    BY DEF Range
  <2>3. \A o \in Builds : Range(corpus[o]) \subseteq Range(corpus'[o])
    BY <2>1, <2>2
  <2> QED
    BY <1>2, <2>3 DEF OfOneCorpus
<1>5. CASE c = <<>>
  <2>1. at' = [at EXCEPT ![b] = "returned"] /\ UNCHANGED <<corpus, indexing, overlapped>>
    BY <1>1, <1>5 DEF Goto
  <2>2. \A o \in Builds : /\ at'[o] = "unused" => at[o] = "unused"
                          /\ Active(o)' <=> Active(o)
    BY <1>2, <2>1 DEF Active
  <2>3. UNCHANGED Latest /\ (indexing # <<>> => Latest # b /\ Latest \in Builds)
    BY <1>2, <2>1, LatestIn DEF Latest, Unstarted
  <2>4. ASSUME indexing # <<>>, Progress(Latest)
        PROVE  Progress(Latest)'
    BY <1>2, <2>1, <2>3, <2>4 DEF Progress
  <2> QED
    BY <1>2, <1>3, <1>4, <2>1, <2>2, <2>3, <2>4 DEF IndexInv, Unstarted
<1>6. CASE c # <<>>
  <2> DEFINE others == {o \in Builds : Active(o)}
  <2>1. /\ corpus' = [corpus EXCEPT ![b] = c] /\ at' = [at EXCEPT ![b] = "delete"]
        /\ indexing' = Append(indexing, b)
        /\ overlapped' = IF others = {} THEN overlapped ELSE overlapped \cup others \cup {b}
    BY <1>1, <1>6 DEF Goto
  <2>2. indexing' # <<>> /\ Latest' = b /\ Range(indexing') = Range(indexing) \cup {b}
    <3>1. /\ indexing' \in Seq(Builds) /\ Len(indexing') = Len(indexing) + 1
          /\ \A k \in 1..Len(indexing) : indexing'[k] = indexing[k]
          /\ indexing'[Len(indexing) + 1] = b /\ indexing' # <<>>
      BY <1>2, <2>1, AppendProperties
    <3>2. Len(indexing) \in Nat
      BY <1>2
    <3>3. Range(indexing') = {indexing'[k] : k \in 1..(Len(indexing) + 1)}
          /\ Range(indexing) = {indexing[k] : k \in 1..Len(indexing)}
      BY <1>2, <3>1, RangeEquality
    <3>4. Latest' = b
      BY <3>1 DEF Latest, Last
    <3> QED
      BY <3>1, <3>2, <3>3, <3>4
  <2>3. \A o \in Builds : /\ at'[o] = "unused" => o # b /\ at[o] = "unused"
                          /\ Active(o)' => Active(o) \/ o = b
                          /\ o # b => corpus'[o] = corpus[o]
    BY <1>2, <2>1 DEF Active
  <2>4. \A o \in Builds : /\ at'[o] = "unused" => Unstarted(o)'
                          /\ Active(o)' => o \in Range(indexing')
    BY <1>2, <2>2, <2>3 DEF IndexInv, Unstarted
  <2>5. ASSUME Latest' \notin overlapped'
        PROVE  (\A o \in Builds : Active(o)' => o = b) /\ Progress(b)'
    <3>1. others = {}
      BY <2>1, <2>2, <2>5
    <3>2. added[b] = 0
      BY <1>2 DEF Unstarted
    <3> QED
      BY <1>2, <1>6, <2>1, <2>2, <2>3, <3>1, <3>2 DEF Progress
  <2>6. overlapped' = {} => overlapped = {}
    BY <2>1
  <2>7. Progress(b)' /\ Latest' = b => Progress(Latest)'
    BY DEF Progress
  <2> QED
    BY <1>3, <1>4, <2>2, <2>4, <2>5, <2>6, <2>7 DEF IndexInv
<1> QED
  BY <1>5, <1>6

LEMMA IndexInvStep == IndexInv /\ [Next]_vars => IndexInv'
<1> SUFFICES ASSUME IndexInv, [Next]_vars PROVE IndexInv'
  OBVIOUS
<1>1. ASSUME NEW b \in Builds, load_corpus_raises(b)
      PROVE  IndexInv'
  <2>1. /\ at[b] = "unused" /\ at' = [at EXCEPT ![b] = "raised"]
        /\ UNCHANGED <<points, corpus, added, indexing, overlapped>>
        /\ IndexTypeOK /\ at \in [Builds -> Places] /\ Unstarted(b)
    BY <1>1 DEF load_corpus_raises, Goto, IndexInv, IndexTypeOK
  <2>2. IndexTypeOK'
    BY <2>1, TypeStep
  <2>3. \A o \in Builds : /\ at'[o] = "unused" => at[o] = "unused"
                          /\ Active(o)' <=> Active(o)
    BY <2>1 DEF Active
  <2>4. UNCHANGED Latest /\ (indexing # <<>> => Latest # b /\ Latest \in Builds)
    BY <2>1, LatestIn DEF Latest, Unstarted
  <2>5. ASSUME indexing # <<>>, Progress(Latest)
        PROVE  Progress(Latest)'
    BY <2>1, <2>4, <2>5 DEF Progress
  <2>6. OfOneCorpus => OfOneCorpus'
    BY <2>1 DEF OfOneCorpus
  <2> QED
    BY <2>1, <2>2, <2>3, <2>4, <2>5, <2>6 DEF IndexInv, Unstarted
<1>2. CASE UNCHANGED vars
  <2>1. IndexTypeOK' /\ UNCHANGED <<points, at, corpus, added, indexing, overlapped>>
    BY <1>2, TypeStep DEF IndexInv, vars
  <2> QED
    BY <2>1 DEF IndexInv, Unstarted, Active, Latest, Progress, OfOneCorpus
<1> QED
  BY <1>1, <1>2, StartStep, WorkStep DEF Next, Work

LEMMA IndexInvInit == Init => IndexInv
<1> SUFFICES ASSUME Init PROVE IndexInv
  OBVIOUS
<1>1. Range(<<>>) = {}
  BY DEF Range
<1> QED
  BY <1>1 DEF Init, IndexInv, IndexTypeOK, Places, Unstarted, Active, OfOneCorpus
LEMMA IndexInvAlways == Spec => []IndexInv
BY IndexInvInit, IndexInvStep, PTL DEF Spec

LEMMA WholeWhenReturned == IndexInv => BuiltIsWhole
<1> SUFFICES ASSUME IndexInv, indexing # <<>>, Latest \notin overlapped,
                    at[Latest] = "returned"
             PROVE  points = corpus[Latest]
  BY DEF BuiltIsWhole
<1>1. IndexTypeOK /\ Progress(Latest) /\ Latest \in Builds
  BY LatestIn DEF IndexInv
<1>2. /\ corpus[Latest] \in Corpora \cup {<<>>} /\ added[Latest] \in Nat
      /\ added[Latest] >= Len(corpus[Latest]) /\ points = Prefix(corpus[Latest], added[Latest])
  BY <1>1 DEF IndexTypeOK, Progress
<1> QED
  BY <1>2, PrefixFacts

LEMMA HitsFromOneCorpus == IndexInv => HitsOfOneCorpus
<1> SUFFICES ASSUME IndexInv, overlapped = {}, NEW hits \in search_docs
             PROVE  /\ IsInjective(hits)
                    /\ \E b \in IF added[Latest] > 0 THEN {Latest} ELSE Builds :
                         Range(hits) \subseteq Range(corpus[b])
  BY DEF HitsOfOneCorpus
<1>1. points # NoIndex /\ \E nearest \in SUBSET DOMAIN points :
                            hits = [i \in nearest |-> points[i]]
  BY DEF search_docs, kSubset
<1>2. /\ IndexTypeOK /\ OfOneCorpus /\ indexing # <<>> /\ Latest \in Builds
      /\ Progress(Latest)
  BY <1>1, LatestIn DEF IndexInv
<1>3. IsInjective(hits) /\ Range(hits) \subseteq Range(points)
  BY <1>1, <1>2, Zenon DEF OfOneCorpus, IsInjective, Range
<1>4. CASE added[Latest] > 0
  <2>1. /\ corpus[Latest] \in Corpora \cup {<<>>} /\ added[Latest] \in Nat
        /\ points = Prefix(corpus[Latest], added[Latest])
    BY <1>2, <1>4 DEF IndexTypeOK, Progress
  <2>2. Range(points) \subseteq Range(corpus[Latest])
    BY <2>1, PrefixFacts
  <2> QED
    BY <1>3, <1>4, <2>2
<1>5. CASE ~(added[Latest] > 0)
  BY <1>1, <1>2, <1>3, <1>5 DEF OfOneCorpus
<1> QED
  BY <1>4, <1>5

\* build_index in rag/index.py: what it leaves is its corpus, each chunk once, for any
\* corpora, batch size and faults, if no other build ran beside it.
THEOREM RebuiltIsWhole == Spec => []BuiltIsWhole
BY IndexInvAlways, WholeWhenReturned, PTL

\* search_docs in rag/retriever.py: a search at any moment of any rebuild finds
\* distinct chunks of one corpus.
THEOREM HitsAreSound == Spec => []HitsOfOneCorpus
BY IndexInvAlways, HitsFromOneCorpus, PTL
===============================================================================
