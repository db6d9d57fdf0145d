--------------------------- MODULE AgentGraphProofs ---------------------------
(***************************************************************************)
(* Type correctness and the safety invariants of AgentGraph, for every     *)
(* number of threads, turns and clients and every bound.                   *)
(***************************************************************************)
EXTENDS AgentGraph, FiniteSetTheorems, WellFoundedInduction, TLAPS

-------------------------------------------------------------------------------
(***************************************************************************)
(* The node functions: each maps a well-typed state of a run to a          *)
(* well-typed state.                                                       *)
(***************************************************************************)
LEMMA IntakeType ==
  ASSUME NEW s \in State, s.user_request \in Runs, NEW a \in ScopeAnswers
  PROVE  intake(s, a) \in State
BY DEF intake, State, Tag, Tagged, Maybe

LEMMA ScopeNamespaceType ==
  ASSUME NEW s \in State
  PROVE  ScopeNamespace(s) \in Maybe(Namespaces)
BY AnswersAssumption DEF ScopeNamespace, State, Tagged, Maybe, Scope

LEMMA GatherType ==
  ASSUME NEW s \in State, s.user_request \in Runs, NEW res \in ToolResults
  PROVE  gather_context(s, res) \in State
<1> DEFINE record == [by |-> s.user_request, tool_name |-> INITIAL_SWEEP,
                      namespace |-> ScopeNamespace(s), namespace_filled |-> FALSE,
                      result |-> res, rationale |-> None]
<1>1. record \in ToolCallRecord
  BY ScopeNamespaceType DEF ToolCallRecord, Maybe
<1>2. Append(s.investigation_log, record) \in Seq(ToolCallRecord)
  BY <1>1 DEF State
<1>3. Tag(s.user_request, res) \in Maybe(Tagged(ToolResults))
  BY DEF Tag, Tagged, Maybe
<1> HIDE DEF record
<1>4. QED
  BY <1>2, <1>3 DEF gather_context, State, record

LEMMA PlanAtGuardType ==
  ASSUME NEW s \in State PROVE plan_at_guard(s) \in State
BY DEF plan_at_guard, State, Maybe

LEMMA PlanType ==
  ASSUME NEW s \in State, s.user_request \in Runs, NEW a \in PlanAnswers
  PROVE  plan(s, a) \in State
<1>1. a \in PlanAnswer
  BY AnswersAssumption
<1>2. Tag(s.user_request, a.text) \in Tagged(ReplyTexts)
  BY <1>1 DEF Tag, Tagged, PlanAnswer
<1> DEFINE pending == IF a.tool_calls = <<>> THEN None
                      ELSE Tag(s.user_request, Head(a.tool_calls))
           hypothesis == IF a.text = "" THEN s.hypothesis
                         ELSE Tag(s.user_request, a.text)
<1>3. pending \in Maybe(Tagged(ToolCall))
  <2>1. CASE a.tool_calls = <<>>
    BY <2>1 DEF Maybe
  <2>2. CASE a.tool_calls # <<>>
    <3>1. a.tool_calls \in Seq(ToolCall)
      BY <1>1 DEF PlanAnswer
    <3>2. Head(a.tool_calls) \in ToolCall
      BY <2>2, <3>1
    <3>3. QED
      BY <2>2, <3>2 DEF Maybe, Tag, Tagged
  <2>3. QED BY <2>1, <2>2
<1>4. hypothesis \in Maybe(Tagged(ReplyTexts))
  BY <1>2 DEF Maybe, State
<1>5. plan(s, a) = [s EXCEPT !.hypothesis = hypothesis, !.pending_tool_call = pending,
                             !.plan_rationale = Tag(s.user_request, a.text)]
  BY DEF plan
<1> HIDE DEF pending, hypothesis
<1>6. QED
  BY <1>2, <1>3, <1>4, <1>5 DEF State, Maybe

LEMMA ExecuteToolType ==
  ASSUME NEW s \in State, s.user_request \in Runs,
         s.pending_tool_call \in Tagged(ToolCall),
         NEW res \in ToolOutcomes(s.pending_tool_call.val)
  PROVE  execute_tool(s, res) \in State
<1> DEFINE call == s.pending_tool_call.val
           filled == FillsNamespace(s, call)
           record == [by |-> s.user_request, tool_name |-> call.name,
                      namespace |-> IF filled THEN ScopeNamespace(s) ELSE call.namespace,
                      namespace_filled |-> filled, result |-> res,
                      rationale |-> s.plan_rationale]
           log == Append(s.investigation_log, record)
           count == s.step_count + 1
<1>1. call \in ToolCall
  BY DEF Tagged
<1>2. filled \in BOOLEAN
  BY DEF FillsNamespace
<1>3. res \in ToolResults
  BY ToolsAssumption DEF ToolOutcomes
<1>4. record \in ToolCallRecord
  <2>1. (IF filled THEN ScopeNamespace(s) ELSE call.namespace) \in Maybe(Namespaces)
    BY <1>1, ScopeNamespaceType DEF ToolCall
  <2>2. call.name \in ToolNames \cup {INITIAL_SWEEP}
    BY <1>1 DEF ToolCall
  <2>3. s.plan_rationale \in Maybe(Tagged(ReplyTexts))
    BY DEF State
  <2> HIDE DEF call, filled
  <2>4. QED
    BY <1>2, <1>3, <2>1, <2>2, <2>3 DEF ToolCallRecord
<1>5. execute_tool(s, res) =
        [s EXCEPT !.investigation_log = log, !.pending_tool_call = None,
                  !.step_count = count]
  BY DEF execute_tool
<1> HIDE DEF record
<1>6. log \in Seq(ToolCallRecord) /\ count \in Nat
  BY <1>4 DEF State
<1> HIDE DEF log, count, call, filled
<1>7. QED
  BY <1>5, <1>6 DEF State, Maybe

LEMMA DiagnoseType ==
  ASSUME NEW s \in State, s.user_request \in Runs, NEW a \in DiagnosisAnswers
  PROVE  diagnose(s, a) \in State
BY DEF diagnose, State, Tag, Tagged, Maybe

LEMMA RecommendType ==
  ASSUME NEW s \in State, s.user_request \in Runs, NEW text \in ReplyTexts
  PROVE  recommend(s, text) \in State
BY DEF recommend, State, Tag, Tagged, Maybe

LEMMA AnswerFollowupType ==
  ASSUME NEW s \in State, s.user_request \in Runs, NEW text \in ReplyTexts
  PROVE  /\ answer_followup(s, text) \in State
         /\ answer_followup(s, text).followup_answer # None
<1> DEFINE used == {s.turns[i].user_request : i \in FollowupTurns(s.turns)}
           answer == [by |-> s.user_request, val |-> text, evidence |-> used]
<1>1. used \in SUBSET Runs
  <2>1. s.turns \in Seq(TurnRecord)
    BY DEF State
  <2>2. \A i \in DOMAIN s.turns : s.turns[i] \in TurnRecord
    BY <2>1
  <2>3. \A i \in FollowupTurns(s.turns) : s.turns[i].user_request \in Runs
    BY <2>2 DEF FollowupTurns, InvestigatedTurns, TurnRecord
  <2>4. QED BY <2>3
<1>2. answer \in FollowupAnswer
  BY <1>1 DEF FollowupAnswer
<1>3. answer_followup(s, text) = [s EXCEPT !.followup_answer = answer]
  BY DEF answer_followup
<1> HIDE DEF answer
<1>4. QED
  BY <1>2, <1>3, NoneAssumption DEF State, Maybe

-------------------------------------------------------------------------------
(***************************************************************************)
(* Grounding.  A finite set of positive numbers has an element of every    *)
(* rank, so DistinctPages chooses among existing positions.                *)
(***************************************************************************)
LEMMA LeastOf ==
  ASSUME NEW S \in SUBSET Nat, S # {}
  PROVE  \E m \in S : \A n \in S : m <= n
<1> DEFINE R == {ss \in Nat \X Nat : ss[1] < ss[2]}
<1>1. IsWellFoundedOn(R, Nat)
  BY NatLessThanWellFounded, Zenon DEF OpToRel
<1> HIDE DEF R
<1>2. \E m \in S : \A n \in S : <<n, m>> \notin R
  BY <1>1, WFMin
<1>3. PICK m \in S : \A n \in S : <<n, m>> \notin R
  BY <1>2
<1>4. \A n \in S : m <= n
  <2>1. TAKE n \in S
  <2>2. m \in Nat /\ n \in Nat
    OBVIOUS
  <2>3. <<n, m>> \in Nat \X Nat
    BY <2>2
  <2>4. ~(n < m)
    BY <1>3, <2>3 DEF R
  <2>5. QED
    BY <2>2, <2>4
<1>5. QED
  BY <1>4

LEMMA UptoStep ==
  ASSUME NEW S \in SUBSET Nat, NEW m \in Nat \ {0}
  PROVE  {j \in S : j <= m} =
           {j \in S : j <= m - 1} \cup (IF m \in S THEN {m} ELSE {})
<1>1. \A j \in S : j <= m <=> j <= m - 1 \/ j = m
  <2>1. \A j \in Nat : j <= m <=> j <= m - 1 \/ j = m
    OBVIOUS
  <2>2. QED BY <2>1
<1>2. QED
  BY <1>1

LEMMA UptoZero ==
  ASSUME NEW S \in SUBSET Nat, 0 \notin S
  PROVE  {j \in S : j <= 0} = {}
<1>1. \A j \in Nat : j <= 0 => j = 0
  OBVIOUS
<1>2. QED BY <1>1

LEMMA RankExists ==
  ASSUME NEW n \in Nat, NEW S \in SUBSET (1..n), NEW k \in 1..Cardinality(S)
  PROVE  \E i \in S : Cardinality({j \in S : j <= i}) = k
<1> DEFINE Upto(i) == {j \in S : j <= i}
           T == {i \in Nat : Cardinality(Upto(i)) >= k}
<1>0. \A j \in S : j \in Nat /\ 1 <= j /\ j <= n
  OBVIOUS
<1>1. IsFiniteSet(S) /\ Cardinality(S) \in Nat
  <2>1. IsFiniteSet(1..n)
    BY FS_Interval
  <2>2. IsFiniteSet(S)
    BY <2>1, FS_Subset
  <2>3. QED
    BY <2>2, FS_CardinalityType
<1>2. \A i \in Nat : IsFiniteSet(Upto(i)) /\ Cardinality(Upto(i)) \in Nat
  <2>1. TAKE i \in Nat
  <2>2. Upto(i) \in SUBSET S
    OBVIOUS
  <2>3. QED
    BY <1>1, <2>2, FS_Subset, FS_CardinalityType
<1>3. n \in T
  <2>1. Upto(n) = S
    BY <1>0
  <2>2. QED
    BY <1>1, <2>1
<1>4. PICK m \in T : \A i \in T : m <= i
  <2>1. T \in SUBSET Nat /\ T # {}
    BY <1>3
  <2>2. QED
    BY <2>1, LeastOf
<1>5. m # 0
  <2>1. Upto(0) = {}
    BY <1>0, UptoZero
  <2>2. Cardinality(Upto(0)) = 0
    BY <2>1, FS_EmptySet
  <2>3. QED
    BY <2>2
<1>6. m \in Nat /\ m - 1 \in Nat /\ m - 1 \notin T
  <2>1. m \in Nat
    OBVIOUS
  <2>2. m - 1 \in Nat /\ ~(m <= m - 1)
    BY <2>1, <1>5
  <2>3. QED
    BY <2>1, <2>2, <1>4
<1>7. Cardinality(Upto(m - 1)) < k
  <2>1. ~(Cardinality(Upto(m - 1)) >= k)
    BY <1>6
  <2>2. Cardinality(Upto(m - 1)) \in Nat
    BY <1>2, <1>6
  <2> HIDE DEF Upto
  <2>3. QED
    BY <2>1, <2>2
<1>8. m \in S
  <2>1. SUFFICES ASSUME m \notin S PROVE FALSE
    OBVIOUS
  <2>2. Upto(m) = Upto(m - 1)
    BY <2>1, <1>0, <1>5, <1>6, UptoStep
  <2>3. QED
    BY <2>2, <1>2, <1>4, <1>6, <1>7
<1>9. Cardinality(Upto(m)) = Cardinality(Upto(m - 1)) + 1
  <2>1. Upto(m) = Upto(m - 1) \cup {m}
    BY <1>8, <1>0, <1>5, <1>6, UptoStep
  <2>2. m \notin Upto(m - 1)
    BY <1>6
  <2>3. IsFiniteSet(Upto(m - 1))
    BY <1>2, <1>6
  <2> HIDE DEF Upto
  <2>4. QED
    BY <2>1, <2>2, <2>3, FS_AddElement
<1>10. Cardinality(Upto(m)) >= k
  BY <1>4
<1>11. Cardinality(Upto(m)) = k
  <2>1. Cardinality(Upto(m - 1)) \in Nat
    BY <1>2, <1>6
  <2> HIDE DEF Upto, T
  <2>2. QED
    BY <2>1, <1>7, <1>9, <1>10
<1>12. QED
  BY <1>8, <1>11

\* Counted from the top: the k largest of a finite set of positions are k of them
\* unless it has fewer, and every other position is below them.
LEMMA LargestOnes ==
  ASSUME NEW n \in Nat, NEW S \in SUBSET (1..n), S # {}, NEW k \in Nat \ {0}
  PROVE  LET L == {i \in S : Cardinality({j \in S : j > i}) < k}
         IN /\ L # {} /\ Cardinality(L) \in Nat /\ Cardinality(L) <= k
            /\ \A i \in S \ L : \A j \in L : i < j
            /\ S # L => Cardinality(L) = k
<1> DEFINE Above(i) == {j \in S : j > i}
           Upto(i) == {j \in S : j <= i}
           L == {i \in S : Cardinality(Above(i)) < k}
<1>0. \A j \in S : j \in Nat
  OBVIOUS
<1>1. IsFiniteSet(S) /\ Cardinality(S) \in Nat
  <2>1. IsFiniteSet(1..n)
    BY FS_Interval
  <2> QED
    BY <2>1, FS_Subset, FS_CardinalityType
<1>2. \A T \in SUBSET S : /\ IsFiniteSet(T) /\ Cardinality(T) \in Nat
                          /\ Cardinality(T) <= Cardinality(S)
  BY <1>1, FS_Subset, FS_CardinalityType
<1>3. \A i \in S : /\ Above(i) \in SUBSET S /\ Upto(i) \in SUBSET S
                   /\ i \in Upto(i)
                   /\ Cardinality(Above(i)) + Cardinality(Upto(i)) = Cardinality(S)
  <2>1. TAKE i \in S
  <2>1a. (\A j \in S : j > i <=> ~(j <= i)) /\ i <= i
    BY <1>0
  <2>2. Above(i) \cup Upto(i) = S /\ Above(i) \cap Upto(i) = {} /\ i \in Upto(i)
    BY <2>1a, Zenon
  <2>3. Above(i) \in SUBSET S /\ Upto(i) \in SUBSET S
    OBVIOUS
  <2> HIDE DEF Above, Upto
  <2>4. Cardinality(S) = Cardinality(Above(i)) + Cardinality(Upto(i))
                         - Cardinality({})
    BY <1>2, <2>2, <2>3, FS_Union
  <2>5. Cardinality({}) = 0
    BY FS_EmptySet
  <2> QED
    BY <1>2, <2>2, <2>3, <2>4, <2>5
<1>4. CASE Cardinality(S) <= k
  <2>1. \A i \in S : Cardinality(Above(i)) < k
    <3>1. TAKE i \in S
    <3>2. Cardinality(Upto(i)) # 0
      <4>1. Upto(i) # {} /\ IsFiniteSet(Upto(i))
        BY <1>2, <1>3
      <4> HIDE DEF Upto
      <4> QED
        BY <4>1, FS_EmptySet
    <3>3. /\ Cardinality(Above(i)) \in Nat /\ Cardinality(Upto(i)) \in Nat
          /\ Cardinality(Above(i)) + Cardinality(Upto(i)) = Cardinality(S)
      BY <1>2, <1>3
    <3> HIDE DEF Above, Upto
    <3> QED
      BY <1>1, <1>4, <3>2, <3>3
  <2>2. L = S
    BY <2>1
  <2> HIDE DEF L
  <2>3. L # {} /\ Cardinality(L) \in Nat /\ Cardinality(L) <= k /\ S = L
    BY <1>1, <1>4, <2>2
  <2> QED
    BY <2>3 DEF L
<1>5. CASE k < Cardinality(S)
  <2>1. Cardinality(S) - k \in 1..Cardinality(S)
    BY <1>1, <1>5
  <2>2. PICK m \in S : Cardinality(Upto(m)) = Cardinality(S) - k
    BY <2>1, RankExists
  <2>3. Cardinality(Above(m)) = k
    <3>1. /\ Cardinality(Above(m)) \in Nat
          /\ Cardinality(Above(m)) + Cardinality(Upto(m)) = Cardinality(S)
      BY <1>2, <1>3
    <3> HIDE DEF Above, Upto
    <3> QED
      BY <1>1, <2>2, <3>1
  <2>4. \A i \in S : i \in L <=> i > m
    <3>1. TAKE i \in S
    <3>2. CASE i > m
      <4>0. (\A j \in S : j > i => j > m) /\ ~(i > i)
        BY <1>0, <3>2
      <4>1. Above(i) \in SUBSET (Above(m) \ {i}) /\ i \in Above(m)
        BY <3>2, <4>0, Zenon
      <4>2. IsFiniteSet(Above(m)) /\ IsFiniteSet(Above(m) \ {i})
        BY <1>2, <1>3, FS_Subset
      <4> HIDE DEF Above, L
      <4>3. Cardinality(Above(m) \ {i}) = k - 1
        BY <2>3, <4>1, <4>2, FS_RemoveElement
      <4>4. Cardinality(Above(i)) <= k - 1 /\ Cardinality(Above(i)) \in Nat
        BY <4>1, <4>2, <4>3, FS_Subset, FS_CardinalityType
      <4>5. Cardinality(Above(i)) < k
        BY <4>4
      <4> QED
        BY <3>2, <4>5 DEF L
    <3>3. CASE i <= m
      <4>0. \A j \in S : j > m => j > i
        BY <1>0, <3>3
      <4>1. Above(m) \in SUBSET Above(i)
        BY <4>0, Zenon
      <4>2. IsFiniteSet(Above(i)) /\ Cardinality(Above(i)) \in Nat
        BY <1>2, <1>3
      <4> HIDE DEF Above
      <4>3. k <= Cardinality(Above(i))
        BY <2>3, <4>1, <4>2, FS_Subset
      <4>4. ~(Cardinality(Above(i)) < k)
        BY <4>2, <4>3
      <4> QED
        BY <1>0, <3>3, <4>4
    <3> QED
      BY <1>0, <3>2, <3>3
  <2>5. L = Above(m)
    BY <2>4
  <2>6. Cardinality(L) = k
    BY <2>3, <2>5
  <2>7. \A i \in S \ L : \A j \in L : i < j
    <3>1. \A i \in S \ L : i <= m
      BY <1>0, <2>4
    <3>2. \A j \in L : m < j /\ j \in Nat
      BY <1>0, <2>4
    <3> HIDE DEF L
    <3> QED
      BY <1>0, <3>1, <3>2
  <2>8. L # {}
    <3> HIDE DEF L
    <3> QED
      BY <2>6, FS_EmptySet
  <2> HIDE DEF L
  <2>9. Cardinality(L) \in Nat /\ Cardinality(L) <= k
    BY <2>6
  <2> QED
    BY <2>6, <2>7, <2>8, <2>9 DEF L
<1> QED
  BY <1>1, <1>4, <1>5

\* What a follow-up draws on: the newest of the investigations there are.
LEMMA FollowupTurnsFacts ==
  ASSUME NEW turns \in Seq(TurnRecord), InvestigatedTurns(turns) # {}
  PROVE  LET used == FollowupTurns(turns)
         IN /\ used # {} /\ Cardinality(used) <= FOLLOWUP_TURNS
            /\ \A i \in InvestigatedTurns(turns) \ used : \A j \in used : i < j
            /\ InvestigatedTurns(turns) # used => Cardinality(used) = FOLLOWUP_TURNS
<1> DEFINE S == InvestigatedTurns(turns)
<1>1. S \in SUBSET (1..Len(turns)) /\ Len(turns) \in Nat
  BY DEF InvestigatedTurns
<1>2. FOLLOWUP_TURNS \in Nat \ {0}
  BY BoundsAssumption
<1>3. FollowupTurns(turns) = {i \in S : Cardinality({j \in S : j > i}) < FOLLOWUP_TURNS}
  BY DEF FollowupTurns
<1>4. S # {}
  OBVIOUS
<1> HIDE DEF S
<1>5. LET L == {i \in S : Cardinality({j \in S : j > i}) < FOLLOWUP_TURNS}
      IN /\ L # {} /\ Cardinality(L) \in Nat /\ Cardinality(L) <= FOLLOWUP_TURNS
         /\ \A i \in S \ L : \A j \in L : i < j
         /\ S # L => Cardinality(L) = FOLLOWUP_TURNS
  BY <1>1, <1>2, <1>4, LargestOnes
<1> QED
  BY <1>3, <1>5, Zenon DEF S

\* ground never cites a page twice and never more than GROUNDING_DOCS.
LEMMA DistinctPagesFacts ==
  ASSUME NEW chunks \in Seq(Maybe(Pages))
  PROVE  LET pages == DistinctPages(chunks)
         IN /\ pages \in Seq(Pages)
            /\ Len(pages) <= GROUNDING_DOCS
            /\ \A j, k \in DOMAIN pages : pages[j] = pages[k] => j = k
<1> DEFINE First == FirstOf(chunks)
           rank(i) == Cardinality({j \in First : j <= i})
           kth(k) == CHOOSE i \in First : rank(i) = k
           found == Cardinality(First)
           count == IF found < GROUNDING_DOCS THEN found ELSE GROUNDING_DOCS
<1>1. First \in SUBSET (1..Len(chunks)) /\ Len(chunks) \in Nat
  BY DEF FirstOf
<1>2. found \in Nat
  <2>1. IsFiniteSet(1..Len(chunks))
    BY <1>1, FS_Interval
  <2>2. IsFiniteSet(First)
    BY <1>1, <2>1, FS_Subset
  <2>3. QED
    BY <2>2, FS_CardinalityType
<1>3. count \in Nat /\ count <= GROUNDING_DOCS /\ count <= found
  BY <1>2, BoundsAssumption
<1>4. \A k \in 1..count : kth(k) \in First /\ rank(kth(k)) = k
  <2>1. TAKE k \in 1..count
  <2>2. k \in 1..found
    BY <1>2, <1>3
  <2>3. \E i \in First : rank(i) = k
    BY <1>1, <2>2, RankExists
  <2> HIDE DEF First, rank
  <2>4. QED
    BY <2>3
<1>5. DistinctPages(chunks) = [k \in 1..count |-> chunks[kth(k)]]
  BY DEF DistinctPages
<1> HIDE DEF rank, kth, count, found
<1>6. \A i \in First : chunks[i] \in Pages
  BY <1>1 DEF FirstOf, Maybe
<1>7. \A i, j \in First : chunks[i] = chunks[j] => i = j
  <2>1. SUFFICES ASSUME NEW i \in First, NEW j \in First, chunks[i] = chunks[j], i < j
                 PROVE FALSE
    BY <1>1
  <2>2. i \in 1..(j - 1)
    BY <1>1, <2>1
  <2>3. QED
    BY <2>1, <2>2 DEF FirstOf
<1> HIDE DEF First
<1>8. DistinctPages(chunks) \in Seq(Pages) /\ Len(DistinctPages(chunks)) = count
  BY <1>3, <1>4, <1>5, <1>6
<1>9. ASSUME NEW j \in 1..count, NEW k \in 1..count, chunks[kth(j)] = chunks[kth(k)]
      PROVE  j = k
  BY <1>4, <1>7, <1>9
<1>10. QED
  BY <1>3, <1>5, <1>8, <1>9

LEMMA GroundType ==
  ASSUME NEW s \in State, s.user_request \in Runs, NEW chunks \in Seq(Maybe(Pages))
  PROVE  ground(s, chunks) \in State
<1> DEFINE pages == DistinctPages(chunks)
           docs == [k \in 1..Len(pages) |-> Tag(s.user_request, pages[k])]
<1>1. pages \in Seq(Pages)
  BY DistinctPagesFacts
<1> HIDE DEF pages
<1>2. docs \in Seq(Tagged(Pages))
  BY <1>1 DEF Tag, Tagged
<1>3. ground(s, chunks) = [s EXCEPT !.reference_docs = docs]
  BY DEF ground, pages
<1> HIDE DEF docs
<1>4. QED
  BY <1>2, <1>3 DEF State

LEMMA GroundNothingType ==
  ASSUME NEW s \in State, s.user_request \in Runs
  PROVE  ground_without_search(s) \in State /\ ground_failed(s) \in State
<1>1. <<>> \in Seq(Tagged(Pages)) /\ s.user_request \in Maybe(Runs)
  BY DEF Maybe
<1>2. ground_without_search(s) \in State
  BY <1>1 DEF ground_without_search, State
<1>3. ground_failed(s) \in State
  BY <1>1 DEF ground_failed, State
<1>4. QED
  BY <1>2, <1>3

LEMMA ReplyTextType ==
  ASSUME NEW s \in State, s.user_request \in Runs
  PROVE  ReplyText(s) \in Tagged(ReplyTexts \cup {DEFAULT_CLARIFYING_QUESTION})
<1>1. CASE s.followup_answer # None
  BY <1>1 DEF ReplyText, State, Maybe, FollowupAnswer, Tag, Tagged
<1>2. CASE s.followup_answer = None /\ s.recommendation # None
  BY <1>2 DEF ReplyText, State, Maybe, Tagged
<1>3. CASE s.followup_answer = None /\ s.recommendation = None /\ HasQuestion(s)
  <2>1. s.scope \in Tagged(ScopeAnswers)
    BY <1>3 DEF HasQuestion, State, Maybe
  <2>2. s.scope.val \in Scope /\ s.scope.by \in Runs
    BY <2>1, AnswersAssumption DEF Tagged
  <2>3. s.scope.val.clarifying_question \in ReplyTexts
    BY <1>3, <2>2 DEF HasQuestion, Scope, Maybe
  <2>4. QED
    BY <1>3, <2>2, <2>3 DEF ReplyText, Tag, Tagged
<1>4. CASE s.followup_answer = None /\ s.recommendation = None /\ ~HasQuestion(s)
  BY <1>4 DEF ReplyText, Tag, Tagged
<1>5. QED
  BY <1>1, <1>2, <1>3, <1>4

LEMMA ArchivedType ==
  ASSUME NEW s \in State, s.user_request \in Runs
  PROVE  Archived(s) \in TurnRecord
<1>1. TurnRouteOf(s) \in TurnRoute
  BY DEF TurnRouteOf, TurnRoute
<1>2. QED
  BY <1>1, ReplyTextType DEF Archived, TurnRecord, State

LEMMA FinalizeType ==
  ASSUME NEW s \in State, s.user_request \in Runs
  PROVE  finalize(s) \in State
<1> DEFINE messages == s.messages \o Spoken(s.user_request)
           turns == Append(s.turns, Archived(s))
<1>1. Spoken(s.user_request) \in Seq(Message)
  BY DEF Spoken, Message
<1>2. messages \in Seq(Message)
  BY <1>1 DEF State
<1>3. turns \in Seq(TurnRecord)
  BY ArchivedType DEF State
<1>4. finalize(s) = [s EXCEPT !.messages = messages, !.turns = turns]
  BY DEF finalize
<1> HIDE DEF messages, turns
<1>5. QED
  BY <1>2, <1>3, <1>4 DEF State

LEMMA DefaultsType == Defaults \in State
<1>1. \A S : <<>> \in Seq(S)
  OBVIOUS
<1>2. QED
  BY <1>1 DEF Defaults, State, Maybe

LEMMA NewTurnType ==
  ASSUME NEW s \in State, NEW r \in Runs
  PROVE  NewTurn(s, r) \in State
<1>1. s.messages \in Seq(Message) /\ s.turns \in Seq(TurnRecord) /\ r \in Maybe(Runs)
  BY DEF State, Maybe
<1>2. QED
  BY <1>1, DefaultsType DEF NewTurn, State

-------------------------------------------------------------------------------
(***************************************************************************)
(* The graph                                                               *)
(***************************************************************************)
\* What a run's state looks like when node n is next, after k supersteps.
Own(s, x) == x # None => x.by = s.user_request

OwnFields(s) ==
  /\ Own(s, s.scope) /\ Own(s, s.diagnosis) /\ Own(s, s.recommendation)
  /\ Own(s, s.followup_answer) /\ Own(s, s.plan_rationale)
  /\ \A i \in DOMAIN s.investigation_log :
       /\ s.investigation_log[i].by = s.user_request
       /\ Own(s, s.investigation_log[i].rationale)
  /\ \A i \in DOMAIN s.reference_docs : s.reference_docs[i].by = s.user_request

Untouched(s) ==
  /\ s.investigation_log = <<>> /\ s.reference_docs = <<>>
  /\ s.diagnosis = None /\ s.recommendation = None
  /\ s.step_count = 0 /\ ~s.loop_guard_triggered

Investigating(s) ==
  /\ SweepThenTools(s.investigation_log)
  /\ Len(s.investigation_log) = s.step_count + 1
  /\ s.step_count <= LOOP_GUARD_MAX
  /\ s.followup_answer = None

BeforeDiagnosis(s) ==
  /\ Investigating(s) /\ s.diagnosis = None
  /\ s.recommendation = None /\ s.reference_docs = <<>>

AfterPlanning(s) ==
  /\ Investigating(s)
  /\ s.loop_guard_triggered <=> s.step_count = LOOP_GUARD_MAX

\* The nodes of a turn that uses all of the loop guard.
MostNodes == 2 * LOOP_GUARD_MAX + 7

Stage(n, s, k) ==
  /\ n = "intake" => Untouched(s) /\ s.followup_answer = None /\ k = 0
  /\ n = "gather_context" => Untouched(s) /\ s.followup_answer = None /\ k = 1
  /\ n = "answer_followup" => /\ Untouched(s) /\ s.followup_answer = None
                              /\ InvestigatedTurns(s.turns) # {} /\ k = 1
  /\ n = "plan" => /\ BeforeDiagnosis(s) /\ ~s.loop_guard_triggered
                   /\ k = 2 * s.step_count + 2
  /\ n = "execute_tool" => /\ BeforeDiagnosis(s) /\ ~s.loop_guard_triggered
                           /\ s.step_count < LOOP_GUARD_MAX
                           /\ s.pending_tool_call # None /\ s.plan_rationale # None
                           /\ k = 2 * s.step_count + 3
  /\ n = "diagnose" => /\ BeforeDiagnosis(s) /\ AfterPlanning(s)
                       /\ k = 2 * s.step_count + 3
  /\ n = "ground" => /\ AfterPlanning(s) /\ s.recommendation = None
                     /\ s.reference_docs = <<>>
                     /\ s.diagnosis # None /\ k = 2 * s.step_count + 4
  /\ n = "recommend" => /\ AfterPlanning(s) /\ s.diagnosis # None /\ Citable(s)
                        /\ k = 2 * s.step_count + 5
  /\ n = "finalize" =>
       \/ /\ AfterPlanning(s) /\ s.diagnosis # None /\ Citable(s)
          /\ s.recommendation # None /\ k = 2 * s.step_count + 6
       \/ /\ Untouched(s) /\ s.followup_answer # None
          /\ InvestigatedTurns(s.turns) # {} /\ k = 2
       \/ Untouched(s) /\ s.followup_answer = None /\ k = 1
  /\ n = "done" => k <= MostNodes

Kept(s) ==
  /\ OwnTurns(s.turns)
  /\ RoutesMatch(s.turns)
  /\ Paired(s.messages, s.turns)
  /\ \A i \in DOMAIN s.turns : Citable(s.turns[i])

\* The inductive invariant.
IInv ==
  /\ TypeOK
  /\ \A t \in Threads : Kept(saved[t])
  /\ \A r \in Runs : Kept(state[r])
  /\ \A r \in Runs : Active(r) => /\ state[r].user_request = r
                                  /\ thread[r] \in Threads
                                  /\ OwnFields(state[r])
                                  /\ Stage(node[r], state[r], supersteps[r])
  /\ \A r \in Runs : node[r] = "unused" => supersteps[r] = 0
  /\ \A r \in Runs : node[r] = "done" => supersteps[r] <= MostNodes

-------------------------------------------------------------------------------
\* The node a run goes to and the state it takes there, given where it is.
StepOK(n, s, k, s2) ==
  /\ s2 \in State
  /\ s2.user_request = s.user_request
  /\ Kept(s2)
  /\ Successor(n, s2) \in Nodes \cup {"done"}
  /\ OwnFields(s2)
  /\ Stage(Successor(n, s2), s2, k + 1)

LEMMA IntakeStep ==
  ASSUME NEW s \in State, s.user_request \in Runs, NEW k \in Nat,
         Kept(s), OwnFields(s), Stage("intake", s, k), NEW a \in ScopeAnswers
  PROVE  StepOK("intake", s, k, intake(s, a))
<1> DEFINE s2 == intake(s, a)
<1>1. s2 \in State
  BY IntakeType
<1>2. /\ s2.scope = Tag(s.user_request, a) /\ s2.user_request = s.user_request
      /\ s2.turns = s.turns /\ s2.messages = s.messages
      /\ s2.investigation_log = s.investigation_log /\ s2.diagnosis = s.diagnosis
      /\ s2.reference_docs = s.reference_docs /\ s2.recommendation = s.recommendation
      /\ s2.followup_answer = s.followup_answer /\ s2.step_count = s.step_count
      /\ s2.loop_guard_triggered = s.loop_guard_triggered
      /\ s2.pending_tool_call = s.pending_tool_call
      /\ s2.plan_rationale = s.plan_rationale
  BY DEF intake, State
<1> SUFFICES StepOK("intake", s, k, s2)
  OBVIOUS
<1> HIDE DEF s2
<1>3. Kept(s2)
  BY <1>2 DEF Kept
<1>4. OwnFields(s2)
  BY <1>2 DEF OwnFields, Own, Tag
<1>5. Untouched(s2) /\ s2.followup_answer = None /\ k = 0
  BY <1>2 DEF Stage, Untouched
<1>6. Successor("intake", s2) = route_after_intake(s2)
  BY DEF Successor
<1>7. CASE route_after_intake(s2) = "answer_followup"
  <2>1. InvestigatedTurns(s2.turns) # {}
    BY <1>7 DEF route_after_intake
  <2>2. Stage("answer_followup", s2, 1)
    BY <1>5, <2>1 DEF Stage
  <2>3. k + 1 = 1
    BY <1>5
  <2>4. QED
    BY <1>1, <1>2, <1>3, <1>4, <1>6, <1>7, <2>2, <2>3 DEF StepOK, Nodes, ModelNodes
<1>8. CASE route_after_intake(s2) \in {"finalize", "gather_context"}
  <2>1. Stage(route_after_intake(s2), s2, 1)
    BY <1>5, <1>8 DEF Stage
  <2>2. k + 1 = 1
    BY <1>5
  <2>3. QED
    BY <1>1, <1>2, <1>3, <1>4, <1>6, <1>8, <2>1, <2>2 DEF StepOK, Nodes
<1>9. QED
  BY <1>7, <1>8 DEF route_after_intake, s2

LEMMA GatherStep ==
  ASSUME NEW s \in State, s.user_request \in Runs, NEW k \in Nat,
         Kept(s), OwnFields(s), Stage("gather_context", s, k), NEW res \in ToolResults
  PROVE  StepOK("gather_context", s, k, gather_context(s, res))
<1> DEFINE s2 == gather_context(s, res)
           record == [by |-> s.user_request, tool_name |-> INITIAL_SWEEP,
                      namespace |-> ScopeNamespace(s), namespace_filled |-> FALSE,
                      result |-> res, rationale |-> None]
<1>0. Untouched(s) /\ s.followup_answer = None /\ k = 1
  BY DEF Stage
<1>1. s2 \in State
  BY GatherType
<1>2. /\ s2.investigation_log = Append(s.investigation_log, record)
      /\ s2.user_request = s.user_request
      /\ s2.turns = s.turns /\ s2.messages = s.messages
      /\ s2.scope = s.scope /\ s2.diagnosis = s.diagnosis
      /\ s2.reference_docs = s.reference_docs /\ s2.recommendation = s.recommendation
      /\ s2.followup_answer = s.followup_answer /\ s2.step_count = s.step_count
      /\ s2.loop_guard_triggered = s.loop_guard_triggered
      /\ s2.plan_rationale = s.plan_rationale
  BY DEF gather_context, State
<1>3. /\ record.by = s.user_request /\ record.rationale = None
      /\ record.tool_name = INITIAL_SWEEP
  OBVIOUS
<1> SUFFICES StepOK("gather_context", s, k, s2)
  OBVIOUS
<1> HIDE DEF s2, record
<1>4. s2.investigation_log = <<record>>
  BY <1>0, <1>2 DEF Untouched
<1>5. Kept(s2)
  BY <1>2 DEF Kept
<1>6. OwnFields(s2)
  BY <1>2, <1>3, <1>4 DEF OwnFields, Own
<1>7. SweepThenTools(s2.investigation_log) /\ Len(s2.investigation_log) = 1
  BY <1>3, <1>4, BoundsAssumption DEF SweepThenTools
<1>8. BeforeDiagnosis(s2) /\ ~s2.loop_guard_triggered /\ s2.step_count = 0
  BY <1>0, <1>2, <1>7, BoundsAssumption DEF BeforeDiagnosis, Investigating, Untouched
<1>9. Stage("plan", s2, k + 1)
  BY <1>0, <1>8 DEF Stage
<1>10. QED
  BY <1>1, <1>2, <1>5, <1>6, <1>9 DEF StepOK, Successor, Nodes, ModelNodes

LEMMA PlanAtGuardStep ==
  ASSUME NEW s \in State, s.user_request \in Runs, NEW k \in Nat,
         Kept(s), OwnFields(s), Stage("plan", s, k), AtLoopGuard(s)
  PROVE  StepOK("plan", s, k, plan_at_guard(s))
<1> DEFINE s2 == plan_at_guard(s)
<1>0. BeforeDiagnosis(s) /\ ~s.loop_guard_triggered /\ k = 2 * s.step_count + 2
  BY DEF Stage
<1>1. s2 \in State
  BY PlanAtGuardType
<1>2. /\ s2.loop_guard_triggered = TRUE /\ s2.pending_tool_call = None
      /\ s2.investigation_log = s.investigation_log
      /\ s2.user_request = s.user_request
      /\ s2.turns = s.turns /\ s2.messages = s.messages
      /\ s2.scope = s.scope /\ s2.diagnosis = s.diagnosis
      /\ s2.reference_docs = s.reference_docs /\ s2.recommendation = s.recommendation
      /\ s2.followup_answer = s.followup_answer /\ s2.step_count = s.step_count
      /\ s2.plan_rationale = s.plan_rationale
  BY DEF plan_at_guard, State
<1> SUFFICES StepOK("plan", s, k, s2)
  OBVIOUS
<1> HIDE DEF s2
<1>3. Kept(s2) /\ OwnFields(s2)
  BY <1>2 DEF Kept, OwnFields, Own
<1>4. BeforeDiagnosis(s2)
  BY <1>0, <1>2 DEF BeforeDiagnosis, Investigating
<1>5. s2.step_count = LOOP_GUARD_MAX
  BY <1>0, <1>2, BoundsAssumption DEF BeforeDiagnosis, Investigating, AtLoopGuard, State
<1>6. k + 1 = 2 * s2.step_count + 3
  BY <1>0, <1>1, <1>2 DEF State
<1>7. Stage("diagnose", s2, k + 1)
  BY <1>2, <1>4, <1>5, <1>6 DEF Stage, AfterPlanning, BeforeDiagnosis
<1>8. QED
  BY <1>1, <1>2, <1>3, <1>7 DEF StepOK, Successor, route_after_plan, Nodes, ModelNodes

LEMMA PlanStep ==
  ASSUME NEW s \in State, s.user_request \in Runs, NEW k \in Nat,
         Kept(s), OwnFields(s), Stage("plan", s, k), ~AtLoopGuard(s), NEW a \in PlanAnswers
  PROVE  StepOK("plan", s, k, plan(s, a))
<1> DEFINE s2 == plan(s, a)
<1>0. BeforeDiagnosis(s) /\ ~s.loop_guard_triggered /\ k = 2 * s.step_count + 2
  BY DEF Stage
<1>1. s2 \in State
  BY PlanType
<1>2. /\ s2.plan_rationale = Tag(s.user_request, a.text)
      /\ s2.loop_guard_triggered = s.loop_guard_triggered
      /\ s2.investigation_log = s.investigation_log
      /\ s2.user_request = s.user_request
      /\ s2.turns = s.turns /\ s2.messages = s.messages
      /\ s2.scope = s.scope /\ s2.diagnosis = s.diagnosis
      /\ s2.reference_docs = s.reference_docs /\ s2.recommendation = s.recommendation
      /\ s2.followup_answer = s.followup_answer /\ s2.step_count = s.step_count
  BY DEF plan, State
<1> SUFFICES StepOK("plan", s, k, s2)
  OBVIOUS
<1> HIDE DEF s2
<1>3. Kept(s2) /\ OwnFields(s2)
  BY <1>2 DEF Kept, OwnFields, Own, Tag
<1>4. BeforeDiagnosis(s2) /\ ~s2.loop_guard_triggered
  BY <1>0, <1>2 DEF BeforeDiagnosis, Investigating
<1>5. s2.step_count < LOOP_GUARD_MAX
  BY <1>0, <1>1, <1>2, BoundsAssumption DEF AtLoopGuard, State
<1>6. k + 1 = 2 * s2.step_count + 3
  BY <1>0, <1>1, <1>2 DEF State
<1>7. s2.plan_rationale # None
  <2>1. a.text \in ReplyTexts
    BY AnswersAssumption DEF PlanAnswer
  <2>2. Tag(s.user_request, a.text) \in Tagged(ReplyTexts)
    BY <2>1 DEF Tag, Tagged
  <2>3. QED
    BY <1>2, <2>2, NoneAssumption
<1>8. CASE s2.pending_tool_call = None
  <2>1. Successor("plan", s2) = "diagnose"
    BY <1>8 DEF Successor, route_after_plan
  <2>2. AfterPlanning(s2)
    BY <1>4, <1>5, <1>1, BoundsAssumption DEF AfterPlanning, BeforeDiagnosis, State
  <2>3. Stage("diagnose", s2, k + 1)
    BY <1>4, <1>6, <2>2 DEF Stage
  <2>4. QED
    BY <1>1, <1>2, <1>3, <2>1, <2>3 DEF StepOK, Nodes, ModelNodes
<1>9. CASE s2.pending_tool_call # None
  <2>1. Successor("plan", s2) = "execute_tool"
    BY <1>4, <1>9 DEF Successor, route_after_plan
  <2>2. Stage("execute_tool", s2, k + 1)
    BY <1>4, <1>5, <1>6, <1>7, <1>9 DEF Stage
  <2>3. QED
    BY <1>1, <1>2, <1>3, <2>1, <2>2 DEF StepOK, Nodes
<1>10. QED
  BY <1>8, <1>9

LEMMA ExecuteToolStep ==
  ASSUME NEW s \in State, s.user_request \in Runs, NEW k \in Nat,
         Kept(s), OwnFields(s), Stage("execute_tool", s, k),
         NEW res \in ToolOutcomes(s.pending_tool_call.val)
  PROVE  StepOK("execute_tool", s, k, execute_tool(s, res))
<1> DEFINE s2 == execute_tool(s, res)
           call == s.pending_tool_call.val
           filled == FillsNamespace(s, call)
           record == [by |-> s.user_request, tool_name |-> call.name,
                      namespace |-> IF filled THEN ScopeNamespace(s) ELSE call.namespace,
                      namespace_filled |-> filled, result |-> res,
                      rationale |-> s.plan_rationale]
<1>0. /\ BeforeDiagnosis(s) /\ ~s.loop_guard_triggered
      /\ s.step_count < LOOP_GUARD_MAX /\ s.pending_tool_call # None
      /\ s.plan_rationale # None /\ k = 2 * s.step_count + 3
  BY DEF Stage
<1>1. s2 \in State
  <2>1. s.pending_tool_call \in Tagged(ToolCall)
    BY <1>0 DEF State, Maybe
  <2>2. QED
    BY <2>1, ExecuteToolType
<1>2. /\ s2.investigation_log = Append(s.investigation_log, record)
      /\ s2.step_count = s.step_count + 1
      /\ s2.loop_guard_triggered = s.loop_guard_triggered
      /\ s2.user_request = s.user_request
      /\ s2.turns = s.turns /\ s2.messages = s.messages
      /\ s2.scope = s.scope /\ s2.diagnosis = s.diagnosis
      /\ s2.reference_docs = s.reference_docs /\ s2.recommendation = s.recommendation
      /\ s2.followup_answer = s.followup_answer
      /\ s2.plan_rationale = s.plan_rationale
  BY DEF execute_tool, State
<1>3. record.by = s.user_request /\ record.rationale = s.plan_rationale
  OBVIOUS
<1> SUFFICES StepOK("execute_tool", s, k, s2)
  OBVIOUS
<1> HIDE DEF s2, record, call, filled
<1> DEFINE log == s.investigation_log
           log2 == s2.investigation_log
<1>4. /\ log \in Seq(ToolCallRecord) /\ log2 \in Seq(ToolCallRecord)
      /\ s.step_count \in Nat
  BY <1>1 DEF State
<1>5. /\ Len(log2) = Len(log) + 1 /\ log2[Len(log) + 1] = record
      /\ \A i \in 1..Len(log) : log2[i] = log[i]
      /\ DOMAIN log = 1..Len(log) /\ DOMAIN log2 = 1..(Len(log) + 1)
  <2>1. log2 = Append(log, record) /\ Len(log) \in Nat
    BY <1>2, <1>4
  <2> HIDE DEF log, log2
  <2>2. QED
    BY <2>1, <1>4
<1>6. Len(log) = s.step_count + 1 /\ SweepThenTools(log)
  BY <1>0 DEF BeforeDiagnosis, Investigating
<1>7. SweepThenTools(log2) /\ Len(log2) = s2.step_count + 1
  <2>1. Len(log2) \in 1..(LOOP_GUARD_MAX + 1)
    <3>1. Len(log2) = s.step_count + 2
      BY <1>4, <1>5, <1>6
    <3>2. s.step_count \in Nat /\ s.step_count < LOOP_GUARD_MAX /\ LOOP_GUARD_MAX \in Nat
      BY <1>0, <1>4, BoundsAssumption
    <3> HIDE DEF log, log2
    <3>3. QED
      BY ONLY <3>1, <3>2
  <2>2. log2[1] = log[1]
    BY <1>4, <1>5, <1>6
  <2>3. \A i \in DOMAIN log2 : log2[i].rationale = None <=> i = 1
    <3>1. TAKE i \in DOMAIN log2
    <3>2. CASE i \in 1..Len(log)
      BY <3>2, <1>5, <1>6 DEF SweepThenTools
    <3>3. CASE i = Len(log) + 1
      BY <3>3, <1>0, <1>3, <1>4, <1>5, <1>6
    <3>4. QED
      BY <1>4, <1>5, <3>2, <3>3
  <2>4. QED
    BY <2>1, <2>2, <2>3, <1>2, <1>4, <1>5, <1>6 DEF SweepThenTools
<1>8. Kept(s2)
  BY <1>2 DEF Kept
<1>9. OwnFields(s2)
  <2>1. \A i \in DOMAIN log2 : /\ log2[i].by = s2.user_request
                               /\ Own(s2, log2[i].rationale)
    <3>1. TAKE i \in DOMAIN log2
    <3>2. CASE i \in 1..Len(log)
      BY <3>2, <1>2, <1>5 DEF OwnFields, Own
    <3>3. CASE i = Len(log) + 1
      BY <3>3, <1>2, <1>3, <1>5 DEF OwnFields, Own
    <3>4. QED
      BY <1>4, <1>5, <3>2, <3>3
  <2>2. QED
    BY <1>2, <2>1 DEF OwnFields, Own
<1>10. BeforeDiagnosis(s2) /\ ~s2.loop_guard_triggered
  <2>1. s2.step_count <= LOOP_GUARD_MAX
    BY <1>0, <1>2, <1>4, BoundsAssumption
  <2>2. QED
    BY <1>0, <1>2, <1>7, <2>1 DEF BeforeDiagnosis, Investigating
<1>11. k + 1 = 2 * s2.step_count + 2
  BY <1>0, <1>2, <1>4
<1>12. Stage("plan", s2, k + 1)
  BY <1>10, <1>11 DEF Stage
<1>13. QED
  BY <1>1, <1>2, <1>8, <1>9, <1>12 DEF StepOK, Successor, Nodes, ModelNodes

LEMMA DiagnoseStep ==
  ASSUME NEW s \in State, s.user_request \in Runs, NEW k \in Nat,
         Kept(s), OwnFields(s), Stage("diagnose", s, k), NEW a \in DiagnosisAnswers
  PROVE  StepOK("diagnose", s, k, diagnose(s, a))
<1> DEFINE s2 == diagnose(s, a)
<1>0. BeforeDiagnosis(s) /\ AfterPlanning(s) /\ k = 2 * s.step_count + 3
  BY DEF Stage
<1>1. s2 \in State
  BY DiagnoseType
<1>2. /\ s2.diagnosis = Tag(s.user_request, a)
      /\ s2.investigation_log = s.investigation_log
      /\ s2.loop_guard_triggered = s.loop_guard_triggered
      /\ s2.user_request = s.user_request
      /\ s2.turns = s.turns /\ s2.messages = s.messages /\ s2.scope = s.scope
      /\ s2.reference_docs = s.reference_docs /\ s2.recommendation = s.recommendation
      /\ s2.followup_answer = s.followup_answer /\ s2.step_count = s.step_count
      /\ s2.plan_rationale = s.plan_rationale
  BY DEF diagnose, State
<1>3. s2.diagnosis # None
  BY <1>2, NoneAssumption DEF Tag, Tagged
<1> SUFFICES StepOK("diagnose", s, k, s2)
  OBVIOUS
<1> HIDE DEF s2
<1>4. Kept(s2) /\ OwnFields(s2)
  BY <1>2 DEF Kept, OwnFields, Own, Tag
<1>5. AfterPlanning(s2) /\ s2.recommendation = None /\ s2.reference_docs = <<>>
  BY <1>0, <1>2 DEF AfterPlanning, Investigating, BeforeDiagnosis
<1>6. k + 1 = 2 * s2.step_count + 4
  BY <1>0, <1>1, <1>2 DEF State
<1>7. Stage("ground", s2, k + 1)
  BY <1>3, <1>5, <1>6 DEF Stage
<1>8. QED
  BY <1>1, <1>2, <1>4, <1>7 DEF StepOK, Successor, Nodes

\* Whichever way ground ends, it leaves pages recommend may cite.
LEMMA GroundedStep ==
  ASSUME NEW s \in State, s.user_request \in Runs, NEW k \in Nat,
         Kept(s), OwnFields(s), Stage("ground", s, k), NEW s2 \in State,
         s2.investigation_log = s.investigation_log, s2.scope = s.scope,
         s2.loop_guard_triggered = s.loop_guard_triggered,
         s2.user_request = s.user_request, s2.turns = s.turns,
         s2.messages = s.messages, s2.recommendation = s.recommendation,
         s2.followup_answer = s.followup_answer, s2.step_count = s.step_count,
         s2.plan_rationale = s.plan_rationale, s2.diagnosis = s.diagnosis,
         Citable(s2),
         \A i \in DOMAIN s2.reference_docs : s2.reference_docs[i].by = s.user_request
  PROVE  StepOK("ground", s, k, s2)
<1>1. /\ AfterPlanning(s) /\ s.recommendation = None
      /\ s.diagnosis # None /\ k = 2 * s.step_count + 4
  BY DEF Stage
<1>2. Kept(s2) /\ OwnFields(s2)
  BY DEF Kept, OwnFields, Own
<1>3. AfterPlanning(s2)
  BY <1>1 DEF AfterPlanning, Investigating
<1>4. k + 1 = 2 * s2.step_count + 5
  BY <1>1 DEF State
<1>5. Stage("recommend", s2, k + 1)
  BY <1>1, <1>3, <1>4 DEF Stage
<1>6. QED
  BY <1>2, <1>5 DEF StepOK, Successor, Nodes, ModelNodes

LEMMA GroundStep ==
  ASSUME NEW s \in State, s.user_request \in Runs, NEW k \in Nat,
         Kept(s), OwnFields(s), Stage("ground", s, k), Searches(s),
         NEW chunks \in SearchAnswers
  PROVE  StepOK("ground", s, k, ground(s, chunks))
<1> DEFINE s2 == ground(s, chunks)
           pages == DistinctPages(chunks)
<1>0. chunks \in Seq(Maybe(Pages))
  BY GraphAssumption
<1>1. s2 \in State
  BY <1>0, GroundType
<1>2. /\ pages \in Seq(Pages) /\ Len(pages) <= GROUNDING_DOCS
      /\ \A i, j \in DOMAIN pages : pages[i] = pages[j] => i = j
  BY <1>0, DistinctPagesFacts
<1>3. /\ s2.reference_docs = [i \in 1..Len(pages) |-> Tag(s.user_request, pages[i])]
      /\ s2.investigation_log = s.investigation_log /\ s2.scope = s.scope
      /\ s2.loop_guard_triggered = s.loop_guard_triggered
      /\ s2.user_request = s.user_request /\ s2.turns = s.turns
      /\ s2.messages = s.messages /\ s2.recommendation = s.recommendation
      /\ s2.followup_answer = s.followup_answer /\ s2.step_count = s.step_count
      /\ s2.plan_rationale = s.plan_rationale /\ s2.diagnosis = s.diagnosis
  BY DEF ground, State
<1> HIDE DEF s2, pages
<1>4. \A i \in DOMAIN s2.reference_docs : s2.reference_docs[i].by = s.user_request
  BY <1>3 DEF Tag
<1>5. Citable(s2)
  <2>1. Len(s2.reference_docs) = Len(pages) /\ Len(pages) \in Nat
    BY <1>2, <1>3
  <2>2. \A i, j \in DOMAIN s2.reference_docs :
          s2.reference_docs[i].val = s2.reference_docs[j].val => i = j
    BY <1>2, <1>3 DEF Tag
  <2>3. QED
    BY <1>2, <1>3, <2>1, <2>2 DEF Citable, Searches
<1>6. QED
  BY <1>1, <1>3, <1>4, <1>5, GroundedStep DEF s2

LEMMA GroundNothingStep ==
  ASSUME NEW s \in State, s.user_request \in Runs, NEW k \in Nat,
         Kept(s), OwnFields(s), Stage("ground", s, k)
  PROVE  /\ StepOK("ground", s, k, ground_without_search(s))
         /\ StepOK("ground", s, k, ground_failed(s))
<1>1. ASSUME NEW s2 \in {ground_without_search(s), ground_failed(s)}
      PROVE  StepOK("ground", s, k, s2)
  <2>1. s2 \in State
    BY <1>1, GroundNothingType
  <2>2. /\ s2.reference_docs = <<>>
        /\ s2.investigation_log = s.investigation_log /\ s2.scope = s.scope
        /\ s2.loop_guard_triggered = s.loop_guard_triggered
        /\ s2.user_request = s.user_request /\ s2.turns = s.turns
        /\ s2.messages = s.messages /\ s2.recommendation = s.recommendation
        /\ s2.followup_answer = s.followup_answer /\ s2.step_count = s.step_count
        /\ s2.plan_rationale = s.plan_rationale /\ s2.diagnosis = s.diagnosis
    BY <1>1 DEF ground_without_search, ground_failed, State
  <2>3. Citable(s2)
    BY <2>2, BoundsAssumption DEF Citable
  <2>4. \A i \in DOMAIN s2.reference_docs : s2.reference_docs[i].by = s.user_request
    BY <2>2
  <2>5. QED
    BY <2>1, <2>2, <2>3, <2>4, GroundedStep
<1>2. QED
  BY <1>1

LEMMA RecommendStep ==
  ASSUME NEW s \in State, s.user_request \in Runs, NEW k \in Nat,
         Kept(s), OwnFields(s), Stage("recommend", s, k), NEW text \in ReplyTexts
  PROVE  StepOK("recommend", s, k, recommend(s, text))
<1> DEFINE s2 == recommend(s, text)
<1>0. AfterPlanning(s) /\ s.diagnosis # None /\ Citable(s) /\ k = 2 * s.step_count + 5
  BY DEF Stage
<1>1. s2 \in State
  BY RecommendType
<1>2. /\ s2.recommendation = Tag(s.user_request, text)
      /\ s2.investigation_log = s.investigation_log /\ s2.scope = s.scope
      /\ s2.loop_guard_triggered = s.loop_guard_triggered
      /\ s2.user_request = s.user_request /\ s2.turns = s.turns
      /\ s2.messages = s.messages /\ s2.reference_docs = s.reference_docs
      /\ s2.followup_answer = s.followup_answer /\ s2.step_count = s.step_count
      /\ s2.plan_rationale = s.plan_rationale /\ s2.diagnosis = s.diagnosis
  BY DEF recommend, State
<1>3. s2.recommendation # None
  BY <1>2, NoneAssumption DEF Tag, Tagged
<1> SUFFICES StepOK("recommend", s, k, s2)
  OBVIOUS
<1> HIDE DEF s2
<1>4. Kept(s2) /\ OwnFields(s2)
  BY <1>2 DEF Kept, OwnFields, Own, Tag
<1>5. AfterPlanning(s2) /\ s2.diagnosis # None /\ Citable(s2)
  BY <1>0, <1>2 DEF AfterPlanning, Investigating, Citable
<1>6. k + 1 = 2 * s2.step_count + 6
  BY <1>0, <1>1, <1>2 DEF State
<1>7. Stage("finalize", s2, k + 1)
  BY <1>3, <1>5, <1>6 DEF Stage
<1>8. QED
  BY <1>1, <1>2, <1>4, <1>7 DEF StepOK, Successor, Nodes

LEMMA AnswerFollowupStep ==
  ASSUME NEW s \in State, s.user_request \in Runs, NEW k \in Nat,
         Kept(s), OwnFields(s), Stage("answer_followup", s, k), NEW text \in ReplyTexts
  PROVE  StepOK("answer_followup", s, k, answer_followup(s, text))
<1> DEFINE s2 == answer_followup(s, text)
<1>0. Untouched(s) /\ InvestigatedTurns(s.turns) # {} /\ k = 1
  BY DEF Stage
<1>1. s2 \in State /\ s2.followup_answer # None
  BY AnswerFollowupType
<1>2. /\ s2.followup_answer.by = s.user_request
      /\ s2.investigation_log = s.investigation_log /\ s2.scope = s.scope
      /\ s2.loop_guard_triggered = s.loop_guard_triggered
      /\ s2.user_request = s.user_request /\ s2.turns = s.turns
      /\ s2.messages = s.messages /\ s2.reference_docs = s.reference_docs
      /\ s2.recommendation = s.recommendation /\ s2.step_count = s.step_count
      /\ s2.plan_rationale = s.plan_rationale /\ s2.diagnosis = s.diagnosis
  BY DEF answer_followup, State
<1> SUFFICES StepOK("answer_followup", s, k, s2)
  OBVIOUS
<1> HIDE DEF s2
<1>3. Kept(s2) /\ OwnFields(s2)
  BY <1>2 DEF Kept, OwnFields, Own
<1>4. Untouched(s2) /\ InvestigatedTurns(s2.turns) # {} /\ k + 1 = 2
  BY <1>0, <1>2 DEF Untouched
<1>5. Stage("finalize", s2, k + 1)
  BY <1>1, <1>4 DEF Stage
<1>6. QED
  BY <1>1, <1>2, <1>3, <1>5 DEF StepOK, Successor, Nodes

-------------------------------------------------------------------------------
(***************************************************************************)
(* What finalize archives: the turn it appends is as good as the turns the *)
(* thread already keeps, and appending it disturbs none of them.           *)
(***************************************************************************)
LEMMA ArchivedEvidence ==
  ASSUME NEW s \in State, s.user_request \in Runs, OwnFields(s)
  PROVE  OwnEvidence(Archived(s))
<1>1. ReplyText(s).by = s.user_request
  BY DEF ReplyText, HasQuestion, OwnFields, Own, Tag
<1> DEFINE turn == Archived(s)
<1>2. /\ turn.user_request = s.user_request /\ turn.reply = ReplyText(s)
      /\ turn.scope = s.scope /\ turn.diagnosis = s.diagnosis
      /\ turn.recommendation = s.recommendation
      /\ turn.investigation_log = s.investigation_log
      /\ turn.reference_docs = s.reference_docs
  BY DEF Archived
<1> HIDE DEF turn
<1>3. OwnEvidence(turn)
  BY <1>1, <1>2 DEF OwnEvidence, OwnFields, Own
<1>4. QED
  BY <1>3 DEF turn

LEMMA ArchivedRoute ==
  ASSUME NEW s \in State, NEW k \in Nat, Stage("finalize", s, k)
  PROVE  LET turn == Archived(s)
         IN /\ turn.route = "investigate" => Investigation(turn)
            /\ turn.route # "investigate" => NoEvidence(turn)
            /\ turn.route = "followup" => InvestigatedTurns(s.turns) # {}
            /\ Citable(turn)
<1> DEFINE turn == Archived(s)
<1>1. /\ turn.route = TurnRouteOf(s) /\ turn.reply = ReplyText(s)
      /\ turn.diagnosis = s.diagnosis /\ turn.recommendation = s.recommendation
      /\ turn.investigation_log = s.investigation_log
      /\ turn.reference_docs = s.reference_docs
      /\ turn.loop_guard_triggered = s.loop_guard_triggered
  BY DEF Archived
<1> SUFFICES /\ turn.route = "investigate" => Investigation(turn)
             /\ turn.route # "investigate" => NoEvidence(turn)
             /\ turn.route = "followup" => InvestigatedTurns(s.turns) # {}
             /\ Citable(turn)
  OBVIOUS
<1> HIDE DEF turn
<1>2. CASE /\ AfterPlanning(s) /\ s.diagnosis # None /\ Citable(s)
           /\ s.recommendation # None
  <2>1. turn.route = "investigate" /\ turn.reply = turn.recommendation
    BY <1>1, <1>2 DEF TurnRouteOf, ReplyText, AfterPlanning, Investigating
  <2>2. turn.loop_guard_triggered
          <=> Len(turn.investigation_log) = LOOP_GUARD_MAX + 1
    <3>1. /\ s.loop_guard_triggered <=> s.step_count = LOOP_GUARD_MAX
          /\ Len(s.investigation_log) = s.step_count + 1
          /\ s.step_count \in Nat /\ LOOP_GUARD_MAX \in Nat
      BY <1>2, BoundsAssumption DEF AfterPlanning, Investigating, State
    <3>2. Len(s.investigation_log) = LOOP_GUARD_MAX + 1 <=> s.step_count = LOOP_GUARD_MAX
      BY ONLY <3>1
    <3>3. QED
      BY <1>1, <3>1, <3>2
  <2>3. Investigation(turn)
    BY <1>1, <1>2, <2>1, <2>2 DEF Investigation, AfterPlanning, Investigating
  <2>4. Citable(turn)
    BY <1>1, <1>2 DEF Citable
  <2>5. QED
    BY <2>1, <2>3, <2>4
<1>3. CASE /\ Untouched(s)
           /\ s.followup_answer # None => InvestigatedTurns(s.turns) # {}
  <2>1. turn.route # "investigate"
    BY <1>1, <1>3 DEF TurnRouteOf, Untouched
  <2>2. turn.route = "followup" => InvestigatedTurns(s.turns) # {}
    BY <1>1, <1>3 DEF TurnRouteOf
  <2>3. NoEvidence(turn)
    BY <1>1, <1>3 DEF Untouched, NoEvidence
  <2>4. Citable(turn)
    BY <1>1, <1>3, BoundsAssumption DEF Untouched, Citable
  <2>5. QED
    BY <2>1, <2>2, <2>3, <2>4
<1>4. QED
  BY <1>2, <1>3 DEF Stage

LEMMA RoutesExtend ==
  ASSUME NEW turns \in Seq(TurnRecord), RoutesMatch(turns), NEW turn \in TurnRecord,
         turn.route = "investigate" => Investigation(turn),
         turn.route # "investigate" => NoEvidence(turn),
         turn.route = "followup" => InvestigatedTurns(turns) # {}
  PROVE  RoutesMatch(Append(turns, turn))
<1> DEFINE longer == Append(turns, turn)
<1>1. /\ Len(turns) \in Nat /\ DOMAIN turns = 1..Len(turns)
      /\ DOMAIN longer = 1..(Len(turns) + 1) /\ longer[Len(turns) + 1] = turn
      /\ \A i \in 1..Len(turns) : longer[i] = turns[i]
  OBVIOUS
<1> SUFFICES RoutesMatch(longer)
  OBVIOUS
<1> HIDE DEF longer
<1>2. InvestigatedTurns(turns) \subseteq InvestigatedTurns(longer)
  BY <1>1 DEF InvestigatedTurns
<1>3. \A j \in InvestigatedTurns(turns) : j < Len(turns) + 1
  BY <1>1 DEF InvestigatedTurns
<1>4. ASSUME NEW i \in DOMAIN longer
      PROVE  /\ longer[i].route = "investigate" => Investigation(longer[i])
             /\ longer[i].route # "investigate" => NoEvidence(longer[i])
             /\ longer[i].route = "followup"
                  => \E j \in InvestigatedTurns(longer) : j < i
  <2>1. CASE i \in 1..Len(turns)
    <3>1. longer[i] = turns[i] /\ i \in DOMAIN turns
      BY <1>1, <2>1
    <3>2. QED
      BY <1>2, <3>1 DEF RoutesMatch
  <2>2. CASE i = Len(turns) + 1
    BY <1>1, <1>2, <1>3, <2>2
  <2>3. QED
    BY <1>1, <2>1, <2>2
<1>5. QED
  BY <1>4 DEF RoutesMatch

LEMMA ConcatFacts ==
  ASSUME NEW S, NEW a \in Seq(S), NEW b \in Seq(S)
  PROVE  /\ Len(a \o b) = Len(a) + Len(b)
         /\ \A j \in 1..Len(a) : (a \o b)[j] = a[j]
         /\ \A j \in 1..Len(b) : (a \o b)[Len(a) + j] = b[j]
OBVIOUS

LEMMA PairedExtends ==
  ASSUME NEW messages \in Seq(Message), NEW turns \in Seq(TurnRecord),
         Paired(messages, turns), NEW turn \in TurnRecord
  PROVE  Paired(messages \o Spoken(turn.user_request), Append(turns, turn))
<1> DEFINE longer == Append(turns, turn)
           spoken == Spoken(turn.user_request)
           said == messages \o spoken
           n == Len(turns)
<1>1. /\ n \in Nat /\ DOMAIN turns = 1..n /\ Len(longer) = n + 1
      /\ DOMAIN longer = 1..(n + 1) /\ longer[n + 1] = turn
      /\ \A i \in 1..n : longer[i] = turns[i]
  OBVIOUS
<1>2. /\ Len(spoken) = 2
      /\ spoken[1] = [role |-> "human", turn |-> turn.user_request]
      /\ spoken[2] = [role |-> "ai", turn |-> turn.user_request]
  BY DEF Spoken
<1>3. spoken \in Seq(Message)
  BY DEF Spoken, Message, TurnRecord
<1>4. Len(messages) = 2 * n
  BY DEF Paired
<1> HIDE DEF longer, spoken, n
<1>5. /\ Len(said) = 2 * (n + 1)
      /\ \A j \in 1..(2 * n) : said[j] = messages[j]
      /\ said[2 * n + 1] = spoken[1] /\ said[2 * n + 2] = spoken[2]
  <2>1. Len(said) = Len(messages) + Len(spoken)
    BY <1>3, ConcatFacts
  <2>2. \A j \in 1..Len(messages) : said[j] = messages[j]
    BY <1>3, ConcatFacts
  <2>3. \A j \in 1..Len(spoken) : said[Len(messages) + j] = spoken[j]
    BY <1>3, ConcatFacts
  <2>4. 2 * n \in Nat
    BY <1>1
  <2> HIDE DEF said
  <2>5. QED
    BY <1>1, <1>2, <1>4, <2>1, <2>2, <2>3, <2>4
<1> HIDE DEF said
<1>6. ASSUME NEW i \in DOMAIN longer
      PROVE  /\ said[2 * i - 1] = [role |-> "human", turn |-> longer[i].user_request]
             /\ said[2 * i] = [role |-> "ai", turn |-> longer[i].user_request]
  <2>1. CASE i \in 1..n
    <3>1. 2 * i - 1 \in 1..(2 * n) /\ 2 * i \in 1..(2 * n) /\ i \in DOMAIN turns
      BY <1>1, <2>1
    <3>2. QED
      BY <1>1, <1>5, <2>1, <3>1 DEF Paired
  <2>2. CASE i = n + 1
    <3>1. 2 * i - 1 = 2 * n + 1 /\ 2 * i = 2 * n + 2
      BY <1>1, <2>2
    <3>2. QED
      BY <1>1, <1>2, <1>5, <2>2, <3>1
  <2>3. QED
    BY <1>1, <2>1, <2>2
<1>7. Paired(said, longer)
  BY <1>1, <1>5, <1>6 DEF Paired
<1>8. QED
  BY <1>7 DEF said, spoken, longer

LEMMA FinalizeStep ==
  ASSUME NEW s \in State, s.user_request \in Runs, NEW k \in Nat,
         Kept(s), OwnFields(s), Stage("finalize", s, k)
  PROVE  StepOK("finalize", s, k, finalize(s))
<1> DEFINE s2 == finalize(s)
           turn == Archived(s)
<1>1. s2 \in State /\ turn \in TurnRecord
  BY FinalizeType, ArchivedType
<1>2. /\ s2.turns = Append(s.turns, turn)
      /\ s2.messages = s.messages \o Spoken(s.user_request)
      /\ s2.investigation_log = s.investigation_log /\ s2.scope = s.scope
      /\ s2.user_request = s.user_request
      /\ s2.reference_docs = s.reference_docs
      /\ s2.recommendation = s.recommendation
      /\ s2.followup_answer = s.followup_answer
      /\ s2.plan_rationale = s.plan_rationale /\ s2.diagnosis = s.diagnosis
  BY DEF finalize, State
<1>3. s.turns \in Seq(TurnRecord) /\ s.messages \in Seq(Message)
  BY DEF State
<1>4. turn.user_request = s.user_request
  BY DEF Archived
<1>5. /\ OwnEvidence(turn)
      /\ turn.route = "investigate" => Investigation(turn)
      /\ turn.route # "investigate" => NoEvidence(turn)
      /\ turn.route = "followup" => InvestigatedTurns(s.turns) # {}
      /\ Citable(turn)
  BY ArchivedEvidence, ArchivedRoute
<1> SUFFICES StepOK("finalize", s, k, s2)
  OBVIOUS
<1> HIDE DEF s2, turn
<1>6. OwnFields(s2)
  BY <1>2 DEF OwnFields, Own
<1>7. RoutesMatch(s2.turns) /\ Paired(s2.messages, s2.turns)
  BY <1>1, <1>2, <1>3, <1>4, <1>5, RoutesExtend, PairedExtends DEF Kept
<1>8. OwnTurns(s2.turns) /\ \A i \in DOMAIN s2.turns : Citable(s2.turns[i])
  <2>1. ASSUME NEW i \in DOMAIN s2.turns
        PROVE  OwnEvidence(s2.turns[i]) /\ Citable(s2.turns[i])
    <3>1. \/ i \in DOMAIN s.turns /\ s2.turns[i] = s.turns[i]
          \/ s2.turns[i] = turn
      BY <1>1, <1>2, <1>3
    <3>2. QED
      BY <1>5, <3>1 DEF Kept, OwnTurns
  <2>2. QED
    BY <2>1 DEF OwnTurns
<1>9. Kept(s2)
  BY <1>7, <1>8 DEF Kept
<1>10. Stage("done", s2, k + 1)
  <2> DEFINE c == s.step_count
  <2>1. c \in Nat /\ LOOP_GUARD_MAX \in Nat
    BY BoundsAssumption DEF State
  <2>2. (c <= LOOP_GUARD_MAX /\ k = 2 * c + 6) \/ k <= 2
    BY DEF Stage, AfterPlanning, Investigating
  <2> HIDE DEF c
  <2>3. k + 1 <= MostNodes
    BY <2>1, <2>2 DEF MostNodes
  <2> QED
    BY <2>3 DEF Stage
<1>11. QED
  BY <1>1, <1>2, <1>6, <1>9, <1>10 DEF StepOK, Successor

-------------------------------------------------------------------------------
(***************************************************************************)
(* The invariant is inductive.                                             *)
(***************************************************************************)
LEMMA InitIInv == Init => IInv
<1> SUFFICES ASSUME Init PROVE IInv
  OBVIOUS
<1>1. TypeOK
  BY DefaultsType DEF Init, TypeOK, Maybe
<1>2. Kept(Defaults)
  BY DEF Kept, OwnTurns, RoutesMatch, Paired, Defaults
<1>3. \A r \in Runs : ~Active(r) /\ node[r] # "done"
  BY DEF Init, Active, Nodes, ModelNodes
<1>4. QED
  BY <1>1, <1>2, <1>3 DEF Init, IInv

LEMMA StartTurnKeeps ==
  ASSUME IInv, NEW r \in Runs, NEW t \in Threads, StartTurn(r, t)
  PROVE  IInv'
<1> DEFINE s2 == NewTurn(saved[t], r)
<1>1. saved[t] \in State /\ s2 \in State
  BY NewTurnType DEF IInv, TypeOK
<1>2. /\ s2.user_request = r /\ s2.turns = saved[t].turns
      /\ s2.messages = saved[t].messages /\ s2.followup_answer = None
      /\ s2.scope = None /\ s2.plan_rationale = None
      /\ Untouched(s2)
  BY DEF NewTurn, Defaults, Untouched
<1>3. /\ node[r] = "unused" /\ state' = [state EXCEPT ![r] = s2]
      /\ saved' = [saved EXCEPT ![t] = s2] /\ node' = [node EXCEPT ![r] = "intake"]
      /\ thread' = [thread EXCEPT ![r] = t] /\ supersteps' = supersteps
  BY DEF StartTurn
<1> HIDE DEF s2
<1>4. Kept(s2)
  BY <1>2 DEF IInv, Kept
<1>5. OwnFields(s2)
  BY <1>2 DEF Untouched, OwnFields, Own
<1>6. Stage("intake", s2, 0)
  BY <1>2 DEF Stage
<1>7. TypeOK'
  BY <1>1, <1>3 DEF IInv, TypeOK, Maybe, Nodes, ModelNodes
<1>8. /\ \A u \in Threads : Kept(saved'[u])
      /\ \A q \in Runs : Kept(state'[q])
  BY <1>3, <1>4 DEF IInv, TypeOK
<1>9. ASSUME NEW q \in Runs, Active(q)'
      PROVE  /\ state'[q].user_request = q /\ thread'[q] \in Threads
             /\ OwnFields(state'[q])
             /\ Stage(node'[q], state'[q], supersteps'[q])
  BY <1>2, <1>3, <1>5, <1>6, <1>9 DEF IInv, TypeOK, Active
<1>10. \A q \in Runs : /\ node'[q] = "unused" => supersteps'[q] = 0
                       /\ node'[q] = "done" => supersteps'[q] <= MostNodes
  BY <1>3 DEF IInv, TypeOK
<1>11. QED
  BY <1>7, <1>8, <1>9, <1>10 DEF IInv, MostNodes

LEMMA CompleteKeeps ==
  ASSUME IInv, NEW r \in Runs, Active(r), NEW s2,
         StepOK(node[r], state[r], supersteps[r], s2), Complete(r, s2)
  PROVE  IInv'
<1>1. /\ s2 \in State /\ s2.user_request = r /\ Kept(s2) /\ OwnFields(s2)
      /\ Successor(node[r], s2) \in Nodes \cup {"done"}
      /\ Stage(Successor(node[r], s2), s2, supersteps[r] + 1)
  BY DEF StepOK, IInv
<1>2. /\ state' = [state EXCEPT ![r] = s2]
      /\ saved' = [saved EXCEPT ![thread[r]] = s2]
      /\ node' = [node EXCEPT ![r] = Successor(node[r], s2)]
      /\ supersteps' = [supersteps EXCEPT ![r] = @ + 1] /\ thread' = thread
  BY DEF Complete
<1>3. thread[r] \in Threads
  BY DEF IInv
<1>4. TypeOK'
  BY <1>1, <1>2, <1>3 DEF IInv, TypeOK, Ended
<1>5. /\ \A u \in Threads : Kept(saved'[u])
      /\ \A q \in Runs : Kept(state'[q])
  BY <1>1, <1>2 DEF IInv, TypeOK
<1>6. ASSUME NEW q \in Runs, Active(q)'
      PROVE  /\ state'[q].user_request = q /\ thread'[q] \in Threads
             /\ OwnFields(state'[q])
             /\ Stage(node'[q], state'[q], supersteps'[q])
  BY <1>1, <1>2, <1>3, <1>6 DEF IInv, TypeOK, Active
<1>7. \A q \in Runs : node'[q] = "unused" => supersteps'[q] = 0
  <2>1. "unused" \notin Nodes \cup {"done"}
    BY DEF Nodes, ModelNodes
  <2>2. QED
    BY <1>1, <1>2, <2>1 DEF IInv, TypeOK
<1>8. \A q \in Runs : node'[q] = "done" => supersteps'[q] <= MostNodes
  <2>1. Successor(node[r], s2) = "done" => supersteps[r] + 1 <= MostNodes
    BY <1>1 DEF Stage
  <2>2. QED
    BY <1>2, <2>1 DEF IInv, TypeOK
<1>9. QED
  BY <1>4, <1>5, <1>6, <1>7, <1>8 DEF IInv, MostNodes

\* A run that stops, and all of them stopping at once, take only runs away.
LEMMA StopKeeps ==
  ASSUME IInv, UNCHANGED <<saved, state, thread, supersteps>>,
         node' \in [Runs -> Nodes \cup Ended \cup {"unused"}],
         \A r \in Runs : node'[r] = node[r] \/ node'[r] \in Ended \ {"done"}
  PROVE  IInv'
<1>1. \A r \in Runs : node'[r] \in Ended \ {"done"} => ~Active(r)' /\ node'[r] # "unused"
  BY DEF Active, Ended, Nodes, ModelNodes
<1>2. TypeOK'
  BY DEF IInv, TypeOK
<1>3. QED
  BY <1>1, <1>2 DEF IInv, Active, MostNodes

LEMMA EndKeeps ==
  ASSUME IInv, NEW r \in Runs, NEW how \in Ended \ {"done"}, End(r, how)
  PROVE  IInv'
<1>1. node' \in [Runs -> Nodes \cup Ended \cup {"unused"}]
  BY DEF End, IInv, TypeOK
<1>2. \A q \in Runs : node'[q] = node[q] \/ node'[q] \in Ended \ {"done"}
  BY DEF End, IInv, TypeOK
<1>3. QED
  BY <1>1, <1>2, StopKeeps DEF End

LEMMA NodeStepKeeps ==
  ASSUME IInv, NEW r \in Runs, NodeStep(r)
  PROVE  IInv'
<1> DEFINE s == state[r]
           k == supersteps[r]
<1>1. Active(r)
  BY DEF NodeStep, Intake, GatherContext, PlanAtGuard, Plan, ExecuteTool, Diagnose,
         GroundSkipped, Ground, Recommend, AnswerFollowup, Finalize, Ready, Active,
         Nodes, ModelNodes
<1>2. /\ s \in State /\ k \in Nat /\ Kept(s) /\ OwnFields(s)
      /\ s.user_request \in Runs /\ Stage(node[r], s, k)
  BY <1>1 DEF IInv, TypeOK
<1>3. CASE Intake(r)
  <2>1. PICK a \in ScopeAnswers : Complete(r, intake(s, a))
    BY <1>3 DEF Intake
  <2>2. node[r] = "intake"
    BY <1>3 DEF Intake, Ready
  <2>3. QED
    BY <1>1, <1>2, <2>1, <2>2, IntakeStep, CompleteKeeps
<1>4. CASE GatherContext(r)
  <2>1. PICK res \in ToolResults : Complete(r, gather_context(s, res))
    BY <1>4 DEF GatherContext
  <2>2. node[r] = "gather_context"
    BY <1>4 DEF GatherContext, Ready
  <2>3. QED
    BY <1>1, <1>2, <2>1, <2>2, GatherStep, CompleteKeeps
<1>5. CASE PlanAtGuard(r)
  <2>1. node[r] = "plan" /\ AtLoopGuard(s) /\ Complete(r, plan_at_guard(s))
    BY <1>5 DEF PlanAtGuard, Ready
  <2>2. QED
    BY <1>1, <1>2, <2>1, PlanAtGuardStep, CompleteKeeps
<1>6. CASE Plan(r)
  <2>1. PICK a \in PlanAnswers : Complete(r, plan(s, a))
    BY <1>6 DEF Plan
  <2>2. node[r] = "plan" /\ ~AtLoopGuard(s)
    BY <1>6 DEF Plan, Ready
  <2>3. QED
    BY <1>1, <1>2, <2>1, <2>2, PlanStep, CompleteKeeps
<1>7. CASE ExecuteTool(r)
  <2>1. PICK res \in ToolOutcomes(s.pending_tool_call.val) :
          Complete(r, execute_tool(s, res))
    BY <1>7 DEF ExecuteTool
  <2>2. node[r] = "execute_tool"
    BY <1>7 DEF ExecuteTool, Ready
  <2>3. QED
    BY <1>1, <1>2, <2>1, <2>2, ExecuteToolStep, CompleteKeeps
<1>8. CASE Diagnose(r)
  <2>1. PICK a \in DiagnosisAnswers : Complete(r, diagnose(s, a))
    BY <1>8 DEF Diagnose
  <2>2. node[r] = "diagnose"
    BY <1>8 DEF Diagnose, Ready
  <2>3. QED
    BY <1>1, <1>2, <2>1, <2>2, DiagnoseStep, CompleteKeeps
<1>9. CASE GroundSkipped(r)
  <2>1. node[r] = "ground" /\ Complete(r, ground_without_search(s))
    BY <1>9 DEF GroundSkipped, Ready
  <2>2. QED
    BY <1>1, <1>2, <2>1, GroundNothingStep, CompleteKeeps
<1>10. CASE Ground(r)
  <2>1. node[r] = "ground" /\ Searches(s)
    BY <1>10 DEF Ground, Ready
  <2>2. CASE Complete(r, ground_failed(s))
    BY <1>1, <1>2, <2>1, <2>2, GroundNothingStep, CompleteKeeps
  <2>3. CASE \E chunks \in SearchAnswers : Complete(r, ground(s, chunks))
    BY <1>1, <1>2, <2>1, <2>3, GroundStep, CompleteKeeps
  <2>4. QED
    BY <1>10, <2>2, <2>3 DEF Ground
<1>11. CASE Recommend(r)
  <2>1. PICK text \in ReplyTexts : Complete(r, recommend(s, text))
    BY <1>11 DEF Recommend
  <2>2. node[r] = "recommend"
    BY <1>11 DEF Recommend, Ready
  <2>3. QED
    BY <1>1, <1>2, <2>1, <2>2, RecommendStep, CompleteKeeps
<1>12. CASE AnswerFollowup(r)
  <2>1. PICK text \in ReplyTexts : Complete(r, answer_followup(s, text))
    BY <1>12 DEF AnswerFollowup
  <2>2. node[r] = "answer_followup"
    BY <1>12 DEF AnswerFollowup, Ready
  <2>3. QED
    BY <1>1, <1>2, <2>1, <2>2, AnswerFollowupStep, CompleteKeeps
<1>13. CASE Finalize(r)
  <2>1. node[r] = "finalize" /\ Complete(r, finalize(s))
    BY <1>13 DEF Finalize, Ready
  <2>2. QED
    BY <1>1, <1>2, <2>1, FinalizeStep, CompleteKeeps
<1>14. QED
  BY <1>3, <1>4, <1>5, <1>6, <1>7, <1>8, <1>9, <1>10, <1>11, <1>12, <1>13 DEF NodeStep

LEMMA NextKeeps == IInv /\ [Next]_vars => IInv'
<1> SUFFICES ASSUME IInv, [Next]_vars PROVE IInv'
  OBVIOUS
<1>1. CASE \E r \in Runs, t \in Threads : StartTurn(r, t)
  BY <1>1, StartTurnKeeps
<1>2. CASE \E r \in Runs : NodeStep(r)
  BY <1>2, NodeStepKeeps
<1>3. CASE \E r \in Runs : ModelError(r) \/ RecursionError(r) \/ Disconnect(r)
  BY <1>3, EndKeeps DEF ModelError, RecursionError, Disconnect, Ended
<1>4. CASE Restart
  <2>1. node' \in [Runs -> Nodes \cup Ended \cup {"unused"}]
    BY <1>4 DEF Restart, IInv, TypeOK, Ended
  <2>2. \A q \in Runs : node'[q] = node[q] \/ node'[q] \in Ended \ {"done"}
    BY <1>4 DEF Restart, Ended
  <2>3. QED
    BY <1>4, <2>1, <2>2, StopKeeps DEF Restart
<1>5. CASE UNCHANGED vars
  BY <1>5 DEF vars, IInv, TypeOK, Active, MostNodes
<1>6. QED
  BY <1>1, <1>2, <1>3, <1>4, <1>5 DEF Next

LEMMA Invariance == Spec => []IInv
BY InitIInv, NextKeeps, PTL DEF Spec

-------------------------------------------------------------------------------
\* Every state of the service is well formed.
THEOREM TypeCorrect == Spec => []TypeOK
<1>1. IInv => TypeOK
  BY DEF IInv
<1>2. QED
  BY <1>1, Invariance, PTL

\* No archived turn holds another turn's evidence, whatever runs beside it,
\* fails before it, or is cut off.
THEOREM EvidenceOwned == Spec => []EvidenceIsOwn
<1>1. IInv => EvidenceIsOwn
  BY DEF IInv, Kept, EvidenceIsOwn
<1>2. QED
  BY <1>1, Invariance, PTL

\* The derived route says what the turn did, and the loop guard's flag how far
\* it got, for every bound on the loop.
THEOREM RoutesTrue == Spec => []RouteMatchesWork
<1>1. IInv => RouteMatchesWork
  BY DEF IInv, Kept, RouteMatchesWork
<1>2. QED
  BY <1>1, Invariance, PTL

\* The replayed messages are the archived turns.
THEOREM MessagesPaired == Spec => []MessagesMatchTurns
<1>1. IInv => MessagesMatchTurns
  BY DEF IInv, Kept, MessagesMatchTurns
<1>2. QED
  BY <1>1, Invariance, PTL

\* Recommendations cite from few, distinct pages looked up for a named cause.
THEOREM PagesCitable == Spec => []CitablePages
<1>1. IInv => CitablePages
  BY DEF IInv, Kept, CitablePages
<1>2. QED
  BY <1>1, Invariance, PTL

\* The loop guard keeps every turn within 2 * LOOP_GUARD_MAX + 7 nodes, so that with
\* LangGraph's own step 2 * LOOP_GUARD_MAX + 8 are enough, for any guard; one fewer is
\* not, for a turn that uses all of it ends with an error though it is archived.
THEOREM SuperstepsSuffice == Spec => []NeverOutOfSupersteps
<1>1. ASSUME IInv, RecursionLimit >= 2 * LOOP_GUARD_MAX + 8, NEW r \in Runs, Active(r)
      PROVE  StepsLeft(r)
  <2> DEFINE k == supersteps[r]
             c == state[r].step_count
  <2>1. c \in Nat /\ k \in Nat /\ LOOP_GUARD_MAX \in Nat /\ RecursionLimit \in Nat
    BY <1>1, BoundsAssumption, GraphAssumption DEF IInv, TypeOK, State
  <2>2. Stage(node[r], state[r], k) /\ node[r] \in Nodes
    BY <1>1 DEF IInv, Active
  <2>3. k <= 2 \/ (c <= LOOP_GUARD_MAX /\ k <= 2 * c + 6)
    BY <2>1, <2>2 DEF Stage, Nodes, ModelNodes, BeforeDiagnosis, AfterPlanning,
                      Investigating
  <2> HIDE DEF k, c
  <2>4. k <= 2 * LOOP_GUARD_MAX + 6
    BY <2>1, <2>3
  <2>5. QED
    BY <1>1, <2>1, <2>4 DEF k, StepsLeft
<1>2. ASSUME IInv, RecursionLimit >= 2 * LOOP_GUARD_MAX + 8, NEW r \in Runs, node[r] = "done"
      PROVE  StepsLeft(r)
  <2>1. /\ supersteps[r] \in Nat /\ LOOP_GUARD_MAX \in Nat /\ RecursionLimit \in Nat
        /\ supersteps[r] <= 2 * LOOP_GUARD_MAX + 7
    BY <1>2, BoundsAssumption, GraphAssumption DEF IInv, TypeOK, MostNodes
  <2>2. QED
    BY <1>2, <2>1 DEF StepsLeft
<1>3. IInv => NeverOutOfSupersteps
  BY <1>1, <1>2 DEF NeverOutOfSupersteps
<1>4. QED
  BY <1>3, Invariance, PTL
===============================================================================
