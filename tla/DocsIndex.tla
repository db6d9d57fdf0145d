------------------------------- MODULE DocsIndex -------------------------------
(***************************************************************************)
(* The docs index: backend/rag/index.py rebuilds a Qdrant collection from  *)
(* the corpus, batch by batch, while rag/retriever.py searches whatever    *)
(* the collection holds at that moment.                                    *)
(*                                                                         *)
(* External, modelled from how src/ uses it: langchain-qdrant (deleting,   *)
(* creating and filling a collection are requests of their own; a batch is *)
(* embedded, then upserted in one request under fresh point ids) and       *)
(* Voyage, which may refuse any embedding for its rate limit.              *)
(***************************************************************************)
EXTENDS Integers, SequencesExt

CONSTANTS
  Builds,      \* runs of build_index
  Corpora,     \* what the corpus may come to: sequences of distinct chunks
  BATCH,       \* _EMBED_BATCH_SIZE
  TOP_K,       \* settings.top_k
  NoIndex      \* there is no collection

ASSUME IndexAssumption ==
  /\ BATCH \in Nat \ {0} /\ TOP_K \in Nat \ {0}
  /\ \A c \in Corpora : c \in Seq(Range(c)) /\ IsInjective(c)

VARIABLES
  points,      \* the chunks in the collection, or NoIndex
  at,          \* build -> where it stands
  corpus,      \* build -> the chunks it indexes
  added,       \* build -> how many of them it is through with
  indexing,    \* the builds that had something to index, in order
  overlapped   \* those that had another one beside them

vars == <<points, at, corpus, added, indexing, overlapped>>

Init ==
  /\ points = NoIndex
  /\ at = [b \in Builds |-> "unused"]
  /\ corpus = [b \in Builds |-> <<>>]
  /\ added = [b \in Builds |-> 0]
  /\ indexing = <<>> /\ overlapped = {}

Active(b) == at[b] \in {"delete", "create", "fill", "open", "add"}
Goto(b, where) == at' = [at EXCEPT ![b] = where]

-------------------------------------------------------------------------------
\* A document without frontmatter ends the build before anything is touched.
load_corpus_raises(b) ==
  /\ at[b] = "unused"
  /\ Goto(b, "raised")
  /\ UNCHANGED <<points, corpus, added, indexing, overlapped>>

\* With no chunks no batch is added, and the old collection stays.
build_index(b) ==
  /\ at[b] = "unused"
  /\ \E c \in Corpora :
       IF c = <<>> THEN Goto(b, "returned") /\ UNCHANGED <<corpus, indexing, overlapped>>
       ELSE LET others == {o \in Builds : Active(o)}
            IN /\ corpus' = [corpus EXCEPT ![b] = c]
               /\ Goto(b, "delete")
               /\ indexing' = Append(indexing, b)
               /\ overlapped' = IF others = {} THEN overlapped
                                ELSE overlapped \cup others \cup {b}
  /\ UNCHANGED <<points, added>>

\* Mutant of Delete: a collection that is there is filled again.
Delete_Keeps(b) ==
  /\ at[b] = "delete"
  /\ Goto(b, IF points = NoIndex THEN "create" ELSE "fill")
  /\ UNCHANGED <<points, corpus, added, indexing, overlapped>>

\* from_documents(force_recreate=True): delete what there is, create anew.
Delete(b) ==
  /\ at[b] = "delete"
  /\ points' = NoIndex /\ Goto(b, "create")
  /\ UNCHANGED <<corpus, added, indexing, overlapped>>

\* Another build may have created one in between.
Create(b) ==
  /\ at[b] = "create"
  /\ IF points = NoIndex THEN points' = <<>> /\ Goto(b, "fill")
     ELSE Goto(b, "raised") /\ UNCHANGED points
  /\ UNCHANGED <<corpus, added, indexing, overlapped>>

Batch(c, i) == SubSeq(c, i + 1, Min({i + BATCH, Len(c)}))

\* Mutant of AfterBatch: the store opened after the first batch is not kept, and
\* each batch recreates the collection.
AfterBatch_Recreates(b, i) == IF i < Len(corpus[b]) THEN "delete" ELSE "returned"

\* The loop goes on with the chunks from i on, if there are any.
AfterBatch(b, i) == IF i < Len(corpus[b]) THEN "add" ELSE "returned"

\* The batch is embedded and upserted: the first one into the new collection,
\* the others into the one opened by name.
AddBatch(b) ==
  /\ at[b] \in {"fill", "add"}
  /\ IF points = NoIndex THEN Goto(b, "raised") /\ UNCHANGED <<points, added>>
     ELSE /\ points' = points \o Batch(corpus[b], added[b])
          /\ added' = [added EXCEPT ![b] = @ + BATCH]
          /\ Goto(b, IF at[b] = "fill" THEN "open" ELSE AfterBatch(b, added[b] + BATCH))
  /\ UNCHANGED <<corpus, indexing, overlapped>>

\* from_existing_collection embeds a text of its own to check the vector size.
Open(b) ==
  /\ at[b] = "open"
  /\ Goto(b, IF points = NoIndex THEN "raised" ELSE AfterBatch(b, added[b]))
  /\ UNCHANGED <<points, corpus, added, indexing, overlapped>>

\* After the rate limit: a first batch starts over with a new collection, a later
\* one is sent again; only the opening in between is not tried again.
Retried(where) ==
  CASE where \in {"delete", "create", "fill"} -> "delete"
    [] where = "open" -> "raised"
    [] where = "add" -> "add"

RateLimitError(b) ==
  /\ Active(b)
  /\ Goto(b, Retried(at[b]))
  /\ UNCHANGED <<points, corpus, added, indexing, overlapped>>

\* The process is killed, or Qdrant or Voyage fail in another way.
Die(b) ==
  /\ Active(b)
  /\ Goto(b, "died")
  /\ UNCHANGED <<points, corpus, added, indexing, overlapped>>

Next ==
  \E b \in Builds :
    \/ load_corpus_raises(b) \/ build_index(b) \/ Delete(b) \/ Create(b)
    \/ AddBatch(b) \/ Open(b) \/ RateLimitError(b) \/ Die(b)

Spec == Init /\ [][Next]_vars

-------------------------------------------------------------------------------
\* search_docs in this state: the TOP_K points nearest to the query, or all there
\* are; without a collection it raises.
search_docs ==
  IF points = NoIndex THEN {}
  ELSE {[i \in nearest |-> points[i]] :
          nearest \in kSubset(Min({TOP_K, Len(points)}), DOMAIN points)}

Latest == Last(indexing)

\* When the latest build to have anything to index has returned, and none ran
\* beside it, the collection is its corpus: each chunk once, none of an earlier
\* build, whatever rate limits and failed builds came before or after.
BuiltIsWhole ==
  indexing # <<>> /\ Latest \notin overlapped /\ at[Latest] = "returned" =>
    points = corpus[Latest]

\* Searches beside a rebuild, or after one that died, find less but nothing
\* wrong: no chunk twice, and all of one corpus, the latest build's as soon as
\* it has added anything; as long as no two builds run beside each other.
HitsOfOneCorpus ==
  overlapped = {} =>
    \A hits \in search_docs :
      /\ IsInjective(hits)
      /\ \E b \in IF added[Latest] > 0 THEN {Latest} ELSE Builds :
           Range(hits) \subseteq Range(corpus[b])
===============================================================================
