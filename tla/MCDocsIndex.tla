------------------------------ MODULE MCDocsIndex ------------------------------
(***************************************************************************)
(* Instances of DocsIndex for TLC.                                         *)
(***************************************************************************)
EXTENDS DocsIndex

CONSTANTS b1, b2, b3

Symmetry == Permutations({b1, b2, b3})

\* An empty corpus, one of a whole batch, one with a last batch of one chunk.
TestCorpora == {<<>>, <<"pods", "probes">>, <<"pods", "dns", "quotas">>}
===============================================================================
