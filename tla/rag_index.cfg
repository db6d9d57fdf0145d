\* Three builds, one after the other or side by side, with every fault.
SPECIFICATION Spec
CONSTANTS
  b1 = b1  b2 = b2  b3 = b3
  NoIndex = NoIndex
  Builds = {b1, b2, b3}
  Corpora <- TestCorpora
  BATCH = 2
  TOP_K = 2
SYMMETRY Symmetry
INVARIANTS BuiltIsWhole HitsOfOneCorpus
CHECK_DEADLOCK FALSE
