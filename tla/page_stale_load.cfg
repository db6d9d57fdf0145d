\* A slow thread load that lands after New conversation.
SPECIFICATION Spec
CONSTANTS
  Pages = {p1, p2}
  Ids = {id1, id2}
  Questions = {q1, q2}
  None = None
  Parts = 1
  NetworkFails = FALSE
  Hanging = {}
SYMMETRY Symmetry
INVARIANTS ReloadCanFetchBack
CHECK_DEADLOCK FALSE
