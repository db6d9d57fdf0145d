\* Two pages of a browser, open one after the other or together, and a turn that
\* may hang.
SPECIFICATION FairSpec
CONSTANTS
  Pages = {p1, p2}
  Ids = {id1, id2}
  Questions = {q1, q2}
  None = None
  Parts = 2
  NetworkFails = TRUE
  Hanging = {q2}
INVARIANTS PageTypeOK AnswersUnderQuestions OneTurnAtATime AnswersAreWhole
PROPERTIES InputFreed
CHECK_DEADLOCK FALSE
