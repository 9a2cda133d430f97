\* Three calls of every kind.
\* The calls end, and then nothing happens any more.
SPECIFICATION Spec
CONSTANTS
  u1 = u1
  u2 = u2
  p1 = p1
  r1 = r1
  r2 = r2
  r3 = r3
  r4 = r4
  None = None
  Users <- TwoUsers
  Posts <- OnePost
  PostAuthor <- AuthorIsU1
  Requests <- ThreeCalls
  CallSpace <- EveryCall
INVARIANT CommentsInv
PROPERTIES ThreadsStayLive IndexIsTold
CHECK_DEADLOCK FALSE
