\* Finding: a comment under a deleted post or root cannot be deleted.
SPECIFICATION ThreadSpec
CONSTANTS
  u1 = u1
  u2 = u2
  p1 = p1
  r1 = r1
  r2 = r2
  r3 = r3
  r4 = r4
  None = None
  Users <- TwoUsers
  Posts <- OnePost
  PostAuthor <- AuthorIsU1
  Requests <- FourCalls
  CallSpace <- OneThread
INVARIANT DeletionIsNotRefused
CHECK_DEADLOCK FALSE
