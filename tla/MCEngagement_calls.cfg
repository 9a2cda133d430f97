\* Any three calls, or four on the likes of one post.
\* The calls end, and then nothing happens any more.
SPECIFICATION CallsSpec
CONSTANTS
  u1 = u1
  u2 = u2
  p1 = p1
  c1 = c1
  ghost = ghost
  r1 = r1
  r2 = r2
  r3 = r3
  r4 = r4
  NoReq = NoReq
  Users <- TwoUsers
  Posts <- OnePost
  Comments <- OneComment
  Requests <- FourCalls
  CallSpace <- EveryCall
SYMMETRY CallSymmetry
INVARIANTS TypeOK CountsMatchEdges NoDeadlock
PROPERTIES AnswersAreExact JobsFollowCounts
CHECK_DEADLOCK FALSE
