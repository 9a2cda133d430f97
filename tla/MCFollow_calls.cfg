\* Three calls of every kind between three users and a uid nobody has, or four
\* that add and remove one edge.
\* The calls end, and then nothing happens any more.
SPECIFICATION CallsSpec
CONSTANTS
  u1 = u1
  u2 = u2
  u3 = u3
  ghost = ghost
  r1 = r1
  r2 = r2
  r3 = r3
  r4 = r4
  NoReq = NoReq
  Users <- ThreeUsers
  Uids <- WithGhost
  Requests <- FourCalls
  CallSpace <- EveryCall
SYMMETRY CallSymmetry
INVARIANTS TypeOK CountsMatchEdges EdgesJoinUsers ClampNeverBites
PROPERTIES OutboxFollowsEdges ImplementsPromise
CHECK_DEADLOCK FALSE
