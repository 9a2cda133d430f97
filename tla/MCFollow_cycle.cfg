\* Three users follow each other, under fairness.
\* The calls end, and then nothing happens any more.
SPECIFICATION FairSpec
CONSTANTS
  u1 = u1
  u2 = u2
  u3 = u3
  ghost = ghost
  r1 = r1
  r2 = r2
  r3 = r3
  r4 = r4
  NoReq = NoReq
  Users <- ThreeUsers
  Uids <- ThreeUsers
  Requests <- ThreeCalls
  CallSpace <- Follows
INVARIANT DeadlockIsFollowCycle
PROPERTY EveryCallEnds
CHECK_DEADLOCK FALSE
