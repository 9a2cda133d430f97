\* Finding: two follow messages of the same follower.
SPECIFICATION Spec
CONSTANTS
  u1 = u1
  u2 = u2
  j1 = j1
  j2 = j2
  l1 = l1
  Users <- TwoUsers
  Jobs <- TwoJobs
  ArgSpace <- SameFollow
  Lists <- NoList
  MaxAttempts = 1
  PageSize = 1
INVARIANT OneFollowMessage
