\* Two jobs, a list call, deletions and MarkAll, under fairness.
SPECIFICATION FairSpec
CONSTANTS
  u1 = u1
  u2 = u2
  j1 = j1
  j2 = j2
  l1 = l1
  Users <- TwoUsers
  Jobs <- TwoJobs
  ArgSpace <- Events
  Lists <- OneList
  MaxAttempts = 2
  PageSize = 1
INVARIANTS InboxInv DuplicatesOverlapped
PROPERTIES ArchivedStaysArchived JobsSettle
