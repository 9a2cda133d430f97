\* Two writes, with retries, and a search, under fairness.
\* When the jobs are worked off and no document is left nothing happens any more.
SPECIFICATION FairSpec
CONSTANTS
  w1 = w1
  w2 = w2
  w3 = w3
  s1 = s1
  author = author
  other = other
  Viewers <- BothViewers
  Hidings <- EitherWay
  Author = author
  Writes <- TwoWrites
  Searches <- OneSearch
  MaxAttempts = 2
PROPERTIES AnswersFitTheViewer JobsSettle
CHECK_DEADLOCK FALSE
