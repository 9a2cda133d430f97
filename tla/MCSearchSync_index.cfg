\* Three writes, with retries.
\* When the jobs are worked off nothing happens any more.
SPECIFICATION Spec
CONSTANTS
  w1 = w1
  w2 = w2
  w3 = w3
  s1 = s1
  author = author
  other = other
  Viewers <- BothViewers
  Hidings <- PublicOnly
  Author = author
  Writes <- ThreeWrites
  Searches <- NoSearch
  MaxAttempts = 2
SYMMETRY WriteSymmetry
INVARIANT IndexInv
CHECK_DEADLOCK FALSE
