\* Three callers, two workers and channels that hold two items, so that both
\* channels fill up.
CONSTANTS
  Keys = {k1}
  Callers = {c1, c2, c3}
  Workers = {w1, w2}
  QueueDepth = 2
SPECIFICATION FairSpec
INVARIANTS TypeOK Conservation
PROPERTY WaitersServed
