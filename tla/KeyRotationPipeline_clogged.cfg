\* Callers that give up until nothing moves.
CONSTANTS
  Keys = {k1}
  Callers = {c1}
  Workers = {w1}
  QueueDepth = 1
SPECIFICATION FairSpec
PROPERTY QueueDrains
