\* Two callers that rotate different keys.
CONSTANTS
  Keys = {k1, k2}
  Callers = {c1, c2}
  Workers = {w1}
  QueueDepth = 1
SPECIFICATION Spec
PROPERTY ReplyIsForTheKey
