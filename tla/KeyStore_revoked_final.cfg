\* Rotation of a revoked key.
CONSTANTS
  Keys = {k1}
  Procs = {p1, p2}
  MaxVersion = 3
  MaxCalls = 3
  MaxRetries = 2
SPECIFICATION Spec
PROPERTY RevokedIsFinal
