\* Two concurrent calls on two keys: creations (also of both keys at once),
\* rotations, revocations and metadata updates.
CONSTANTS
  Keys = {k1, k2}
  Procs = {p1, p2}
  MaxVersion = 2
  MaxCalls = 3
  MaxRetries = 2
SPECIFICATION FairSpec
INVARIANTS TypeOK VersionsContiguous OnlyLatestActive AckedDurable OneVersionPerCall RotationIsolated
PROPERTIES StatusOrder CallsReturn ImplementsVersionedKeys
