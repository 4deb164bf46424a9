\* Two calls on the two cache keys of one id, every kind of write, expiry and
\* the cleanup goroutine.
CONSTANTS
  Ids = {i1}
  Suffixes = {latest, v1}
  Procs = {p1, p2}
  Cleaner = Cleaner
  Free = Free
  WriteKinds = {"single", "unknown", "batch"}
  MaxWrites = 2
SPECIFICATION FairSpec
INVARIANTS TypeOK IndexCovers LockDiscipline NoLockCycle InvalidationComplete
PROPERTY CallsReturn
