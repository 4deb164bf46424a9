\* A read that overlaps with one revocation.
CONSTANTS
  Ids = {i1}
  Suffixes = {latest, v1}
  Procs = {p1, p2}
  Cleaner = Cleaner
  Free = Free
  WriteKinds = {"single"}
  MaxWrites = 1
SPECIFICATION Spec
INVARIANT RevokedNotServed
