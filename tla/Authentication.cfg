\* Two clients, two tokens at a time, two concurrent requests, two client files.
CONSTANTS
  Users = {"u1", "u2"}
  Roles = {"admin", "member"}
  ClientFiles <- MCClientFiles
  Tokens = {t1, t2}
  Reqs = {r1, r2}
  TokenTTL = 2
  Burst = 2
  Rate = 1
SPECIFICATION Spec
SYMMETRY Symmetry
INVARIANTS TypeOK RevokedRejected RateBounded
PROPERTY FileTakesEffect
