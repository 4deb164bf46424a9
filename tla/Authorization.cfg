\* Two clients, one key, two concurrent requests, two client files.
CONSTANTS
  Users = {"u1", "u2"}
  RoleOps <- MCRoleOps
  ClientFiles <- MCClientFiles
  Keys = {k1}
  Reqs = {r1, r2}
  Methods = {"GetKey", "CreateKey"}
  Tiers = {"free", "pro"}
  EnforceMTLS = TRUE
  NoKey = NoKey
SPECIFICATION Spec
SYMMETRY Symmetry
INVARIANTS TypeOK RunAuthorised
