\* Up to five calls on one account: logins, password changes and resets, role changes, requests of a session.
CONSTANTS
  Requests = {r1, r2, r3, r4, r5}
  First = first
  Permissions = {p1}
  Loads <- MCLoads
SYMMETRY Symmetry
SPECIFICATION Spec
INVARIANTS SessionsTypeOK CacheIsCurrent PermissionsWereEffective OneUsableToken
PROPERTIES AccountIsAtomic
CHECK_DEADLOCK FALSE
