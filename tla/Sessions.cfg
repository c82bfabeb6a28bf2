CONSTANTS
  Requests = {r1, r2, r3, r4}
  Users = {u1, u2}
  Tenants = {t1}
  Null = null
SPECIFICATION SessionsSpec
INVARIANTS OneTokenPerSession
SYMMETRY MCSymmetry
