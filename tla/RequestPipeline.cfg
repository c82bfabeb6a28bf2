CONSTANTS
  Requests = {r1, r2, r3}
  Tenants = {t1, t2}
  Connections = {c1, c2}
  Routes <- MCRoutes
  Second = {r1, r2}
  Null = null
SPECIFICATION Spec
INVARIANTS TypeOK TenantIsolation ConnectionsHeld
PROPERTIES AnsweredUnlessExhausted
\* Requests that all wait for a second connection stop the server for good.
CHECK_DEADLOCK FALSE
