CONSTANTS
  Requests = {r1, r2}
  Tenants = {t1}
  Old = old
  OldTenant = t1
  Null = null
SPECIFICATION Spec
INVARIANTS StockMovesOnce
