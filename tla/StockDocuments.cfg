CONSTANTS
  Requests = {r1, r2, r3}
  Tenants = {t1, t2}
  Old = old
  OldTenant = t1
  Null = null
SPECIFICATION Spec
INVARIANTS TypeOK StatusTellsStock NumbersUnique LinesHaveDocuments
PROPERTIES EveryRequestAnswered
