CONSTANTS
  Requests = {r1, r2, r3}
  SalesStart = {}
  PurchaseStart = {p1}
  c1 = c1
  c2 = c2
  digits = digits
  Tickets = {c1, c2}
  EmptyTickets = {c2}
  PrefixOf <- MCPrefixOf
  Ticks = {1}
  Batches <- MCBatches
  Null = null
SPECIFICATION Spec
INVARIANTS TypeOK TicketsWhole SyncedStored
PROPERTIES SalesFollowTheirFlow PurchasesFollowTheirFlow EveryRequestAnswered
