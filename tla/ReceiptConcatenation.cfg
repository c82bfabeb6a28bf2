CONSTANTS
  Requests = {r1}
  p1 = p1
  l1 = l1
  l2 = l2
  rcp = rcp
  ret = ret
  iss = iss
  Products = {p1}
  Locations = {l1, l2}
  Receipts = {rcp, ret}
  Issues = {iss}
  Lines <- MCLines
  Deltas <- MCDeltas
  Amounts <- MCAmounts
  InitialStock <- MCInitialStock
  Seed = seed
  Null = null
SPECIFICATION Spec
PROPERTIES ReceiptBooksItsLines
