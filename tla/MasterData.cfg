CONSTANTS
  Requests = {r1, r2, r3}
  Root = root
  Leaf = leaf
  Codes = {c1, c2}
  RootCode = c1
  LeafCode = c2
  Null = null
SPECIFICATION Spec
INVARIANTS TypeOK KeysHold UndisturbedRowsAreAsAsked
SYMMETRY MCSymmetry
