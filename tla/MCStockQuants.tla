---------------------------- MODULE MCStockQuants ----------------------------
(* Finite instances of StockQuants for TLC.                                  *)
EXTENDS StockQuants

CONSTANTS p1, l1, l2, rcp, ret, iss

\* A receipt that names the same product on two lines, a receipt of which the first
\* line is negative, as for goods sent back, and an issue over two places with a
\* negative line: the later lines of each are processed after writes of the first.
MCLines ==
  [d \in {rcp, ret, iss} |->
     CASE d = rcp -> <<[key |-> <<p1, l1>>, qty |-> 2], [key |-> <<p1, l1>>, qty |-> 1]>>
       [] d = ret -> <<[key |-> <<p1, l2>>, qty |-> -2], [key |-> <<p1, l2>>, qty |-> 3]>>
       [] d = iss -> <<[key |-> <<p1, l1>>, qty |-> 1], [key |-> <<p1, l2>>, qty |-> 1],
                       [key |-> <<p1, l2>>, qty |-> -1]>>]

MCDeltas == {-1, 2}
MCAmounts == {1}

\* Two units at l1 and none at l2 (no row), or one unit at each.
MCInitialStock ==
  {[row \in Rows |-> IF row = <<<<p1, l1>>, Seed>> THEN 2 ELSE Null],
   [row \in Rows |-> IF row \in {<<<<p1, l1>>, Seed>>, <<<<p1, l2>>, Seed>>} THEN 1 ELSE Null]}
==============================================================================
