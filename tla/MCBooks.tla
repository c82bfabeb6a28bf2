-------------------------------- MODULE MCBooks --------------------------------
(***************************************************************************)
(* Books for TLC: three days, two accounts, and entries that balance (with *)
(* a negative debit), that are off by a cent and by two, in cents.  At the *)
(* start there is a posted entry and a draft.  A cent is 999 grains and a double has ten binary    *)
(* digits, so that few amounts are doubles, and the largest is more than   *)
(* all entries together.                                                   *)
(***************************************************************************)
EXTENDS Books

CONSTANTS a1, a2, e0, e1

MCFirstSpan == <<1, 2>>
MCSpans == {<<1, 2>>, <<2, 3>>, <<3, 3>>}
MCJournals ==
  {<<[account |-> a1, debit |-> 5, credit |-> 0], [account |-> a2, debit |-> -5, credit |-> 0]>>,
   <<[account |-> a1, debit |-> 3, credit |-> 1], [account |-> a2, debit |-> 0, credit |-> 1]>>,
   <<[account |-> a2, debit |-> 4, credit |-> 0], [account |-> a1, debit |-> 0, credit |-> 2]>>}

Balanced == CHOOSE js \in MCJournals : js[1].debit = 5
OffByOne == CHOOSE js \in MCJournals : js[1].debit = 3
MCOldEntry ==
  [e \in OldEntries |->
     IF e = e0 THEN [date |-> 2, lines |-> OffByOne, status |-> "POSTED", created |-> 0]
     ELSE [date |-> 2, lines |-> Balanced, status |-> "DRAFT", created |-> 1]]

PowersOfTwo == {2 ^ k : k \in 0 .. 5}
\* The distance of the doubles next to x, and the nearest one, or of two as near the
\* even one.
Gap(x) == LET m == IF x < 0 THEN -x ELSE x
          IN CHOOSE g \in PowersOfTwo : m < 1024 * g /\ (g > 1 => m >= 512 * g)
Nearest(x) ==
  LET g == Gap(x)
      below == x \div g
      rest == x % g
  IN IF 2 * rest < g \/ (2 * rest = g /\ below % 2 = 0) THEN g * below ELSE g * (below + 1)
MCRound == [x \in -Largest .. Largest |-> Nearest(x)]
================================================================================
