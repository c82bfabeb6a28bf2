---------------------------------- MODULE Sums ----------------------------------
(***************************************************************************)
(* Facts about SumFunctionOnSet, the sum of the values of a function over  *)
(* a finite set, for the proofs about StockQuants and Books.               *)
(*                                                                         *)
(* The induction theorems of the library take a predicate as a parameter.  *)
(* Here what is to be proved of every set is membership in a set C, and    *)
(* the induction is over that: a non-empty set of finite sets has a        *)
(* minimal member, because inclusion is well founded on them.             *)
(***************************************************************************)
EXTENDS Integers, FiniteSets, Functions, FiniteSetTheorems, WellFoundedInduction, TLAPS

\* A non-empty set of subsets of a finite set has a minimal member.
LEMMA SmallestSet ==
  ASSUME NEW S, IsFiniteSet(S), NEW C, C \subseteq SUBSET S, C # {}
  PROVE  \E T \in C : \A U \in SUBSET T : U \in C => U = T
<1>1. IsWellFoundedOn(StrictSubsetOrdering(S), FiniteSubsetsOf(S))
  BY FS_StrictSubsetOrderingWellFounded
<1>2. FiniteSubsetsOf(S) = SUBSET S
  BY FS_FiniteSubsetsOfFinite
<1>3. PICK T \in C : \A U \in C : <<U, T>> \notin StrictSubsetOrdering(S)
  BY <1>1, <1>2, WFMin
<1>4. ASSUME NEW U \in SUBSET T, U \in C, U # T PROVE FALSE
  BY <1>3, <1>4 DEF StrictSubsetOrdering
<1> QED BY <1>3, <1>4

\* Induction over the subsets of a finite set, one member after the other.
LEMMA SetInduction ==
  ASSUME NEW S, IsFiniteSet(S), NEW C, {} \in C,
         \A T \in SUBSET S, x \in S : T \in C /\ x \notin T => T \cup {x} \in C
  PROVE  S \in C
<1> DEFINE D == {T \in SUBSET S : T \notin C}
<1>1. ASSUME S \notin C PROVE FALSE
  <2>1. S \in D
    BY <1>1
  <2>2. PICK T \in D : \A U \in SUBSET T : U \in D => U = T
    <3>1. D \subseteq SUBSET S /\ D # {}
      BY <2>1
    <3> HIDE DEF D
    <3> QED BY <3>1, SmallestSet
  <2>3. PICK x \in T : TRUE
    BY <2>2
  <2>4. T \ {x} \in SUBSET T /\ T \ {x} # T /\ T \in SUBSET S /\ T \notin C
    BY <2>2, <2>3
  <2>5. T \ {x} \in C
    BY <2>2, <2>4
  <2>6. (T \ {x}) \cup {x} = T
    BY <2>3
  <2>7. T \ {x} \in SUBSET S /\ x \in S /\ x \notin T \ {x}
    BY <2>4, <2>3
  <2>8. (T \ {x}) \cup {x} \in C
    BY <2>5, <2>7
  <2> QED BY <2>4, <2>6, <2>8
<1> QED BY <1>1

\* Induction over the natural numbers, by the subsets of 1 .. n.
LEMMA NumberInduction ==
  ASSUME NEW C, 0 \in C, \A n \in Nat : n \in C => n + 1 \in C
  PROVE  \A n \in Nat : n \in C
<1> SUFFICES ASSUME NEW n \in Nat PROVE n \in C
  OBVIOUS
<1> DEFINE S == 1 .. n
           D == {T \in SUBSET S : \A k \in 0 .. n : Cardinality(T) = k => k \in C}
<1>1. IsFiniteSet(S) /\ Cardinality(S) = n
  BY FS_Interval
<1>2. {} \in D
  BY FS_EmptySet
<1>3. ASSUME NEW T \in SUBSET S, NEW x \in S, T \in D, x \notin T PROVE T \cup {x} \in D
  <2>1. IsFiniteSet(T) /\ Cardinality(T) \in Nat
    BY <1>1, FS_Subset, FS_CardinalityType
  <2>2. Cardinality(T \cup {x}) = Cardinality(T) + 1
    BY <2>1, <1>3, FS_AddElement
  <2> HIDE DEF S
  <2>3. ASSUME NEW k \in 0 .. n, Cardinality(T \cup {x}) = k PROVE k \in C
    <3>1. Cardinality(T) \in 0 .. n /\ k = Cardinality(T) + 1
      BY <2>1, <2>2, <2>3
    <3>2. Cardinality(T) \in C
      BY <3>1, <1>3
    <3> QED BY <3>1, <3>2
  <2> QED BY <2>3
<1>4. S \in D
  <2> HIDE DEF S, D
  <2> QED BY <1>1, <1>2, <1>3, SetInduction
<1> QED BY <1>1, <1>4

\* g is the recursive function that sums f up over the subsets of T.
SumsUp(f, T, g) ==
  g = [u \in SUBSET T |-> IF u = {} THEN 0
                          ELSE f[CHOOSE x \in u : TRUE] + g[u \ {CHOOSE x \in u : TRUE}]]

\* SumFunctionOnSet is the value at T of a function that sums f up.
LEMMA SumIsRecursive ==
  ASSUME NEW f, NEW T
  PROVE  SumFunctionOnSet(f, T) = (CHOOSE g : SumsUp(f, T, g))[T]
BY DEF SumFunctionOnSet, FoldFunctionOnSet, MapThenFoldSet, SumsUp

\* There is only one such function,
LEMMA SumsUnique ==
  ASSUME NEW f, NEW T, IsFiniteSet(T), NEW g, NEW h, SumsUp(f, T, g), SumsUp(f, T, h)
  PROVE  g = h
<1> DEFINE D == {u \in SUBSET T : g[u] # h[u]}
<1>1. ASSUME D # {} PROVE FALSE
  <2>1. PICK u \in D : \A v \in SUBSET u : v \in D => v = u
    <3>1. D \subseteq SUBSET T
      OBVIOUS
    <3> HIDE DEF D
    <3> QED BY <3>1, <1>1, SmallestSet
  <2> DEFINE x == CHOOSE x \in u : TRUE
  <2>2. CASE u = {}
    BY <2>1, <2>2 DEF SumsUp
  <2>3. CASE u # {}
    <3>1. x \in u
      BY <2>3
    <3>2. u \in SUBSET T /\ u \ {x} \in SUBSET T /\ u \ {x} # u /\ u \ {x} \in SUBSET u
      BY <3>1, <2>1
    <3>3. g[u \ {x}] = h[u \ {x}]
      BY <3>2, <2>1
    <3>4. g[u] = f[x] + g[u \ {x}] /\ h[u] = f[x] + h[u \ {x}]
      BY <2>3, <3>2 DEF SumsUp
    <3> QED BY <3>3, <3>4, <2>1
  <2> QED BY <2>2, <2>3
<1>2. \A u \in SUBSET T : g[u] = h[u]
  BY <1>1
<1>3. g = [u \in SUBSET T |-> g[u]] /\ h = [u \in SUBSET T |-> h[u]]
  BY DEF SumsUp
<1> QED BY <1>2, <1>3

\* its restriction to the subsets of U is the one of U,
LEMMA SumsRestrict ==
  ASSUME NEW f, NEW T, NEW g, SumsUp(f, T, g), NEW U \in SUBSET T
  PROVE  SumsUp(f, U, [u \in SUBSET U |-> g[u]])
<1> DEFINE h == [u \in SUBSET U |-> g[u]]
           x(u) == CHOOSE x \in u : TRUE
<1>1. ASSUME NEW u \in SUBSET U
      PROVE  h[u] = IF u = {} THEN 0 ELSE f[x(u)] + h[u \ {x(u)}]
  <2>1. u \in SUBSET T /\ u \ {x(u)} \in SUBSET U /\ h[u] = g[u] /\ h[u \ {x(u)}] = g[u \ {x(u)}]
    OBVIOUS
  <2>2. g[u] = IF u = {} THEN 0 ELSE f[x(u)] + g[u \ {x(u)}]
    BY <2>1 DEF SumsUp
  <2> QED BY <2>1, <2>2
<1>2. h = [u \in SUBSET U |-> IF u = {} THEN 0 ELSE f[x(u)] + h[u \ {x(u)}]]
  BY <1>1
<1> QED BY <1>2 DEF SumsUp

\* and there is one for every finite set,
LEMMA SumsExist ==
  ASSUME NEW f, NEW T, IsFiniteSet(T)
  PROVE  \E g : SumsUp(f, T, g)
<1> DEFINE D == {u \in SUBSET T : ~\E g : SumsUp(f, u, g)}
<1> SUFFICES ASSUME D # {} PROVE FALSE
  OBVIOUS
<1>1. PICK u \in D : \A v \in SUBSET u : v \in D => v = u
  <2>1. D \subseteq SUBSET T
    OBVIOUS
  <2> HIDE DEF D
  <2> QED BY <2>1, SmallestSet
<1> DEFINE G(v) == CHOOSE g : SumsUp(f, v, g)
           x(v) == CHOOSE x \in v : TRUE
           h == [v \in SUBSET u |-> IF v = {} THEN 0 ELSE f[x(v)] + G(v \ {x(v)})[v \ {x(v)}]]
<1>2. ASSUME NEW v \in SUBSET u, v # u PROVE SumsUp(f, v, G(v)) /\ IsFiniteSet(v)
  <2>1. v \in SUBSET T /\ v \notin D
    BY <1>1, <1>2
  <2>2. \E g : SumsUp(f, v, g)
    BY <2>1
  <2>3. IsFiniteSet(v)
    BY <2>1, FS_Subset
  <2> QED BY <2>2, <2>3
<1>3. ASSUME NEW w \in SUBSET u, w # u PROVE h[w] = G(w)[w]
  <2> HIDE DEF G
  <2>1. CASE w = {}
    <3>1. h[w] = 0
      BY <2>1
    <3>2. SumsUp(f, w, G(w)) /\ w \in SUBSET w
      BY <1>2, <1>3
    <3>3. G(w)[w] = 0
      BY <2>1, <3>2 DEF SumsUp
    <3> QED BY <3>1, <3>3
  <2>2. CASE w # {}
    <3> DEFINE y == w \ {x(w)}
    <3>1. x(w) \in w
      BY <2>2
    <3>2. y \in SUBSET w /\ y \in SUBSET u /\ y # u
      BY <3>1
    <3>3. SumsUp(f, y, [z \in SUBSET y |-> G(w)[z]])
      BY <3>2, <1>2, <1>3, SumsRestrict
    <3>4. G(y) = [z \in SUBSET y |-> G(w)[z]]
      BY <3>2, <3>3, <1>2, SumsUnique
    <3>5. G(y)[y] = G(w)[y]
      BY <3>4
    <3>6. G(w)[w] = f[x(w)] + G(w)[y]
      BY <1>2, <1>3, <2>2 DEF SumsUp
    <3>7. h[w] = f[x(w)] + G(y)[y]
      BY <2>2
    <3> QED BY <3>5, <3>6, <3>7
  <2> QED BY <2>1, <2>2
<1>4. ASSUME NEW v \in SUBSET u
      PROVE  h[v] = IF v = {} THEN 0 ELSE f[x(v)] + h[v \ {x(v)}]
  <2>1. CASE v = {}
    BY <2>1
  <2>2. CASE v # {}
    <3>1. x(v) \in v
      BY <2>2
    <3>2. v \ {x(v)} \in SUBSET u /\ v \ {x(v)} # u
      BY <3>1
    <3>3. h[v \ {x(v)}] = G(v \ {x(v)})[v \ {x(v)}]
      BY <3>2, <1>3
    <3> HIDE DEF G, x
    <3>4. h[v] = f[x(v)] + G(v \ {x(v)})[v \ {x(v)}]
      BY <2>2
    <3> QED BY <2>2, <3>3, <3>4
  <2> QED BY <2>1, <2>2
<1>5. SumsUp(f, u, h)
  <2>1. h = [v \in SUBSET u |-> h[v]]
    OBVIOUS
  <2> HIDE DEF h
  <2>2. h = [v \in SUBSET u |-> IF v = {} THEN 0 ELSE f[x(v)] + h[v \ {x(v)}]]
    BY <1>4, <2>1
  <2> QED BY <2>2 DEF SumsUp
<1> HIDE DEF h
<1> QED BY <1>1, <1>5

\* so that its values are the sums.
LEMMA SumsValue ==
  ASSUME NEW f, NEW T, IsFiniteSet(T), NEW U \in SUBSET T, NEW g, SumsUp(f, T, g)
  PROVE  SumFunctionOnSet(f, U) = g[U]
<1> DEFINE h == [u \in SUBSET U |-> g[u]]
           c == CHOOSE k : SumsUp(f, U, k)
<1>1. IsFiniteSet(U)
  BY FS_Subset
<1>2. SumsUp(f, U, h)
  BY SumsRestrict
<1>3. h[U] = g[U]
  OBVIOUS
<1> HIDE DEF h
<1>4. SumsUp(f, U, c)
  BY <1>2
<1>5. c = h
  <2> HIDE DEF c
  <2> QED BY <1>1, <1>2, <1>4, SumsUnique
<1> QED BY <1>3, <1>5, SumIsRecursive

\* The sum over no members is 0.
LEMMA SumEmpty ==
  ASSUME NEW f
  PROVE  SumFunctionOnSet(f, {}) = 0
<1>1. IsFiniteSet({})
  BY FS_EmptySet
<1>2. PICK g : SumsUp(f, {}, g)
  BY <1>1, SumsExist
<1>3. SumFunctionOnSet(f, {}) = g[{}]
  BY <1>1, <1>2, SumsValue
<1> QED BY <1>2, <1>3 DEF SumsUp

\* A sum is one of its terms and the sum of the others; SumRemove says any of them.
LEMMA SumChoose ==
  ASSUME NEW f, NEW T, IsFiniteSet(T), T # {}
  PROVE  \E x \in T : SumFunctionOnSet(f, T) = f[x] + SumFunctionOnSet(f, T \ {x})
<1>1. PICK g : SumsUp(f, T, g)
  BY SumsExist
<1> DEFINE x == CHOOSE x \in T : TRUE
<1>2. x \in T
  OBVIOUS
<1>3. g[T] = f[x] + g[T \ {x}]
  BY <1>1 DEF SumsUp
<1> HIDE DEF x
<1>4. SumFunctionOnSet(f, T) = g[T] /\ SumFunctionOnSet(f, T \ {x}) = g[T \ {x}]
  BY <1>1, SumsValue
<1> QED BY <1>2, <1>3, <1>4

\* A sum of integers is an integer.
LEMMA SumType ==
  ASSUME NEW f, NEW T, IsFiniteSet(T), \A x \in T : f[x] \in Int
  PROVE  SumFunctionOnSet(f, T) \in Int
<1> DEFINE D == {u \in SUBSET T : SumFunctionOnSet(f, u) \notin Int}
<1>1. ASSUME D # {} PROVE FALSE
  <2>1. PICK u \in D : \A v \in SUBSET u : v \in D => v = u
    <3>1. D \subseteq SUBSET T
      OBVIOUS
    <3> HIDE DEF D
    <3> QED BY <3>1, <1>1, SmallestSet
  <2>2. u # {}
    <3>1. SumFunctionOnSet(f, u) \notin Int
      BY <2>1
    <3> QED BY <3>1, SumEmpty
  <2>3. IsFiniteSet(u)
    BY <2>1, FS_Subset
  <2>4. PICK x \in u : SumFunctionOnSet(f, u) = f[x] + SumFunctionOnSet(f, u \ {x})
    BY <2>2, <2>3, SumChoose
  <2>5. u \ {x} \in SUBSET T /\ u \ {x} \in SUBSET u /\ u \ {x} # u
    BY <2>1
  <2>6. SumFunctionOnSet(f, u \ {x}) \in Int
    BY <2>1, <2>5
  <2>7. f[x] \in Int
    BY <2>1
  <2> QED BY <2>1, <2>4, <2>6, <2>7
<1> QED BY <1>1

\* A sum is any of its terms and the sum of the others.
LEMMA SumRemove ==
  ASSUME NEW f, NEW T, IsFiniteSet(T), \A x \in T : f[x] \in Int, NEW x \in T
  PROVE  SumFunctionOnSet(f, T) = f[x] + SumFunctionOnSet(f, T \ {x})
<1> DEFINE Good(u, y) == SumFunctionOnSet(f, u) = f[y] + SumFunctionOnSet(f, u \ {y})
           D == {u \in SUBSET T : \E y \in u : ~Good(u, y)}
<1>1. ASSUME D # {} PROVE FALSE
  <2>1. PICK u \in D : \A v \in SUBSET u : v \in D => v = u
    <3>1. D \subseteq SUBSET T
      OBVIOUS
    <3> HIDE DEF D
    <3> QED BY <3>1, <1>1, SmallestSet
  <2>2. PICK y \in u : ~Good(u, y)
    BY <2>1
  <2>3. IsFiniteSet(u)
    BY <2>1, FS_Subset
  <2>4. PICK c \in u : Good(u, c)
    BY <2>2, <2>3, SumChoose
  <2>5. y # c
    BY <2>2, <2>4
  <2>6. u \ {c} \in SUBSET u /\ u \ {c} # u /\ u \ {y} \in SUBSET u /\ u \ {y} # u /\ u \in SUBSET T
    BY <2>1, <2>2, <2>4
  <2>7. Good(u \ {c}, y) /\ Good(u \ {y}, c)
    <3>1. u \ {c} \notin D /\ u \ {y} \notin D
      BY <2>6, <2>1
    <3>2. y \in u \ {c} /\ c \in u \ {y} /\ u \ {c} \in SUBSET T /\ u \ {y} \in SUBSET T
      BY <2>2, <2>4, <2>5, <2>6
    <3> HIDE DEF Good
    <3> QED BY <3>1, <3>2
  <2>8. (u \ {c}) \ {y} = (u \ {y}) \ {c}
    OBVIOUS
  <2>9. SumFunctionOnSet(f, (u \ {c}) \ {y}) \in Int
    <3>1. IsFiniteSet((u \ {c}) \ {y})
      BY <2>3, FS_RemoveElement
    <3>2. \A z \in (u \ {c}) \ {y} : f[z] \in Int
      BY <2>6
    <3> QED BY <3>1, <3>2, SumType
  <2>10. f[c] \in Int /\ f[y] \in Int
    BY <2>6, <2>2, <2>4
  <2>11. Good(u, y)
    <3> DEFINE rest == SumFunctionOnSet(f, (u \ {c}) \ {y})
    <3>1. SumFunctionOnSet(f, u) = f[c] + (f[y] + rest)
      BY <2>4, <2>7
    <3>2. SumFunctionOnSet(f, u \ {y}) = f[c] + rest
      BY <2>7, <2>8
    <3>3. \A i, j, k \in Int : i + (j + k) = j + (i + k)
      OBVIOUS
    <3> QED BY <3>1, <3>2, <3>3, <2>9, <2>10
  <2> QED BY <2>2, <2>11
<1>2. Good(T, x)
  BY <1>1
<1> QED BY <1>2

\* A sum with one member more.
LEMMA SumAdd ==
  ASSUME NEW f, NEW T, IsFiniteSet(T), NEW x, x \notin T, \A y \in T \cup {x} : f[y] \in Int
  PROVE  SumFunctionOnSet(f, T \cup {x}) = f[x] + SumFunctionOnSet(f, T)
<1>1. IsFiniteSet(T \cup {x})
  BY FS_AddElement
<1>2. (T \cup {x}) \ {x} = T
  OBVIOUS
<1> QED BY <1>1, <1>2, SumRemove

\* The sum over one member.
LEMMA SumSingleton ==
  ASSUME NEW f, NEW x, f[x] \in Int
  PROVE  SumFunctionOnSet(f, {x}) = f[x]
<1>1. IsFiniteSet({}) /\ {} \cup {x} = {x} /\ x \notin {} /\ \A y \in {} \cup {x} : f[y] \in Int
  BY FS_EmptySet
<1>2. SumFunctionOnSet(f, {} \cup {x}) = f[x] + SumFunctionOnSet(f, {})
  BY <1>1, SumAdd
<1> QED BY <1>1, <1>2, SumEmpty

\* Functions with the same values have the same sum.
LEMMA SumSame ==
  ASSUME NEW f, NEW g, NEW T, IsFiniteSet(T), \A x \in T : f[x] \in Int /\ f[x] = g[x]
  PROVE  SumFunctionOnSet(f, T) = SumFunctionOnSet(g, T)
<1> DEFINE C == {u \in SUBSET T : SumFunctionOnSet(f, u) = SumFunctionOnSet(g, u)}
<1>1. {} \in C
  BY SumEmpty
<1>2. ASSUME NEW u \in SUBSET T, NEW x \in T, u \in C, x \notin u PROVE u \cup {x} \in C
  <2>1. IsFiniteSet(u)
    BY FS_Subset
  <2>2. \A y \in u \cup {x} : f[y] \in Int /\ g[y] \in Int /\ f[y] = g[y]
    OBVIOUS
  <2>3. SumFunctionOnSet(f, u \cup {x}) = f[x] + SumFunctionOnSet(f, u) /\ SumFunctionOnSet(g, u \cup {x}) = g[x] + SumFunctionOnSet(g, u)
    BY <2>1, <2>2, <1>2, SumAdd
  <2> QED BY <2>3, <1>2
<1>3. T \in C
  <2> HIDE DEF C
  <2> QED BY <1>1, <1>2, SetInduction
<1> QED BY <1>3

\* A function with another value at x only.
LEMMA SumChanged ==
  ASSUME NEW f, NEW g, NEW T, IsFiniteSet(T), NEW x \in T,
         \A y \in T : f[y] \in Int /\ g[y] \in Int, \A y \in T \ {x} : g[y] = f[y]
  PROVE  SumFunctionOnSet(g, T) = SumFunctionOnSet(f, T) + (g[x] - f[x])
<1> DEFINE rest == SumFunctionOnSet(f, T \ {x})
<1>1. IsFiniteSet(T \ {x}) /\ \A y \in T \ {x} : f[y] \in Int /\ f[y] = g[y]
  BY FS_RemoveElement
<1>2. rest \in Int /\ f[x] \in Int /\ g[x] \in Int
  BY <1>1, SumType
<1>3. SumFunctionOnSet(g, T \ {x}) = rest
  BY <1>1, SumSame
<1>4. SumFunctionOnSet(f, T) = f[x] + rest /\ SumFunctionOnSet(g, T) = g[x] + SumFunctionOnSet(g, T \ {x})
  BY SumRemove
<1>5. \A i, j, k \in Int : j + k = (i + k) + (j - i)
  OBVIOUS
<1> QED BY <1>2, <1>3, <1>4, <1>5

\* The sum over two sets apart.
LEMMA SumUnion ==
  ASSUME NEW f, NEW T, IsFiniteSet(T), NEW U, IsFiniteSet(U), T \cap U = {},
         \A x \in T \cup U : f[x] \in Int
  PROVE  SumFunctionOnSet(f, T \cup U) = SumFunctionOnSet(f, T) + SumFunctionOnSet(f, U)
<1> DEFINE C == {u \in SUBSET U : SumFunctionOnSet(f, T \cup u) = SumFunctionOnSet(f, T) + SumFunctionOnSet(f, u)}
<1>0. SumFunctionOnSet(f, T) \in Int
  BY SumType
<1>1. {} \in C
  <2>1. T \cup {} = T
    OBVIOUS
  <2> QED BY <2>1, <1>0, SumEmpty
<1>2. ASSUME NEW u \in SUBSET U, NEW x \in U, u \in C, x \notin u PROVE u \cup {x} \in C
  <2>1. IsFiniteSet(u) /\ IsFiniteSet(T \cup u)
    BY FS_Subset, FS_Union
  <2>2. x \notin T \cup u /\ (T \cup u) \cup {x} = T \cup (u \cup {x})
    BY <1>2
  <2>3. SumFunctionOnSet(f, u \cup {x}) = f[x] + SumFunctionOnSet(f, u)
    BY <2>1, <1>2, SumAdd
  <2>4. SumFunctionOnSet(f, (T \cup u) \cup {x}) = f[x] + SumFunctionOnSet(f, T \cup u)
    BY <2>1, <2>2, SumAdd
  <2>5. SumFunctionOnSet(f, u) \in Int /\ f[x] \in Int
    BY <2>1, SumType
  <2>6. SumFunctionOnSet(f, T \cup u) = SumFunctionOnSet(f, T) + SumFunctionOnSet(f, u)
    BY <1>2
  <2>7. SumFunctionOnSet(f, T \cup (u \cup {x})) = SumFunctionOnSet(f, T) + SumFunctionOnSet(f, u \cup {x})
    <3>1. SumFunctionOnSet(f, T \cup (u \cup {x})) = f[x] + (SumFunctionOnSet(f, T) + SumFunctionOnSet(f, u))
      BY <2>2, <2>4, <2>6
    <3>2. \A i, j, k \in Int : i + (j + k) = j + (i + k)
      OBVIOUS
    <3>3. f[x] + (SumFunctionOnSet(f, T) + SumFunctionOnSet(f, u)) = SumFunctionOnSet(f, T) + (f[x] + SumFunctionOnSet(f, u))
      BY <3>2, <2>5, <1>0
    <3> QED BY <3>1, <3>3, <2>3
  <2> QED BY <2>7
<1>3. U \in C
  <2> HIDE DEF C
  <2> QED BY <1>1, <1>2, SetInduction
<1> QED BY <1>3

\* The sum of a sum of two functions.
LEMMA SumPlus ==
  ASSUME NEW f, NEW g, NEW h, NEW T, IsFiniteSet(T),
         \A x \in T : f[x] \in Int /\ g[x] \in Int /\ h[x] = f[x] + g[x]
  PROVE  SumFunctionOnSet(h, T) = SumFunctionOnSet(f, T) + SumFunctionOnSet(g, T)
<1> DEFINE C == {u \in SUBSET T : SumFunctionOnSet(h, u) = SumFunctionOnSet(f, u) + SumFunctionOnSet(g, u)}
<1>1. {} \in C
  BY SumEmpty
<1>2. ASSUME NEW u \in SUBSET T, NEW x \in T, u \in C, x \notin u PROVE u \cup {x} \in C
  <2>1. IsFiniteSet(u)
    BY FS_Subset
  <2>2. \A y \in u \cup {x} : f[y] \in Int /\ g[y] \in Int /\ h[y] \in Int /\ h[y] = f[y] + g[y]
    OBVIOUS
  <2>3. /\ SumFunctionOnSet(f, u \cup {x}) = f[x] + SumFunctionOnSet(f, u)
        /\ SumFunctionOnSet(g, u \cup {x}) = g[x] + SumFunctionOnSet(g, u)
        /\ SumFunctionOnSet(h, u \cup {x}) = h[x] + SumFunctionOnSet(h, u)
    BY <2>1, <2>2, <1>2, SumAdd
  <2>4. SumFunctionOnSet(f, u) \in Int /\ SumFunctionOnSet(g, u) \in Int
    BY <2>1, <2>2, SumType
  <2>5. f[x] \in Int /\ g[x] \in Int /\ h[x] = f[x] + g[x] /\ SumFunctionOnSet(h, u) = SumFunctionOnSet(f, u) + SumFunctionOnSet(g, u)
    BY <2>2, <1>2
  <2>6. SumFunctionOnSet(h, u \cup {x}) = SumFunctionOnSet(f, u \cup {x}) + SumFunctionOnSet(g, u \cup {x})
    BY <2>3, <2>4, <2>5
  <2> QED BY <2>6
<1>3. T \in C
  <2> HIDE DEF C
  <2> QED BY <1>1, <1>2, SetInduction
<1> QED BY <1>3

\* The sum of a difference of two functions.
LEMMA SumMinus ==
  ASSUME NEW f, NEW g, NEW h, NEW T, IsFiniteSet(T),
         \A x \in T : f[x] \in Int /\ g[x] \in Int /\ h[x] = f[x] - g[x]
  PROVE  SumFunctionOnSet(h, T) = SumFunctionOnSet(f, T) - SumFunctionOnSet(g, T)
<1>1. \A x \in T : h[x] \in Int /\ g[x] \in Int /\ f[x] = h[x] + g[x]
  OBVIOUS
<1>2. SumFunctionOnSet(f, T) = SumFunctionOnSet(h, T) + SumFunctionOnSet(g, T)
  BY <1>1, SumPlus
<1>3. SumFunctionOnSet(h, T) \in Int /\ SumFunctionOnSet(g, T) \in Int
  BY <1>1, SumType
<1> QED BY <1>2, <1>3

\* A sum of natural numbers is one.
LEMMA SumNatural ==
  ASSUME NEW f, NEW T, IsFiniteSet(T), \A x \in T : f[x] \in Nat
  PROVE  SumFunctionOnSet(f, T) \in Nat
<1> DEFINE C == {u \in SUBSET T : SumFunctionOnSet(f, u) \in Nat}
<1>1. {} \in C
  BY SumEmpty
<1>2. ASSUME NEW u \in SUBSET T, NEW x \in T, u \in C, x \notin u PROVE u \cup {x} \in C
  <2>1. IsFiniteSet(u) /\ \A y \in u \cup {x} : f[y] \in Int
    BY FS_Subset
  <2>2. SumFunctionOnSet(f, u \cup {x}) = f[x] + SumFunctionOnSet(f, u)
    BY <1>2, <2>1, SumAdd
  <2>3. f[x] \in Nat /\ SumFunctionOnSet(f, u) \in Nat
    BY <1>2
  <2> QED BY <2>2, <2>3
<1>3. T \in C
  <2> HIDE DEF C
  <2> QED BY <1>1, <1>2, SetInduction
<1> QED BY <1>3

\* Terms within bounds on either side of zero add up within the sum of the bounds.
LEMMA SumBetween ==
  ASSUME NEW f, NEW g, NEW T, IsFiniteSet(T),
         \A x \in T : f[x] \in Int /\ g[x] \in Nat /\ -g[x] <= f[x] /\ f[x] <= g[x]
  PROVE  /\ -SumFunctionOnSet(g, T) <= SumFunctionOnSet(f, T)
         /\ SumFunctionOnSet(f, T) <= SumFunctionOnSet(g, T)
<1> DEFINE above == [x \in T |-> g[x] - f[x]]
           below == [x \in T |-> g[x] + f[x]]
<1>1. \A x \in T : /\ above[x] \in Nat /\ above[x] = g[x] - f[x]
                   /\ below[x] \in Nat /\ below[x] = g[x] + f[x]
                   /\ f[x] \in Int /\ g[x] \in Int
  OBVIOUS
<1> HIDE DEF above, below
<1>2. SumFunctionOnSet(above, T) \in Nat /\ SumFunctionOnSet(below, T) \in Nat
  BY <1>1, SumNatural
<1>3. /\ SumFunctionOnSet(above, T) = SumFunctionOnSet(g, T) - SumFunctionOnSet(f, T)
      /\ SumFunctionOnSet(below, T) = SumFunctionOnSet(g, T) + SumFunctionOnSet(f, T)
  BY <1>1, SumMinus, SumPlus
<1>4. SumFunctionOnSet(f, T) \in Int /\ SumFunctionOnSet(g, T) \in Int
  BY <1>1, SumType
<1> QED BY <1>2, <1>3, <1>4

\* Terms that are off by at most one add up to at most their number.
LEMMA SumWithin ==
  ASSUME NEW f, NEW T, IsFiniteSet(T), \A x \in T : f[x] \in -1 .. 1
  PROVE  SumFunctionOnSet(f, T) \in -Cardinality(T) .. Cardinality(T)
<1> DEFINE C == {u \in SUBSET T : SumFunctionOnSet(f, u) \in -Cardinality(u) .. Cardinality(u)}
<1>1. {} \in C
  <2>1. Cardinality({}) = 0 /\ SumFunctionOnSet(f, {}) = 0
    BY FS_EmptySet, SumEmpty
  <2> QED BY <2>1
<1>2. ASSUME NEW u \in SUBSET T, NEW x \in T, u \in C, x \notin u PROVE u \cup {x} \in C
  <2>1. IsFiniteSet(u)
    BY FS_Subset
  <2>2. \A y \in u \cup {x} : f[y] \in Int
    OBVIOUS
  <2>3. SumFunctionOnSet(f, u \cup {x}) = f[x] + SumFunctionOnSet(f, u)
    BY <2>1, <2>2, <1>2, SumAdd
  <2>4. Cardinality(u \cup {x}) = Cardinality(u) + 1 /\ Cardinality(u) \in Nat
    BY <2>1, <1>2, FS_AddElement, FS_CardinalityType
  <2>5. f[x] \in -1 .. 1 /\ SumFunctionOnSet(f, u) \in -Cardinality(u) .. Cardinality(u)
    BY <1>2
  <2>6. SumFunctionOnSet(f, u \cup {x}) \in -Cardinality(u \cup {x}) .. Cardinality(u \cup {x})
    BY <2>3, <2>4, <2>5
  <2> QED BY <2>6
<1>3. T \in C
  <2> HIDE DEF C
  <2> QED BY <1>1, <1>2, SetInduction
<1> QED BY <1>3

\* Terms that are 0.
LEMMA SumZero ==
  ASSUME NEW f, NEW T, IsFiniteSet(T), \A x \in T : f[x] = 0
  PROVE  SumFunctionOnSet(f, T) = 0
<1>1. SumFunctionOnSet(f, T) = SumFunctionOnSet(f, T) + SumFunctionOnSet(f, T)
  BY SumPlus
<1>2. SumFunctionOnSet(f, T) \in Int
  BY SumType
<1>3. \A i \in Int : i = i + i => i = 0
  OBVIOUS
<1> QED BY <1>1, <1>2, <1>3

\* part[a], for the members a of A, are the classes T is divided into.
Partition(part, A, T) ==
  /\ \A a \in A : part[a] \subseteq T
  /\ \A x \in T : \E a \in A : x \in part[a]
  /\ \A x \in T : \A a, b \in A : x \in part[a] /\ x \in part[b] => a = b

\* The sum of the sums over the classes is the sum over all.
LEMMA SumPartition ==
  ASSUME NEW f, NEW T, IsFiniteSet(T), \A x \in T : f[x] \in Int,
         NEW A, IsFiniteSet(A), NEW part, Partition(part, A, T),
         NEW h, \A a \in A : h[a] = SumFunctionOnSet(f, part[a])
  PROVE  SumFunctionOnSet(h, A) = SumFunctionOnSet(f, T)
<1> USE DEF Partition
<1> DEFINE In(B) == {x \in T : \E a \in B : x \in part[a]}
           Of(a) == part[a]
           C == {B \in SUBSET A : SumFunctionOnSet(h, B) = SumFunctionOnSet(f, In(B))}
<1>1. {} \in C
  <2>1. In({}) = {}
    OBVIOUS
  <2> QED BY <2>1, SumEmpty
<1>2. ASSUME NEW B \in SUBSET A, NEW a \in A, B \in C, a \notin B PROVE B \cup {a} \in C
  <2>1. In(B \cup {a}) = In(B) \cup Of(a) /\ In(B) \cap Of(a) = {}
    BY <1>2
  <2>2. IsFiniteSet(In(B)) /\ IsFiniteSet(Of(a)) /\ IsFiniteSet(B)
    <3>1. In(B) \in SUBSET T /\ Of(a) \in SUBSET T
      OBVIOUS
    <3> HIDE DEF In, Of
    <3> QED BY <3>1, FS_Subset
  <2>3. \A x \in In(B) \cup Of(a) : f[x] \in Int
    OBVIOUS
  <2>4. \A b \in B \cup {a} : h[b] \in Int
    <3> SUFFICES ASSUME NEW b \in A PROVE h[b] \in Int
      OBVIOUS
    <3>1. IsFiniteSet(Of(b)) /\ \A x \in Of(b) : f[x] \in Int
      <4>1. Of(b) \in SUBSET T
        OBVIOUS
      <4> HIDE DEF Of
      <4> QED BY <4>1, FS_Subset
    <3>2. h[b] = SumFunctionOnSet(f, Of(b))
      OBVIOUS
    <3> HIDE DEF Of
    <3> QED BY <3>1, <3>2, SumType
  <2>5. h[a] = SumFunctionOnSet(f, Of(a)) /\ SumFunctionOnSet(h, B) = SumFunctionOnSet(f, In(B))
    BY <1>2
  <2> HIDE DEF In, Of
  <2>6. SumFunctionOnSet(f, In(B) \cup Of(a)) = SumFunctionOnSet(f, In(B)) + SumFunctionOnSet(f, Of(a))
    BY <2>1, <2>2, <2>3, SumUnion
  <2>7. SumFunctionOnSet(h, B \cup {a}) = h[a] + SumFunctionOnSet(h, B)
    BY <2>2, <2>4, <1>2, SumAdd
  <2>8. SumFunctionOnSet(h, B) \in Int /\ h[a] \in Int
    BY <2>2, <2>4, SumType
  <2>9. SumFunctionOnSet(h, B \cup {a}) = SumFunctionOnSet(f, In(B \cup {a}))
    <3>1. SumFunctionOnSet(h, B \cup {a}) = h[a] + SumFunctionOnSet(h, B)
      BY <2>7
    <3>2. SumFunctionOnSet(f, In(B \cup {a})) = SumFunctionOnSet(h, B) + h[a]
      BY <2>1, <2>5, <2>6
    <3>3. \A i, j \in Int : i + j = j + i
      OBVIOUS
    <3> QED BY <3>1, <3>2, <3>3, <2>8
  <2> QED BY <2>9
<1>3. A \in C
  <2> HIDE DEF C
  <2> QED BY <1>1, <1>2, SetInduction
<1>4. In(A) = T
  OBVIOUS
<1> QED BY <1>3, <1>4

\* The terms under other names: p maps A to T, one to one and onto.
LEMMA SumReindexed ==
  ASSUME NEW f, NEW T, IsFiniteSet(T), \A x \in T : f[x] \in Int,
         NEW A, IsFiniteSet(A), NEW p, \A a \in A : p[a] \in T,
         \A x \in T : \E a \in A : p[a] = x,
         \A a, b \in A : p[a] = p[b] => a = b,
         NEW h, \A a \in A : h[a] = f[p[a]]
  PROVE  SumFunctionOnSet(h, A) = SumFunctionOnSet(f, T)
<1> DEFINE part == [x \in T |-> {a \in A : p[a] = x}]
<1>1. \A x \in T : part[x] \subseteq A /\ f[x] = SumFunctionOnSet(h, part[x])
  <2> SUFFICES ASSUME NEW x \in T PROVE f[x] = SumFunctionOnSet(h, part[x])
    OBVIOUS
  <2>1. PICK a \in A : p[a] = x
    OBVIOUS
  <2>2. part[x] = {a}
    BY <2>1
  <2> HIDE DEF part
  <2> QED BY <2>1, <2>2, SumSingleton
<1>2. \A a \in A : h[a] \in Int
  OBVIOUS
<1>3. Partition(part, T, A)
  BY DEF Partition
<1>5. SumFunctionOnSet(f, T) = SumFunctionOnSet(h, A)
  <2> HIDE DEF part
  <2> QED BY <1>1, <1>2, <1>3, SumPartition
<1> QED BY <1>5
==================================================================================
