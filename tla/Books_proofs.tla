---------------------------- MODULE Books_proofs ----------------------------
(***************************************************************************)
(* The proofs about Books: for any users, amounts, limits and votes, stakes*)
(* and their totals agree, pending amounts are those of the open requests, *)
(* the pools of the bridge balance, rewards add up, limits are kept, and   *)
(* no step takes what it may not.  Each part has an inductive invariant of *)
(* its own, stated on its instance; the last section puts them together.   *)
(***************************************************************************)
EXTENDS Books, FiniteSetTheorems, WellFoundedInduction, TLAPS

-----------------------------------------------------------------------------
(* Sums of the values of a function, as folds.                             *)

AnyOf(S) == CHOOSE x \in S : TRUE
Plus(c, x, y) == x + y
ValueAt(c, x) == c[x]

Sums == INSTANCE FoldTheorems WITH Op <- Plus, Value <- ValueAt, Pick <- AnyOf

TotalOf(c, S) == Sums!Fold(c, 0, S)

\* The instance has its own name for IsFiniteSet.
LEMMA SumsOverFinite ==
  \A S : IsFiniteSet(S) => Sums!IsFiniteSet(S) /\ Sums!Picks(S)
BY DEF IsFiniteSet, Sums!IsFiniteSet, Sums!Picks, AnyOf

\* A sum of natural numbers is one, and a sum of integers is one.
LEMMA TotalIsNat ==
  ASSUME NEW S, IsFiniteSet(S), NEW c, \A x \in S : c[x] \in Nat
  PROVE  TotalOf(c, S) \in Nat
<1> DEFINE I == Nat
<1>1. Sums!IsFiniteSet(S) /\ Sums!Picks(S) /\ 0 \in I BY SumsOverFinite
<1>2. Sums!Keeps(c, S, I) BY DEF Plus, ValueAt, Sums!Keeps
<1> HIDE DEF I
<1>3. Sums!Fold(c, 0, S) \in I BY <1>1, <1>2, Sums!FoldKeeps
<1> QED BY <1>3 DEF I, TotalOf

\* A sum of integers is an integer.
LEMMA TotalIsInt ==
  ASSUME NEW S, IsFiniteSet(S), NEW c, \A x \in S : c[x] \in Int
  PROVE  TotalOf(c, S) \in Int
<1> DEFINE I == Int
<1>1. Sums!IsFiniteSet(S) /\ Sums!Picks(S) /\ 0 \in I BY SumsOverFinite
<1>2. Sums!Keeps(c, S, I) BY DEF Plus, ValueAt, Sums!Keeps
<1> HIDE DEF I
<1>3. Sums!Fold(c, 0, S) \in I BY <1>1, <1>2, Sums!FoldKeeps
<1> QED BY <1>3 DEF I, TotalOf

\* The sum over no element is zero.
LEMMA TotalOfNone == ASSUME NEW c PROVE TotalOf(c, {}) = 0
BY Sums!FoldEmpty DEF TotalOf

\* One element can be added last.
LEMMA TotalTakesOut ==
  ASSUME NEW S, IsFiniteSet(S), NEW c, \A x \in S : c[x] \in Int, NEW z \in S
  PROVE  TotalOf(c, S) = c[z] + TotalOf(c, S \ {z})
<1> DEFINE I == Int
<1>1. Sums!IsFiniteSet(S) /\ Sums!Picks(S) /\ 0 \in I BY SumsOverFinite
<1>2. Sums!Keeps(c, S, I) BY DEF Plus, ValueAt, Sums!Keeps
<1>3. Sums!Commutes(c, S, I) BY DEF Plus, ValueAt, Sums!Commutes
<1> HIDE DEF I
<1>4. Sums!Fold(c, 0, S) = Plus(c, ValueAt(c, z), Sums!Fold(c, 0, S \ {z}))
  BY <1>1, <1>2, <1>3, Sums!FoldAnyLast
<1> QED BY <1>4 DEF Plus, ValueAt, TotalOf

\* The sum of differences is the difference of the sums.
LEMMA TotalOfDifferences ==
  ASSUME NEW S, IsFiniteSet(S), NEW c, NEW d, NEW e,
         \A x \in S : c[x] \in Int /\ d[x] \in Int /\ e[x] = c[x] - d[x]
  PROVE  TotalOf(e, S) = TotalOf(c, S) - TotalOf(d, S)
<1> DEFINE R == {t \in Int \X Int \X Int : t[3] = t[1] - t[2]}
<1>1. Sums!IsFiniteSet(S) /\ Sums!Picks(S) /\ <<0, 0, 0>> \in R BY SumsOverFinite
<1>2. ASSUME NEW x \in S, NEW u, NEW v, NEW w, <<u, v, w>> \in R
      PROVE  <<Plus(c, ValueAt(c, x), u), Plus(d, ValueAt(d, x), v), Plus(e, ValueAt(e, x), w)>> \in R
  BY <1>2 DEF Plus, ValueAt
<1> HIDE DEF R
<1>3. <<Sums!Fold(c, 0, S), Sums!Fold(d, 0, S), Sums!Fold(e, 0, S)>> \in R
  BY <1>1, <1>2, Sums!FoldsRelate
<1> QED BY <1>3 DEF R, TotalOf

\* A sum of zeros is zero.
LEMMA TotalOfZeros ==
  ASSUME NEW S, IsFiniteSet(S), NEW c, \A x \in S : c[x] = 0
  PROVE  TotalOf(c, S) = 0
<1>1. \A x \in S : c[x] \in Int /\ c[x] = c[x] - c[x] OBVIOUS
<1>2. TotalOf(c, S) = TotalOf(c, S) - TotalOf(c, S) /\ TotalOf(c, S) \in Int
  BY <1>1, TotalOfDifferences, TotalIsInt
<1> QED BY <1>2

\* A sum of which one summand changes
Moves(before, after, from, to) == after = before + to - from

\* The sum over one element, and over two
LEMMA TotalOfFew ==
  ASSUME NEW x, NEW c, c[x] \in Int
  PROVE  /\ TotalOf(c, {x}) = c[x]
         /\ \A y : y # x /\ c[y] \in Int => Moves(c[x], TotalOf(c, {x, y}), 0, c[y])
<1>1. TotalOf(c, {x}) = c[x]
  <2>1. IsFiniteSet({x}) /\ {x} \ {x} = {} BY FS_Singleton
  <2>2. TotalOf(c, {x}) = c[x] + TotalOf(c, {x} \ {x}) BY <2>1, TotalTakesOut
  <2> QED BY <2>1, <2>2, TotalOfNone
<1>2. ASSUME NEW y, y # x, c[y] \in Int PROVE Moves(c[x], TotalOf(c, {x, y}), 0, c[y])
  <2> DEFINE T == {x, y}
             U == T \ {y}
  <2>1. IsFiniteSet(T)
    <3>1. T = {x} \cup {y} OBVIOUS
    <3>2. IsFiniteSet({x} \cup {y}) BY FS_Singleton, FS_AddElement
    <3> QED BY <3>1, <3>2
  <2>2. y \in T /\ U = {x} /\ \A z \in T : c[z] \in Int BY <1>2
  <2>3. TotalOf(c, T) = c[y] + TotalOf(c, U)
    <3> HIDE DEF T
    <3> QED BY <2>1, <2>2, TotalTakesOut
  <2> HIDE DEF U
  <2>4. TotalOf(c, U) = c[x] BY <1>1, <2>2
  <2> HIDE DEF T
  <2>5. TotalOf(c, T) = c[x] + c[y] - 0 BY <1>2, <2>3, <2>4
  <2> QED BY <2>5 DEF Moves, T
<1> QED BY <1>1, <1>2

\* What is equal everywhere has equal sums.
LEMMA TotalsAgree ==
  ASSUME NEW S, IsFiniteSet(S), NEW c, NEW d, \A x \in S : c[x] \in Int /\ d[x] = c[x]
  PROVE  TotalOf(c, S) = TotalOf(d, S)
<1> DEFINE e == [x \in S |-> 0]
<1>1. \A x \in S : d[x] \in Int /\ e[x] \in Int /\ d[x] = c[x] - e[x] OBVIOUS
<1>2. \A x \in S : e[x] = 0 OBVIOUS
<1> HIDE DEF e
<1>3. TotalOf(d, S) = TotalOf(c, S) - TotalOf(e, S) BY <1>1, TotalOfDifferences
<1>4. TotalOf(e, S) = 0 BY <1>2, TotalOfZeros
<1>5. TotalOf(c, S) \in Int BY TotalIsInt
<1> QED BY <1>3, <1>4, <1>5

\* Only one value changes.
LEMMA TotalChanges ==
  ASSUME NEW S, IsFiniteSet(S), NEW c, NEW d, NEW z \in S,
         \A x \in S : c[x] \in Int /\ d[x] \in Int, \A x \in S \ {z} : d[x] = c[x]
  PROVE  TotalOf(d, S) = TotalOf(c, S) + d[z] - c[z]
<1> DEFINE T == S \ {z}
<1>1. IsFiniteSet(T) /\ (\A x \in T : c[x] \in Int /\ d[x] = c[x]) BY FS_Subset
<1>2. TotalOf(c, T) = TotalOf(d, T) /\ TotalOf(c, T) \in Int
  <2> HIDE DEF T
  <2> QED BY <1>1, TotalsAgree, TotalIsInt
<1>3. TotalOf(c, S) = c[z] + TotalOf(c, T) /\ TotalOf(d, S) = d[z] + TotalOf(d, T) BY TotalTakesOut
<1> QED BY <1>2, <1>3

\* The same, of the summand that changes
LEMMA TotalShifts ==
  ASSUME NEW S, IsFiniteSet(S), NEW c, NEW d, NEW z \in S,
         \A x \in S : c[x] \in Int /\ d[x] \in Int, \A x \in S \ {z} : d[x] = c[x]
  PROVE  Moves(TotalOf(c, S), TotalOf(d, S), c[z], d[z])
<1>1. TotalOf(d, S) = TotalOf(c, S) + d[z] - c[z] BY TotalChanges
<1> QED BY <1>1 DEF Moves

\* A sum of natural numbers is no less than one of them.
LEMMA TotalIsLargest ==
  ASSUME NEW S, IsFiniteSet(S), NEW c, \A x \in S : c[x] \in Nat, NEW z \in S
  PROVE  TotalOf(c, S) >= c[z]
<1>1. TotalOf(c, S) = c[z] + TotalOf(c, S \ {z}) BY TotalTakesOut
<1>2. TotalOf(c, S \ {z}) \in Nat
  <2>1. IsFiniteSet(S \ {z}) /\ \A x \in S \ {z} : c[x] \in Nat BY FS_Subset
  <2> QED BY <2>1, TotalIsNat
<1> QED BY <1>1, <1>2

\* A constant is summed as often as there are elements.
LEMMA TotalOfConstant ==
  ASSUME NEW S, IsFiniteSet(S), NEW k \in Int, NEW c, \A x \in S : c[x] = k
  PROVE  TotalOf(c, S) = k * Cardinality(S)
<1> DEFINE R == {<<T, k * Cardinality(T)>> : T \in SUBSET S}
<1>1. Sums!IsFiniteSet(S) /\ Sums!Picks(S) BY SumsOverFinite
<1>2. <<{}, 0>> \in R
  <2>1. k * Cardinality({}) = 0 BY FS_EmptySet
  <2> QED BY <2>1
<1>3. ASSUME NEW T \in SUBSET S, NEW v, T # {}, <<T \ {AnyOf(T)}, v>> \in R
      PROVE  <<T, Plus(c, ValueAt(c, AnyOf(T)), v)>> \in R
  <2> DEFINE x == AnyOf(T)
  <2>1. x \in T BY <1>3 DEF AnyOf
  <2>2. v = k * Cardinality(T \ {x}) BY <1>3
  <2>3. IsFiniteSet(T) /\ Cardinality(T) \in Nat BY FS_Subset, FS_CardinalityType
  <2>4. Cardinality(T \ {x}) = Cardinality(T) - 1 BY <2>1, <2>3, FS_RemoveElement
  <2>5. k + k * (Cardinality(T) - 1) = k * Cardinality(T) BY <2>3
  <2>6. Plus(c, ValueAt(c, x), v) = k * Cardinality(T) BY <2>1, <2>2, <2>4, <2>5 DEF Plus, ValueAt
  <2> QED BY <2>6
<1> HIDE DEF R
<1>4. <<S, Sums!Fold(c, 0, S)>> \in R BY <1>1, <1>2, <1>3, Sums!FoldInduction
<1> QED BY <1>4 DEF R, TotalOf

\* Zeros add nothing to a sum.
LEMMA TotalOfPart ==
  ASSUME NEW S, IsFiniteSet(S), NEW U \in SUBSET S, NEW c,
         \A x \in S : c[x] \in Int, \A x \in S \ U : c[x] = 0
  PROVE  TotalOf(c, S) = TotalOf(c, U)
<1> DEFINE R == {<<T, TotalOf(c, T \cap U)>> : T \in SUBSET S}
<1>1. Sums!IsFiniteSet(S) /\ Sums!Picks(S) BY SumsOverFinite
<1>2. <<{}, 0>> \in R
  <2>1. TotalOf(c, {} \cap U) = 0 BY TotalOfNone
  <2> QED BY <2>1
<1>3. ASSUME NEW T \in SUBSET S, NEW v, T # {}, <<T \ {AnyOf(T)}, v>> \in R
      PROVE  <<T, Plus(c, ValueAt(c, AnyOf(T)), v)>> \in R
  <2> DEFINE x == AnyOf(T)
  <2>1. x \in T BY <1>3 DEF AnyOf
  <2>2. v = TotalOf(c, (T \ {x}) \cap U) BY <1>3
  <2>3. IsFiniteSet(T \cap U) /\ \A y \in T \cap U : c[y] \in Int BY FS_Subset
  <2>4. v \in Int
    <3>1. IsFiniteSet((T \ {x}) \cap U) /\ \A y \in (T \ {x}) \cap U : c[y] \in Int BY FS_Subset
    <3> QED BY <2>2, <3>1, TotalIsInt
  <2>5. c[x] + v = TotalOf(c, T \cap U)
    <3>1. CASE x \in U
      <4>1. x \in T \cap U /\ (T \cap U) \ {x} = (T \ {x}) \cap U BY <2>1, <3>1
      <4>2. TotalOf(c, T \cap U) = c[x] + TotalOf(c, (T \cap U) \ {x})
        <5> HIDE DEF x
        <5> QED BY <2>3, <4>1, TotalTakesOut
      <4> QED BY <2>2, <4>1, <4>2
    <3>2. CASE x \notin U
      <4>1. (T \ {x}) \cap U = T \cap U /\ c[x] = 0 BY <2>1, <3>2
      <4>2. v = TotalOf(c, T \cap U)
        <5> HIDE DEF x
        <5> QED BY <2>2, <4>1
      <4> QED BY <2>4, <4>1, <4>2
    <3> QED BY <3>1, <3>2
  <2>6. Plus(c, ValueAt(c, x), v) = TotalOf(c, T \cap U) BY <2>5 DEF Plus, ValueAt
  <2> QED BY <2>6
<1> HIDE DEF R
<1>4. <<S, Sums!Fold(c, 0, S)>> \in R BY <1>1, <1>2, <1>3, Sums!FoldInduction
<1>5. S \cap U = U OBVIOUS
<1>6. PICK T \in SUBSET S : <<S, Sums!Fold(c, 0, S)>> = <<T, TotalOf(c, T \cap U)>> BY <1>4 DEF R
<1> QED BY <1>5, <1>6 DEF TotalOf

\* Two values change.
LEMMA TotalMoves ==
  ASSUME NEW S, IsFiniteSet(S), NEW c, NEW d, NEW y \in S, NEW z \in S, y # z,
         \A x \in S : c[x] \in Int /\ d[x] \in Int, \A x \in S \ {y, z} : d[x] = c[x]
  PROVE  TotalOf(d, S) = TotalOf(c, S) + (d[y] - c[y]) + (d[z] - c[z])
<1> DEFINE e == [x \in S |-> IF x = y THEN d[y] ELSE c[x]]
<1>1. \A x \in S : e[x] \in Int OBVIOUS
<1>2. (\A x \in S \ {y} : e[x] = c[x]) /\ (\A x \in S \ {z} : d[x] = e[x]) /\ e[y] = d[y] /\ e[z] = c[z]
  OBVIOUS
<1> HIDE DEF e
<1>3. TotalOf(e, S) = TotalOf(c, S) + e[y] - c[y] BY <1>1, <1>2, TotalChanges
<1>4. TotalOf(d, S) = TotalOf(e, S) + d[z] - e[z] BY <1>1, <1>2, TotalChanges
<1>5. TotalOf(c, S) \in Int BY TotalIsInt
<1> QED BY <1>2, <1>3, <1>4, <1>5

\* What a transfer of k from y to z does to the sum over S
Transferred(c, d, S, y, z, k) ==
  Moves(TotalOf(c, S), TotalOf(d, S), IF y \in S THEN k ELSE 0, IF z \in S THEN k ELSE 0)

\* An amount that moves from one account to another leaves and enters the sums over them.
LEMMA TotalOfMove ==
  ASSUME NEW A, IsFiniteSet(A), NEW S \in SUBSET A, NEW c, NEW d, NEW y \in A, NEW z \in A, y # z,
         NEW k \in Int, \A x \in A : c[x] \in Int /\ d[x] \in Int,
         d[y] = c[y] - k, d[z] = c[z] + k, \A x \in A \ {y, z} : d[x] = c[x]
  PROVE  /\ TotalOf(c, S) \in Int /\ TotalOf(d, S) \in Int
         /\ Transferred(c, d, S, y, z, k)
<1>1. IsFiniteSet(S) /\ \A x \in S : c[x] \in Int /\ d[x] \in Int BY FS_Subset
<1>2. TotalOf(c, S) \in Int /\ TotalOf(d, S) \in Int BY <1>1, TotalIsInt
<1>3. CASE y \in S /\ z \in S
  <2>1. \A x \in S \ {y, z} : d[x] = c[x] OBVIOUS
  <2>2. TotalOf(d, S) = TotalOf(c, S) + (d[y] - c[y]) + (d[z] - c[z]) BY <1>1, <1>3, <2>1, TotalMoves
  <2> QED BY <1>2, <1>3, <2>2 DEF Moves, Transferred
<1>4. CASE y \in S /\ z \notin S
  <2>1. \A x \in S \ {y} : d[x] = c[x] BY <1>4
  <2>2. Moves(TotalOf(c, S), TotalOf(d, S), c[y], d[y]) BY <1>1, <1>4, <2>1, TotalShifts
  <2> QED BY <1>2, <1>4, <2>2 DEF Moves, Transferred
<1>5. CASE y \notin S /\ z \in S
  <2>1. \A x \in S \ {z} : d[x] = c[x] BY <1>5
  <2>2. Moves(TotalOf(c, S), TotalOf(d, S), c[z], d[z]) BY <1>1, <1>5, <2>1, TotalShifts
  <2> QED BY <1>2, <1>5, <2>2 DEF Moves, Transferred
<1>6. CASE y \notin S /\ z \notin S
  <2>1. \A x \in S : c[x] \in Int /\ d[x] = c[x] BY <1>1, <1>6
  <2>2. TotalOf(c, S) = TotalOf(d, S) BY <1>1, <2>1, TotalsAgree
  <2> QED BY <1>2, <1>6, <2>2 DEF Moves, Transferred
<1> QED BY <1>2, <1>3, <1>4, <1>5, <1>6

\* The balances b of the accounts in A become c when k is paid from one to another.
Paid(A, b, c, from, to, k) ==
  /\ from \in A /\ to \in A /\ from # to /\ k \in Nat /\ k > 0
  /\ b \in [A -> Nat] /\ c \in [A -> Nat]
  /\ c[from] = b[from] - k /\ c[to] = b[to] + k
  /\ \A x \in A : x # from /\ x # to => c[x] = b[x]

\* What a payment does to the sum over a set of accounts
LEMMA PaidMoves ==
  ASSUME NEW A, IsFiniteSet(A), NEW b, NEW c, NEW from, NEW to, NEW k, Paid(A, b, c, from, to, k),
         NEW S \in SUBSET A
  PROVE  /\ TotalOf(b, S) \in Int /\ TotalOf(c, S) \in Int
         /\ Transferred(b, c, S, from, to, k)
<1>1. /\ from \in A /\ to \in A /\ from # to /\ k \in Int
      /\ \A x \in A : b[x] \in Int /\ c[x] \in Int
      /\ c[from] = b[from] - k /\ c[to] = b[to] + k
      /\ \A x \in A \ {from, to} : c[x] = b[x]
  BY DEF Paid
<1> QED BY <1>1, TotalOfMove

\* The summands of one element are added, or taken away.
LEMMA TotalGains ==
  ASSUME NEW S, IsFiniteSet(S), NEW n, n \notin S, NEW c, NEW d,
         \A x \in S : c[x] \in Int /\ d[x] = c[x], d[n] \in Int
  PROVE  Moves(TotalOf(c, S), TotalOf(d, S \cup {n}), 0, d[n])
<1> DEFINE T == S \cup {n}
<1>1. IsFiniteSet(T) /\ n \in T /\ T \ {n} = S /\ \A x \in T : d[x] \in Int BY FS_AddElement
<1> HIDE DEF T
<1>2. TotalOf(d, T) = d[n] + TotalOf(d, T \ {n}) BY <1>1, TotalTakesOut
<1>3. TotalOf(c, S) = TotalOf(d, S) /\ TotalOf(c, S) \in Int BY TotalsAgree, TotalIsInt
<1>4. TotalOf(d, T) = d[n] + TotalOf(c, S) BY <1>1, <1>2, <1>3
<1>5. PICK x \in Int : x = d[n] OBVIOUS
<1>6. PICK y \in Int : y = TotalOf(c, S) BY <1>3
<1>7. x + y = y + x - 0 OBVIOUS
<1>8. Moves(TotalOf(c, S), TotalOf(d, T), 0, d[n]) BY <1>4, <1>5, <1>6, <1>7 DEF Moves
<1> QED BY <1>8 DEF T

\* The sum over one element less
LEMMA TotalLoses ==
  ASSUME NEW S, IsFiniteSet(S), NEW n \in S, NEW c, NEW d,
         \A x \in S : c[x] \in Int, \A x \in S : x # n => d[x] = c[x]
  PROVE  Moves(TotalOf(c, S), TotalOf(d, S \ {n}), c[n], 0)
<1> DEFINE T == S \ {n}
<1>1. IsFiniteSet(T) /\ \A x \in T : c[x] \in Int /\ d[x] = c[x] BY FS_Subset
<1>2. TotalOf(c, S) = c[n] + TotalOf(c, S \ {n}) BY TotalTakesOut
<1>3. TotalOf(c, T) = TotalOf(d, T) /\ TotalOf(c, T) \in Int
  <2> HIDE DEF T
  <2> QED BY <1>1, TotalsAgree, TotalIsInt
<1>4. TotalOf(d, T) = TotalOf(c, S) + 0 - c[n] BY <1>2, <1>3
<1> QED BY <1>4 DEF Moves

-----------------------------------------------------------------------------
(* Stakes: the running totals are the sums they stand for.                 *)

\* The instance has its own names for these.
LEMMA StkPlain == \A S : (Stakes!IsFiniteSet(S) <=> IsFiniteSet(S)) /\ Stakes!Cardinality(S) = Cardinality(S)
<1>1. \A S : Stakes!IsFiniteSet(S) <=> IsFiniteSet(S) BY Zenon DEF IsFiniteSet, Stakes!IsFiniteSet
<1>2. \A S : Stakes!Cardinality(S) = Cardinality(S)
  BY Zenon DEF Cardinality, Stakes!Cardinality, IsFiniteSet, Stakes!IsFiniteSet
<1> QED BY <1>1, <1>2

\* The sums of the module are the sums of the kit.
LEMMA StkTotalIsSum == \A f, S : Stakes!Total(f, S) = TotalOf(f, S)
BY Zenon DEF Stakes!Total, TotalOf, Stakes!MapThenSumSet, Stakes!MapThenFoldSet, Sums!Fold, Sums!FoldOf, Sums!IsFold, Plus, ValueAt, AnyOf

StkTwice(c, i, x) == 2 * x
StkItself(c, x) == x

StkDoubles == INSTANCE FoldTheorems WITH Op <- StkTwice, Value <- StkItself, Pick <- AnyOf

\* A power of two is a fold over 1..n.
LEMMA StkTwoToIsFold == \A n : Stakes!TwoTo(n) = StkDoubles!Fold(0, 1, 1..n)
BY Zenon DEF Stakes!TwoTo, Stakes!FoldSet, Stakes!MapThenFoldSet, StkDoubles!Fold, StkDoubles!FoldOf, StkDoubles!IsFold, StkTwice, StkItself, AnyOf

\* What doubling n times yields.
LEMMA StkTwoToDoubles ==
  /\ Stakes!TwoTo(0) = 1
  /\ \A n \in Nat : Stakes!TwoTo(n) \in Nat /\ Stakes!TwoTo(n) >= 1 /\ Stakes!TwoTo(n + 1) = 2 * Stakes!TwoTo(n)
<1> DEFINE I == Nat \ {0}
<1>1. \A n \in Nat : /\ IsFiniteSet(1..n)
                     /\ StkDoubles!IsFiniteSet(1..n) /\ StkDoubles!Picks(1..n)
                     /\ StkDoubles!Keeps(0, 1..n, I) /\ StkDoubles!Commutes(0, 1..n, I)
  <2> SUFFICES ASSUME NEW n \in Nat
               PROVE  /\ IsFiniteSet(1..n)
                      /\ StkDoubles!IsFiniteSet(1..n) /\ StkDoubles!Picks(1..n)
                      /\ StkDoubles!Keeps(0, 1..n, I) /\ StkDoubles!Commutes(0, 1..n, I)
    OBVIOUS
  <2>1. IsFiniteSet(1..n) BY FS_Interval
  <2>2. StkDoubles!IsFiniteSet(1..n) BY <2>1 DEF IsFiniteSet, StkDoubles!IsFiniteSet
  <2>3. StkDoubles!Picks(1..n) BY DEF StkDoubles!Picks, AnyOf
  <2>4. StkDoubles!Keeps(0, 1..n, I) BY DEF StkDoubles!Keeps, StkTwice
  <2>5. StkDoubles!Commutes(0, 1..n, I) BY DEF StkDoubles!Commutes, StkTwice
  <2> QED BY <2>1, <2>2, <2>3, <2>4, <2>5
<1>2. 1 \in I OBVIOUS
<1>3. Stakes!TwoTo(0) = 1
  <2>1. 1..0 = {} OBVIOUS
  <2>2. StkDoubles!Fold(0, 1, {}) = 1 BY StkDoubles!FoldEmpty
  <2> QED BY <2>1, <2>2, StkTwoToIsFold
<1>4. ASSUME NEW n \in Nat PROVE Stakes!TwoTo(n) \in I
  <2> HIDE DEF I
  <2>1. StkDoubles!Fold(0, 1, 1..n) \in I BY <1>1, <1>2, StkDoubles!FoldKeeps
  <2> QED BY <2>1, StkTwoToIsFold
<1>5. ASSUME NEW n \in Nat PROVE Stakes!TwoTo(n + 1) = 2 * Stakes!TwoTo(n)
  <2>1. n + 1 \in Nat /\ n + 1 \in 1..(n + 1) /\ (1..(n + 1)) \ {n + 1} = 1..n OBVIOUS
  <2>2. StkDoubles!Fold(0, 1, 1..(n + 1))
          = StkTwice(0, StkItself(0, n + 1), StkDoubles!Fold(0, 1, (1..(n + 1)) \ {n + 1}))
    <3> HIDE DEF I
    <3> QED BY <1>1, <1>2, <2>1, StkDoubles!FoldAnyLast
  <2> QED BY <2>1, <2>2, StkTwoToIsFold DEF StkTwice
<1> QED BY <1>3, <1>4, <1>5

\* How much one offense, or two, lock the stake for longer
LEMMA StkExtensionIs ==
  ASSUME Stakes!StakesAreAssumed, NEW new \in 1..2, NEW n \in Nat
  PROVE  /\ Stakes!LockupExtension(new, n + new) \in Nat
         /\ Moves(Extension * (Stakes!TwoTo(n) - 1), Extension * (Stakes!TwoTo(n + new) - 1), 0, Stakes!LockupExtension(new, n + new))
<1> DEFINE S == (n + new - new + 1)..(n + new)
           f == [i \in S |-> Stakes!TwoTo(i - 1)]
<1>1. PICK p \in Nat : p = Stakes!TwoTo(n) BY StkTwoToDoubles
<1>2. /\ Stakes!TwoTo(n + 1) = 2 * p
      /\ Stakes!TwoTo(n + 2) = 4 * p
  <2>1. n + 1 \in Nat /\ (n + 1) + 1 = n + 2 OBVIOUS
  <2>2. Stakes!TwoTo((n + 1) + 1) = 2 * Stakes!TwoTo(n + 1) /\ Stakes!TwoTo(n + 1) = 2 * Stakes!TwoTo(n) BY <2>1, StkTwoToDoubles
  <2> QED BY <1>1, <2>1, <2>2
<1>3. TotalOf(f, S) = Stakes!TwoTo(n + new) - p /\ TotalOf(f, S) \in Nat
  <2>1. CASE new = 1
    <3>1. S = {n + 1} BY <2>1
    <3>2. f[n + 1] = p
      <4>1. (n + 1) - 1 = n /\ n + 1 \in S BY <3>1
      <4> QED BY <1>1, <4>1
    <3> HIDE DEF f, S
    <3>3. TotalOf(f, {n + 1}) = f[n + 1] BY <3>2, TotalOfFew
    <3> QED BY <1>1, <1>2, <2>1, <3>1, <3>2, <3>3
  <2>2. CASE new = 2
    <3>1. S = {n + 1, n + 2} BY <2>2
    <3>2. f[n + 1] = p /\ f[n + 2] = 2 * p
      <4>1. (n + 1) - 1 = n /\ n + 1 \in S /\ (n + 2) - 1 = n + 1 /\ n + 2 \in S BY <3>1
      <4> QED BY <1>1, <1>2, <4>1
    <3> HIDE DEF f, S
    <3>3. Moves(f[n + 1], TotalOf(f, {n + 1, n + 2}), 0, f[n + 2])
      <4>1. n + 2 # n + 1 /\ f[n + 1] \in Int /\ f[n + 2] \in Int BY <3>2
      <4> QED BY <4>1, TotalOfFew
    <3> QED BY <1>1, <1>2, <2>2, <3>1, <3>2, <3>3 DEF Moves
  <2> QED BY <2>1, <2>2
<1>4. Stakes!LockupExtension(new, n + new) = Extension * TotalOf(f, S) BY StkTotalIsSum DEF Stakes!LockupExtension
<1>5. PICK q \in Nat : q = Stakes!TwoTo(n + new) BY StkTwoToDoubles, n + new \in Nat
<1>6. PICK t \in Nat : t = TotalOf(f, S) BY <1>3
<1>7. PICK e \in Nat : e = Extension BY DEF Stakes!StakesAreAssumed
<1>8. t = q - p BY <1>3, <1>5, <1>6
<1> HIDE DEF f, S
<1>9. e * t \in Nat BY <1>6, <1>7
<1>10. e * (q - 1) = e * (p - 1) + e * t - 0 BY <1>8
<1> QED BY <1>1, <1>4, <1>5, <1>6, <1>7, <1>9, <1>10 DEF Moves

StkStakeDb ==
  [bal : [Stakes!Account -> Nat], sent : SUBSET (Stakes!Account \X Stakes!Account \X Nat), expire : [Stakes!Stakes -> Nat],
   lockup : [Service -> Nat], total : [Service -> Int], sum : Int \cup {None},
   offenses : [Staker -> Nat]]

\* The books of a database d, when g was given to the staking accounts of the services
StkSumIsRight(d) == d.sum # None => d.sum = TotalOf(d.total, Service)
StkSound(d, g) ==
  /\ d \in StkStakeDb
  /\ TotalOf(d.bal, Stakes!Account) = StakerFunds * Cardinality(Staker)
  /\ \A s \in Service : TotalOf(d.bal, Stakes!StakesOf(s)) = d.total[s] + g[s]
  /\ StkSumIsRight(d)

\* The lock-ups that were agreed to, and those for offenses, are in force.
StkLocked(d, p) ==
  /\ \A a \in Stakes!Stakes : p[a] <= d.expire[a]
  /\ \A u \in Staker : d.expire[<<Consensus, u>>] >= Extension * (Stakes!TwoTo(d.offenses[u]) - 1)

StkIInv ==
  /\ StkSound(stakeDb, stakeGiven)
  /\ StkLocked(stakeDb, stakePromised)
  /\ stakeClock \in 1..MaxClock
  /\ stakeGiven \in [Service -> Nat]
  /\ stakePromised \in [Stakes!Stakes -> Nat]

\* The accounts
LEMMA StkAccountSets ==
  ASSUME Stakes!StakesAreAssumed
  PROVE  /\ IsFiniteSet(Stakes!Account) /\ IsFiniteSet(Staker) /\ IsFiniteSet(Service)
         /\ \A s \in Service : Stakes!StakesOf(s) \in SUBSET Stakes!Account /\ IsFiniteSet(Stakes!StakesOf(s))
         /\ \A a \in Stakes!Stakes : a[1] \in Service /\ a[2] \in Staker /\ a \in Stakes!Account /\ a \in Stakes!StakesOf(a[1])
         /\ \A a \in Stakes!Stakes, s \in Service : s # a[1] => a \notin Stakes!StakesOf(s)
         /\ \A u \in Staker : u \in Stakes!Account /\ u \notin Stakes!Stakes /\ \A s \in Service : u \notin Stakes!StakesOf(s)
         /\ \A u \in Staker : <<Consensus, u>> \in Stakes!Stakes
<1>1. IsFiniteSet(Staker) /\ IsFiniteSet(Service) BY StkPlain DEF Stakes!StakesAreAssumed
<1>2. IsFiniteSet(Service \X Staker) BY <1>1, FS_Product
<1>3. IsFiniteSet(Stakes!Account) BY <1>1, <1>2, FS_Union DEF Stakes!Account, Stakes!Stakes
<1>4. \A s \in Service : Stakes!StakesOf(s) \in SUBSET Stakes!Account BY DEF Stakes!StakesOf, Stakes!Account
<1>5. \A s \in Service : IsFiniteSet(Stakes!StakesOf(s)) BY <1>3, <1>4, FS_Subset
<1>6. \A a \in Stakes!Stakes : a[1] \in Service /\ a[2] \in Staker BY DEF Stakes!Stakes
<1>7. \A u \in Staker : u \notin Stakes!Stakes BY DEF Stakes!StakesAreAssumed
<1>8. \A u \in Staker : <<Consensus, u>> \in Stakes!Stakes BY DEF Stakes!StakesAreAssumed, Stakes!Stakes
<1> HIDE DEF Stakes!Stakes
<1> QED BY <1>1, <1>3, <1>4, <1>5, <1>6, <1>7, <1>8 DEF Stakes!Account, Stakes!StakesOf

\* What a transfer changes
StkPaying(d, r, from, to, amount) ==
  /\ r \in StkStakeDb
  /\ Paid(Stakes!Account, d.bal, r.bal, from, to, amount)
  /\ r.expire = d.expire /\ r.lockup = d.lockup /\ r.total = d.total /\ r.sum = d.sum
  /\ r.offenses = d.offenses

\* A transfer moves its amount and leaves lock-ups and totals alone.
LEMMA StkTransferPays ==
  ASSUME NEW d \in StkStakeDb, NEW from \in Stakes!Account, NEW to \in Stakes!Account, NEW amount \in Nat, NEW key \in Nat,
         Stakes!Transfer(d, from, to, amount, key) # Failed
  PROVE  StkPaying(d, Stakes!Transfer(d, from, to, amount, key), from, to, amount)
<1> DEFINE r == Stakes!Transfer(d, from, to, amount, key)
<1>1. Stakes!MayTransfer(d, from, to, amount, key) /\ r = Stakes!Moved(d, from, to, amount, key) BY DEF Stakes!Transfer
<1> HIDE DEF r
<1>2. from # to /\ amount > 0 /\ d.bal[from] >= amount BY <1>1 DEF Stakes!MayTransfer
<1>3. /\ r.bal[from] = d.bal[from] - amount /\ r.bal[to] = d.bal[to] + amount
      /\ \A a \in Stakes!Account : a # from /\ a # to => r.bal[a] = d.bal[a]
      /\ r.expire = d.expire /\ r.lockup = d.lockup /\ r.total = d.total /\ r.sum = d.sum
      /\ r.offenses = d.offenses
  BY <1>1, <1>2 DEF Stakes!Moved, StkStakeDb
<1>4. d.bal \in [Stakes!Account -> Nat] /\ r.bal \in [Stakes!Account -> Nat] BY <1>1, <1>2 DEF Stakes!Moved, StkStakeDb
<1>5. r \in StkStakeDb
  <2>1. r = [bal |-> r.bal, sent |-> r.sent, expire |-> r.expire, lockup |-> r.lockup,
             total |-> r.total, sum |-> r.sum, offenses |-> r.offenses]
    BY <1>1 DEF Stakes!Moved, StkStakeDb
  <2>2. r.sent \in SUBSET (Stakes!Account \X Stakes!Account \X Nat) BY <1>1 DEF Stakes!Moved, StkStakeDb
  <2> QED BY <1>3, <1>4, <2>1, <2>2 DEF StkStakeDb
<1>6. Paid(Stakes!Account, d.bal, r.bal, from, to, amount) BY <1>2, <1>3, <1>4 DEF Paid
<1>7. StkPaying(d, r, from, to, amount) BY <1>3, <1>5, <1>6 DEF StkPaying
<1> QED BY <1>7 DEF r

\* What counting changes
StkCounting(d, r, s, delta) ==
  /\ r \in StkStakeDb
  /\ r.bal = d.bal /\ r.expire = d.expire /\ r.offenses = d.offenses
  /\ r.total[s] = d.total[s] + delta
  /\ \A q \in Service : q # s => r.total[q] = d.total[q]
  /\ StkSumIsRight(r)

\* Counting a stake adds to the total of its service, and to the sum if there is one.
LEMMA StkCountedCounts ==
  ASSUME Stakes!StakesAreAssumed, NEW d \in StkStakeDb, NEW s \in Service, NEW delta \in Int, StkSumIsRight(d)
  PROVE  StkCounting(d, Stakes!Counted(d, s, delta), s, delta)
<1> DEFINE t == [d.total EXCEPT ![s] = @ + delta]
           c == [d EXCEPT !.total[s] = @ + delta]
           n == IF c.sum = None THEN Stakes!SumOfTotals(c) ELSE c.sum + delta
           r == Stakes!Counted(d, s, delta)
<1>1. r = [c EXCEPT !.sum = n] BY DEF Stakes!Counted
<1>2. /\ t \in [Service -> Int]
      /\ t[s] = d.total[s] + delta
      /\ \A q \in Service : q # s => t[q] = d.total[q]
  BY DEF StkStakeDb
<1>3. c = [bal |-> d.bal, sent |-> d.sent, expire |-> d.expire, lockup |-> d.lockup, total |-> t,
           sum |-> d.sum, offenses |-> d.offenses]
  BY DEF StkStakeDb
<1> HIDE DEF t, c, r
<1>4. r = [bal |-> d.bal, sent |-> d.sent, expire |-> d.expire, lockup |-> d.lockup, total |-> t,
           sum |-> n, offenses |-> d.offenses]
  BY <1>1, <1>3
<1>5. n = TotalOf(t, Service) /\ n \in Int
  <2>1. TotalOf(t, Service) \in Int BY <1>2, StkAccountSets, TotalIsInt
  <2>2. CASE d.sum = None
    BY <1>3, <2>1, <2>2, StkTotalIsSum DEF Stakes!SumOfTotals
  <2>3. CASE d.sum # None
    <3>1. d.sum = TotalOf(d.total, Service) /\ d.sum \in Int BY <2>3 DEF StkSumIsRight, StkStakeDb
    <3>2. Moves(TotalOf(d.total, Service), TotalOf(t, Service), d.total[s], t[s])
      <4>1. \A q \in Service : d.total[q] \in Int /\ t[q] \in Int BY <1>2 DEF StkStakeDb
      <4> QED BY <1>2, <4>1, StkAccountSets, TotalShifts
    <3>3. d.total[s] \in Int BY DEF StkStakeDb
    <3> QED BY <1>2, <1>3, <2>1, <2>3, <3>1, <3>2, <3>3 DEF Moves
  <2> QED BY <2>2, <2>3
<1> HIDE DEF n
<1>6. r \in StkStakeDb BY <1>2, <1>4, <1>5 DEF StkStakeDb
<1>7. StkSumIsRight(r) BY <1>4, <1>5 DEF StkSumIsRight
<1>8. StkCounting(d, r, s, delta) BY <1>2, <1>4, <1>6, <1>7 DEF StkCounting
<1> QED BY <1>8 DEF r

\* What a new expiration changes
StkRenewing(d, r, a, t) ==
  /\ r \in StkStakeDb
  /\ r.bal = d.bal /\ r.lockup = d.lockup /\ r.total = d.total /\ r.sum = d.sum /\ r.offenses = d.offenses
  /\ r.expire[a] = t /\ \A x \in Stakes!Stakes : x # a => r.expire[x] = d.expire[x]

\* Setting the end of a lock-up sets nothing else.
LEMMA StkRenewedIs ==
  ASSUME NEW d \in StkStakeDb, NEW a \in Stakes!Stakes, NEW t \in Nat
  PROVE  StkRenewing(d, [d EXCEPT !.expire[a] = t], a, t)
<1> DEFINE e == [d.expire EXCEPT ![a] = t]
           r == [d EXCEPT !.expire[a] = t]
<1>1. e \in [Stakes!Stakes -> Nat] /\ e[a] = t /\ \A x \in Stakes!Stakes : x # a => e[x] = d.expire[x] BY DEF StkStakeDb
<1>2. r = [bal |-> d.bal, sent |-> d.sent, expire |-> e, lockup |-> d.lockup, total |-> d.total,
           sum |-> d.sum, offenses |-> d.offenses]
  BY DEF StkStakeDb
<1> HIDE DEF e, r
<1>3. StkRenewing(d, r, a, t) BY <1>1, <1>2 DEF StkStakeDb, StkRenewing
<1> QED BY <1>3 DEF r

\* An amount that goes from the staker to his staking account, or back
StkStakesBy(a, from, to, amount, delta) ==
  \/ from = a[2] /\ to = a /\ delta = amount
  \/ from = a /\ to = a[2] /\ delta = -amount

\* A transfer that comes with a count of what it brings to the staking accounts
LEMMA StkCountedMoves ==
  ASSUME Stakes!StakesAreAssumed, NEW g \in [Service -> Nat], NEW d, StkSound(d, g), NEW a \in Stakes!Stakes,
         NEW amount \in Nat, NEW from, NEW to, NEW delta \in Int,
         StkStakesBy(a, from, to, amount, delta),
         NEW n \in StkStakeDb, Paid(Stakes!Account, d.bal, n.bal, from, to, amount),
         n.total = d.total, NEW r, StkCounting(n, r, a[1], delta)
  PROVE  /\ StkSound(r, g)
         /\ r.expire = n.expire /\ r.offenses = n.offenses
         /\ to = a => r.bal[a] >= d.bal[a]
         /\ \A x \in Stakes!Stakes : x # a => r.bal[x] = d.bal[x]
<1> DEFINE b == n.bal
<1>1. /\ d \in StkStakeDb
      /\ TotalOf(d.bal, Stakes!Account) = StakerFunds * Cardinality(Staker)
      /\ \A s \in Service : TotalOf(d.bal, Stakes!StakesOf(s)) = d.total[s] + g[s]
  BY DEF StkSound
<1>2. /\ a[1] \in Service /\ a[2] \in Staker /\ a \in Stakes!Account /\ a[2] \in Stakes!Account /\ a \in Stakes!StakesOf(a[1])
      /\ a[2] \notin Stakes!Stakes /\ \A s \in Service : a[2] \notin Stakes!StakesOf(s)
      /\ \A s \in Service : s # a[1] => a \notin Stakes!StakesOf(s)
      /\ \A s \in Service : Stakes!StakesOf(s) \in SUBSET Stakes!Account
      /\ \A x \in Stakes!Stakes : x \in Stakes!Account
  BY StkAccountSets
<1>3. from \in Stakes!Account /\ to \in Stakes!Account /\ from # to
      /\ b[from] = d.bal[from] - amount /\ b[to] = d.bal[to] + amount
      /\ \A x \in Stakes!Account : x # from /\ x # to => b[x] = d.bal[x]
  BY DEF Paid
<1>4. /\ r \in StkStakeDb
      /\ r.bal = b /\ r.expire = n.expire /\ r.offenses = n.offenses
      /\ r.total[a[1]] = d.total[a[1]] + delta
      /\ \A q \in Service : q # a[1] => r.total[q] = d.total[q]
      /\ StkSumIsRight(r)
  BY DEF StkCounting
<1> HIDE DEF b
<1>5. \A S \in SUBSET Stakes!Account :
        /\ TotalOf(d.bal, S) \in Int /\ TotalOf(b, S) \in Int
        /\ Transferred(d.bal, b, S, from, to, amount)
  BY StkAccountSets, PaidMoves DEF b
<1>6. TotalOf(r.bal, Stakes!Account) = StakerFunds * Cardinality(Staker)
  <2>1. Transferred(d.bal, b, Stakes!Account, from, to, amount) /\ TotalOf(d.bal, Stakes!Account) \in Int BY <1>5
  <2>2. TotalOf(b, Stakes!Account) = TotalOf(d.bal, Stakes!Account) BY <1>3, <2>1 DEF Transferred, Moves
  <2> QED BY <1>1, <1>4, <2>2
<1>7. ASSUME NEW s \in Service PROVE TotalOf(r.bal, Stakes!StakesOf(s)) = r.total[s] + g[s]
  <2>1. Transferred(d.bal, b, Stakes!StakesOf(s), from, to, amount) /\ TotalOf(d.bal, Stakes!StakesOf(s)) \in Int
    BY <1>2, <1>5
  <2>2. TotalOf(d.bal, Stakes!StakesOf(s)) = d.total[s] + g[s] BY <1>1
  <2>3. r.bal = b BY <1>4
  <2>4. d.total[s] \in Int /\ g[s] \in Int BY <1>1 DEF StkStakeDb
  <2>5. CASE s = a[1]
    <3>1. r.total[s] = d.total[s] + delta BY <1>4, <2>5
    <3>2. CASE to = a
      <4>1. from \notin Stakes!StakesOf(s) /\ to \in Stakes!StakesOf(s) /\ delta = amount BY <1>2, <1>3, <2>5, <3>2 DEF StkStakesBy
      <4> QED BY <2>1, <2>2, <2>3, <2>4, <3>1, <4>1 DEF Transferred, Moves
    <3>3. CASE to # a
      <4>1. from \in Stakes!StakesOf(s) /\ to \notin Stakes!StakesOf(s) /\ delta = -amount BY <1>2, <2>5, <3>3 DEF StkStakesBy
      <4> QED BY <2>1, <2>2, <2>3, <2>4, <3>1, <4>1 DEF Transferred, Moves
    <3> QED BY <3>2, <3>3
  <2>6. CASE s # a[1]
    <3>1. from \notin Stakes!StakesOf(s) /\ to \notin Stakes!StakesOf(s) BY <1>2, <2>6 DEF StkStakesBy
    <3>2. r.total[s] = d.total[s] BY <1>4, <2>6
    <3> QED BY <2>1, <2>2, <2>3, <2>4, <3>1, <3>2 DEF Transferred, Moves
  <2> QED BY <2>5, <2>6
<1>8. to = a => r.bal[a] >= d.bal[a]
  <2>1. d.bal[a] \in Nat BY <1>1, <1>2 DEF StkStakeDb
  <2> QED BY <1>3, <1>4, <2>1
<1>9. \A x \in Stakes!Stakes : x # a => r.bal[x] = d.bal[x] BY <1>2, <1>3, <1>4 DEF StkStakesBy
<1> QED BY <1>4, <1>6, <1>7, <1>8, <1>9 DEF StkSound

\* A user stakes.
StkStaked(d, g, a, blockTime, r) ==
  /\ StkSound(r, g) /\ r.offenses = d.offenses
  /\ \A x \in Stakes!Stakes : r.bal[x] >= d.bal[x] /\ r.expire[x] >= d.expire[x]
  /\ r.expire[a] >= blockTime + d.lockup[a[1]]

\* A stake moves tokens into the staking account, counts them and renews the lock-up (_stake).
LEMMA StkStakeIs ==
  ASSUME Stakes!StakesAreAssumed, NEW g \in [Service -> Nat], NEW d, StkSound(d, g), NEW a \in Stakes!Stakes,
         NEW amount \in Nat, NEW key \in Nat, NEW blockTime \in Nat,
         Stakes!Stake(d, a, amount, key, blockTime) # Failed
  PROVE  StkStaked(d, g, a, blockTime, Stakes!Stake(d, a, amount, key, blockTime))
<1> DEFINE r == Stakes!Stake(d, a, amount, key, blockTime)
<1> SUFFICES StkStaked(d, g, a, blockTime, r) OBVIOUS
<1> DEFINE renewed == blockTime + d.lockup[a[1]]
           locked(e) == IF renewed > e.expire[a] THEN [e EXCEPT !.expire[a] = renewed] ELSE e
           moved == Stakes!Transfer(d, a[2], a, amount, key)
<1>1. d \in StkStakeDb BY DEF StkSound
<1>2. a[1] \in Service /\ a[2] \in Staker /\ a \in Stakes!Account /\ a[2] \in Stakes!Account /\ \A x \in Stakes!Stakes : x \in Stakes!Account
  BY StkAccountSets
<1>3. renewed \in Nat BY <1>1, <1>2 DEF StkStakeDb
<1>4. ASSUME NEW e \in StkStakeDb
      PROVE  /\ locked(e) \in StkStakeDb
             /\ locked(e).bal = e.bal /\ locked(e).total = e.total /\ locked(e).sum = e.sum
             /\ locked(e).offenses = e.offenses
             /\ \A x \in Stakes!Stakes : locked(e).expire[x] >= e.expire[x]
             /\ locked(e).expire[a] >= renewed
  <2> HIDE DEF renewed
  <2>1. \A x \in Stakes!Stakes : e.expire[x] \in Nat BY DEF StkStakeDb
  <2>2. CASE renewed > e.expire[a]
    <3> DEFINE l == [e EXCEPT !.expire[a] = renewed]
    <3>1. locked(e) = l BY <2>2
    <3>2. /\ l \in StkStakeDb /\ l.bal = e.bal /\ l.total = e.total /\ l.sum = e.sum /\ l.offenses = e.offenses
          /\ l.expire[a] = renewed /\ \A x \in Stakes!Stakes : x # a => l.expire[x] = e.expire[x]
      <4>1. StkRenewing(e, l, a, renewed) BY <1>3, StkRenewedIs
      <4> HIDE DEF l
      <4> QED BY <4>1 DEF StkRenewing
    <3> HIDE DEF l, locked
    <3> QED BY <1>3, <2>1, <2>2, <3>1, <3>2
  <2>3. CASE ~(renewed > e.expire[a])
    <3>1. locked(e) = e BY <2>3
    <3> HIDE DEF locked
    <3> QED BY <1>3, <2>1, <2>3, <3>1
  <2> QED BY <2>2, <2>3
<1>5. r # Failed /\ r = IF amount = 0 /\ renewed > d.expire[a] THEN locked(d)
          ELSE IF moved = Failed THEN Failed ELSE Stakes!Counted(locked(moved), a[1], amount)
  BY DEF Stakes!Stake
<1> HIDE DEF renewed, locked, moved, r
<1>6. CASE amount = 0 /\ renewed > d.expire[a]
  <2>1. r = locked(d) BY <1>5, <1>6
  <2>2. \A x \in Stakes!Stakes : d.bal[x] \in Nat BY <1>1, <1>2 DEF StkStakeDb
  <2>3. StkSound(r, g) BY <1>1, <1>4, <2>1 DEF StkSound, StkSumIsRight
  <2> QED BY <1>1, <1>4, <2>1, <2>2, <2>3 DEF renewed, StkStaked
<1>7. CASE ~(amount = 0 /\ renewed > d.expire[a])
  <2> DEFINE n == locked(moved)
  <2>1. moved # Failed /\ r = Stakes!Counted(n, a[1], amount) BY <1>5, <1>7
  <2>2. StkPaying(d, moved, a[2], a, amount) BY <1>1, <1>2, <2>1, StkTransferPays DEF moved
  <2>3. /\ n \in StkStakeDb
        /\ n.bal = moved.bal /\ n.total = d.total /\ n.sum = d.sum
        /\ n.offenses = d.offenses
        /\ \A x \in Stakes!Stakes : n.expire[x] >= d.expire[x]
        /\ n.expire[a] >= renewed
    <3>1. moved \in StkStakeDb /\ moved.expire = d.expire /\ moved.offenses = d.offenses
          /\ moved.total = d.total /\ moved.sum = d.sum
      BY <2>2 DEF StkPaying
    <3> QED BY <1>4, <3>1
  <2> HIDE DEF n
  <2>4. /\ StkSound(r, g)
        /\ r.expire = n.expire /\ r.offenses = n.offenses
        /\ r.bal[a] >= d.bal[a]
        /\ \A x \in Stakes!Stakes : x # a => r.bal[x] = d.bal[x]
    <3>1. StkSumIsRight(n) BY <2>3 DEF StkSumIsRight, StkSound
    <3>2. StkCounting(n, r, a[1], amount) BY <1>2, <2>1, <2>3, <3>1, StkCountedCounts
    <3>3. Paid(Stakes!Account, d.bal, n.bal, a[2], a, amount) BY <2>2, <2>3 DEF StkPaying
    <3>4. StkStakesBy(a, a[2], a, amount, amount) BY DEF StkStakesBy
    <3>5. amount \in Int /\ n \in StkStakeDb /\ n.total = d.total BY <2>3
    <3> QED BY <3>2, <3>3, <3>4, <3>5, StkCountedMoves
  <2>5. \A x \in Stakes!Stakes : d.bal[x] \in Nat BY <1>1, <1>2 DEF StkStakeDb
  <2> QED BY <2>3, <2>4, <2>5 DEF renewed, StkStaked
<1> QED BY <1>6, <1>7

\* A user gets back what he staked.
LEMMA StkUnstakeIs ==
  ASSUME Stakes!StakesAreAssumed, NEW g \in [Service -> Nat], NEW d, StkSound(d, g), NEW a \in Stakes!Stakes,
         NEW amount \in Nat, NEW key \in Nat, NEW executedAt \in Nat,
         NEW r, r = Stakes!Unstake(d, a, amount, key, executedAt), r # Failed
  PROVE  /\ StkSound(r, g) /\ r.offenses = d.offenses /\ r.expire = d.expire
         /\ d.expire[a] <= executedAt
         /\ \A x \in Stakes!Stakes : x # a => r.bal[x] = d.bal[x]
<1> DEFINE moved == Stakes!Transfer(d, a, a[2], amount, key)
<1>1. d \in StkStakeDb BY DEF StkSound
<1>2. moved # Failed /\ r = Stakes!Counted(moved, a[1], -amount) /\ ~(d.expire[a] > executedAt) BY DEF Stakes!Unstake
<1>3. d.expire[a] \in Nat BY <1>1 DEF StkStakeDb
<1> HIDE DEF moved
<1>4. a[1] \in Service /\ a[2] \in Staker /\ a \in Stakes!Account /\ a[2] \in Stakes!Account BY StkAccountSets
<1>5. StkPaying(d, moved, a, a[2], amount) BY <1>1, <1>2, <1>4, StkTransferPays DEF moved
<1>6. /\ moved \in StkStakeDb /\ moved.expire = d.expire /\ moved.offenses = d.offenses
      /\ moved.total = d.total /\ moved.sum = d.sum
      /\ Paid(Stakes!Account, d.bal, moved.bal, a, a[2], amount)
  BY <1>5 DEF StkPaying
<1>7. StkSumIsRight(moved) BY <1>6 DEF StkSumIsRight, StkSound
<1>8. StkCounting(moved, r, a[1], -amount) BY <1>2, <1>4, <1>6, <1>7, StkCountedCounts
<1>9. StkStakesBy(a, a, a[2], amount, -amount) BY DEF StkStakesBy
<1>10. StkSound(r, g) /\ r.expire = moved.expire /\ r.offenses = moved.offenses
       /\ \A x \in Stakes!Stakes : x # a => r.bal[x] = d.bal[x]
  BY <1>6, <1>8, <1>9, StkCountedMoves
<1> QED BY <1>2, <1>3, <1>6, <1>10

\* A user transfers tokens, to a user or to a staking account.
LEMMA StkTransferIsSound ==
  ASSUME Stakes!StakesAreAssumed, NEW g \in [Service -> Nat], NEW d, StkSound(d, g),
         NEW from \in Staker, NEW to \in Stakes!Account, NEW amount \in Nat,
         NEW r, StkPaying(d, r, from, to, amount)
  PROVE  /\ r.expire = d.expire /\ r.offenses = d.offenses
         /\ \A x \in Stakes!Stakes : r.bal[x] >= d.bal[x]
         /\ to \in Staker => StkSound(r, g)
         /\ to \in Stakes!Stakes => StkSound(r, [g EXCEPT ![to[1]] = @ + amount])
<1>1. /\ d \in StkStakeDb
      /\ TotalOf(d.bal, Stakes!Account) = StakerFunds * Cardinality(Staker)
      /\ \A s \in Service : TotalOf(d.bal, Stakes!StakesOf(s)) = d.total[s] + g[s]
      /\ StkSumIsRight(d)
  BY DEF StkSound
<1>2. /\ r \in StkStakeDb /\ Paid(Stakes!Account, d.bal, r.bal, from, to, amount)
      /\ r.expire = d.expire /\ r.total = d.total /\ r.sum = d.sum /\ r.offenses = d.offenses
  BY DEF StkPaying
<1>3. from \in Stakes!Account /\ from # to /\ r.bal[to] = d.bal[to] + amount
      /\ \A x \in Stakes!Account : x # from /\ x # to => r.bal[x] = d.bal[x]
  BY <1>2 DEF Paid
<1>4. /\ \A x \in Stakes!Stakes : x \in Stakes!Account /\ x # from /\ x[1] \in Service /\ x \in Stakes!StakesOf(x[1])
      /\ \A u \in Staker, s \in Service : u \notin Stakes!StakesOf(s)
      /\ \A x \in Stakes!Stakes, s \in Service : s # x[1] => x \notin Stakes!StakesOf(s)
      /\ \A s \in Service : Stakes!StakesOf(s) \in SUBSET Stakes!Account
  BY StkAccountSets
<1>5. \A x \in Stakes!Stakes : r.bal[x] >= d.bal[x]
  <2>1. \A x \in Stakes!Stakes : d.bal[x] \in Nat BY <1>1, <1>4 DEF StkStakeDb
  <2>2. \A x \in Stakes!Stakes : r.bal[x] = d.bal[x] \/ r.bal[x] = d.bal[x] + amount BY <1>3, <1>4
  <2> QED BY <2>1, <2>2
<1> DEFINE b == d.bal
           c == r.bal
<1>6. \A S \in SUBSET Stakes!Account :
        TotalOf(b, S) \in Int /\ TotalOf(c, S) \in Int /\ Transferred(b, c, S, from, to, amount)
  <2>1. Paid(Stakes!Account, b, c, from, to, amount) BY <1>2
  <2> HIDE DEF b, c
  <2> QED BY <2>1, StkAccountSets, PaidMoves
<1>7. TotalOf(r.bal, Stakes!Account) = StakerFunds * Cardinality(Staker)
  <2>1. Transferred(b, c, Stakes!Account, from, to, amount) /\ TotalOf(b, Stakes!Account) \in Int BY <1>6
  <2>2. TotalOf(c, Stakes!Account) = TotalOf(b, Stakes!Account) BY <1>3, <2>1 DEF Transferred, Moves
  <2> QED BY <1>1, <2>2
<1>8. StkSumIsRight(r) BY <1>1, <1>2 DEF StkSumIsRight
<1>9. ASSUME NEW h \in [Service -> Nat], NEW s \in Service,
             h[s] = IF to \in Stakes!StakesOf(s) THEN g[s] + amount ELSE g[s]
      PROVE  TotalOf(r.bal, Stakes!StakesOf(s)) = r.total[s] + h[s]
  <2>1. Transferred(b, c, Stakes!StakesOf(s), from, to, amount) /\ TotalOf(b, Stakes!StakesOf(s)) \in Int BY <1>4, <1>6
  <2>2. TotalOf(b, Stakes!StakesOf(s)) = d.total[s] + g[s] BY <1>1
  <2>3. d.total[s] \in Int /\ g[s] \in Int /\ r.total[s] = d.total[s] BY <1>1, <1>2 DEF StkStakeDb
  <2>4. from \notin Stakes!StakesOf(s) BY <1>4
  <2>5. TotalOf(c, Stakes!StakesOf(s)) = r.total[s] + h[s]
    BY <1>9, <2>1, <2>2, <2>3, <2>4 DEF Transferred, Moves
  <2> QED BY <2>5
<1>10. to \in Staker => StkSound(r, g)
  <2> HAVE to \in Staker
  <2>1. \A s \in Service : TotalOf(r.bal, Stakes!StakesOf(s)) = r.total[s] + g[s] BY <1>4, <1>9
  <2> QED BY <1>2, <1>7, <1>8, <2>1 DEF StkSound
<1>11. to \in Stakes!Stakes => StkSound(r, [g EXCEPT ![to[1]] = @ + amount])
  <2> HAVE to \in Stakes!Stakes
  <2> DEFINE h == [g EXCEPT ![to[1]] = @ + amount]
  <2>1. /\ h \in [Service -> Nat]
        /\ \A s \in Service : h[s] = IF to \in Stakes!StakesOf(s) THEN g[s] + amount ELSE g[s]
    BY <1>4
  <2> HIDE DEF h
  <2>2. \A s \in Service : TotalOf(r.bal, Stakes!StakesOf(s)) = r.total[s] + h[s] BY <1>9, <2>1
  <2>3. StkSound(r, h) BY <1>2, <1>7, <1>8, <2>2 DEF StkSound
  <2> QED BY <2>3 DEF h
<1> QED BY <1>2, <1>5, <1>10, <1>11

\* Setting a lock-up duration changes no books.
LEMMA StkLockupIsSound ==
  ASSUME NEW g, NEW d, StkSound(d, g), NEW s \in Service, NEW t \in Nat,
         NEW r, r = [d EXCEPT !.lockup[s] = t]
  PROVE  StkSound(r, g) /\ r.bal = d.bal /\ r.expire = d.expire /\ r.offenses = d.offenses
<1>1. d \in StkStakeDb BY DEF StkSound
<1>2. /\ r.bal = d.bal /\ r.expire = d.expire /\ r.total = d.total /\ r.sum = d.sum /\ r.offenses = d.offenses
      /\ r \in StkStakeDb
  BY <1>1 DEF StkStakeDb
<1> QED BY <1>2 DEF StkSound, StkSumIsRight

\* The larger of two integers
LEMMA StkLargerIs == \A i, j \in Int : Stakes!Max({i, j}) \in {i, j} /\ Stakes!Max({i, j}) >= i /\ Stakes!Max({i, j}) >= j
<1> TAKE i, j \in Int
<1>1. \E m \in {i, j} : \A y \in {i, j} : m >= y
  <2>1. CASE i >= j BY <2>1
  <2>2. CASE ~(i >= j) BY <2>2
  <2> QED BY <2>1, <2>2
<1>2. Stakes!Max({i, j}) \in {i, j} /\ \A y \in {i, j} : Stakes!Max({i, j}) >= y BY <1>1, Zenon DEF Stakes!Max
<1> QED BY <1>2

\* Offenses lock the stake of the offender for longer.
StkOffended(d, g, u, r) ==
  /\ StkSound(r, g) /\ r.bal = d.bal
  /\ \A x \in Stakes!Stakes : r.expire[x] >= d.expire[x]
  /\ \A x \in Staker : x # u => r.offenses[x] = d.offenses[x]
  /\ r.expire[<<Consensus, u>>] >= Extension * (Stakes!TwoTo(r.offenses[u]) - 1)

\* Offenses renew the lock-up of the consensus stake far enough (_handleOffenses).
LEMMA StkOffensesLock ==
  ASSUME Stakes!StakesAreAssumed, NEW g, NEW d, StkSound(d, g), NEW u \in Staker, NEW new \in 1..2, NEW blockTime \in Nat,
         d.expire[<<Consensus, u>>] >= Extension * (Stakes!TwoTo(d.offenses[u]) - 1)
  PROVE  StkOffended(d, g, u, Stakes!HandleOffenses(d, u, new, blockTime))
<1> DEFINE a == <<Consensus, u>>
           updated == d.offenses[u] + new
           current == Stakes!Max({d.expire[a], blockTime})
           more == Stakes!LockupExtension(new, updated)
           o == [d.offenses EXCEPT ![u] = updated]
           e == [d.expire EXCEPT ![a] = current + more]
           r == Stakes!HandleOffenses(d, u, new, blockTime)
<1>1. d \in StkStakeDb BY DEF StkSound
<1>2. a \in Stakes!Stakes /\ d.expire[a] \in Nat /\ d.offenses[u] \in Nat BY <1>1, StkAccountSets DEF StkStakeDb
<1>3. PICK n \in Nat : n = d.offenses[u] BY <1>2
<1>4. updated = n + new /\ updated \in Nat BY <1>3
<1>5. /\ more \in Nat
      /\ Moves(Extension * (Stakes!TwoTo(n) - 1), Extension * (Stakes!TwoTo(updated) - 1), 0, more)
  BY <1>4, StkExtensionIs
<1>6. current \in Nat /\ current >= d.expire[a]
  <2>1. d.expire[a] \in Int /\ blockTime \in Int BY <1>2
  <2> HIDE DEF a
  <2> QED BY <1>2, <2>1, StkLargerIs
<1>7. /\ Extension * (Stakes!TwoTo(n) - 1) \in Int
      /\ Extension * (Stakes!TwoTo(updated) - 1) \in Int
  <2>1. Extension \in Nat /\ Stakes!TwoTo(n) \in Nat /\ Stakes!TwoTo(updated) \in Nat BY <1>4, StkTwoToDoubles DEF Stakes!StakesAreAssumed
  <2> QED BY <2>1
<1>8. r = [bal |-> d.bal, sent |-> d.sent, expire |-> e, lockup |-> d.lockup, total |-> d.total,
           sum |-> d.sum, offenses |-> o]
  <2>1. r = [d EXCEPT !.offenses[u] = updated, !.expire[a] = current + more] BY DEF Stakes!HandleOffenses
  <2> HIDE DEF r, updated, current, more, a
  <2> QED BY <1>1, <2>1 DEF StkStakeDb
<1> HIDE DEF a, more, current, updated, r
<1>9. /\ e \in [Stakes!Stakes -> Nat] /\ o \in [Staker -> Nat]
      /\ e[a] = current + more /\ \A x \in Stakes!Stakes : x # a => e[x] = d.expire[x]
      /\ o[u] = updated /\ \A x \in Staker : x # u => o[x] = d.offenses[x]
  BY <1>1, <1>2, <1>4, <1>5, <1>6 DEF StkStakeDb
<1> HIDE DEF e, o
<1>10. r \in StkStakeDb /\ StkSumIsRight(r)
  BY <1>1, <1>8, <1>9 DEF StkSound, StkSumIsRight, StkStakeDb
<1>11. StkSound(r, g) BY <1>8, <1>10 DEF StkSound
<1>12. \A x \in Stakes!Stakes : d.expire[x] \in Nat BY <1>1 DEF StkStakeDb
<1>13. r.expire[a] >= Extension * (Stakes!TwoTo(r.offenses[u]) - 1)
  <2>1. d.expire[a] >= Extension * (Stakes!TwoTo(n) - 1) BY <1>3 DEF a
  <2>2. r.offenses[u] = updated /\ r.expire[a] = current + more BY <1>8, <1>9
  <2>3. PICK p \in Int : p = Extension * (Stakes!TwoTo(n) - 1) BY <1>7
  <2>4. PICK q \in Int : q = Extension * (Stakes!TwoTo(updated) - 1) BY <1>7
  <2>5. q = p + more - 0 BY <1>5, <2>3, <2>4 DEF Moves
  <2>6. current + more >= q BY <1>2, <1>5, <1>6, <2>1, <2>3, <2>5
  <2> QED BY <2>2, <2>4, <2>6
<1>14. StkOffended(d, g, u, r) BY <1>2, <1>5, <1>6, <1>8, <1>9, <1>11, <1>12, <1>13 DEF a, StkOffended
<1> QED BY <1>14 DEF r

\* The books of the genesis state
LEMMA StkGenesisIsSound ==
  ASSUME Stakes!StakesAreAssumed
  PROVE  StkSound(Stakes!Genesis, [s \in Service |-> 0]) /\ StkLocked(Stakes!Genesis, [a \in Stakes!Stakes |-> 0])
<1> DEFINE b == Stakes!Genesis.bal
           t == Stakes!Genesis.total
           g == [s \in Service |-> 0]
<1>1. StakerFunds \in Nat /\ Extension \in Nat BY DEF Stakes!StakesAreAssumed
<1>2. /\ b \in [Stakes!Account -> Nat]
      /\ \A x \in Staker : b[x] = StakerFunds
      /\ \A x \in Stakes!Stakes : b[x] = 0
  <2>1. \A x \in Stakes!Stakes : x \in Stakes!Account /\ x \notin Staker BY StkAccountSets
  <2>2. \A x \in Staker : x \in Stakes!Account BY StkAccountSets
  <2> HIDE DEF Stakes!Stakes, Stakes!Account
  <2> QED BY <1>1, <2>1, <2>2 DEF Stakes!Genesis
<1>3. t = [s \in Service |-> 0] /\ Stakes!Genesis.sum = None /\ Stakes!Genesis.expire = [a \in Stakes!Stakes |-> 0]
      /\ Stakes!Genesis.offenses = [u \in Staker |-> 0]
  BY DEF Stakes!Genesis
<1>4. Stakes!Genesis \in StkStakeDb
  <2>1. Stakes!Genesis = [bal |-> b, sent |-> {}, expire |-> [a \in Stakes!Stakes |-> 0], lockup |-> [s \in Service |-> 0],
                   total |-> t, sum |-> None, offenses |-> [u \in Staker |-> 0]]
    BY DEF Stakes!Genesis
  <2> HIDE DEF b
  <2> QED BY <1>2, <1>3, <2>1 DEF StkStakeDb
<1> HIDE DEF b
<1>5. TotalOf(b, Stakes!Account) = StakerFunds * Cardinality(Staker)
  <2>1. \A x \in Stakes!Account \ Staker : b[x] = 0 BY <1>2 DEF Stakes!Account
  <2>2. (\A x \in Stakes!Account : b[x] \in Int) /\ Staker \in SUBSET Stakes!Account BY <1>2 DEF Stakes!Account
  <2>3. TotalOf(b, Stakes!Account) = TotalOf(b, Staker) BY <2>1, <2>2, StkAccountSets, TotalOfPart
  <2>4. StakerFunds \in Int BY <1>1
  <2>5. TotalOf(b, Staker) = StakerFunds * Cardinality(Staker) BY <1>2, <2>4, StkAccountSets, TotalOfConstant
  <2> QED BY <2>3, <2>5
<1>6. ASSUME NEW s \in Service PROVE TotalOf(b, Stakes!StakesOf(s)) = t[s] + g[s]
  <2>1. \A x \in Stakes!StakesOf(s) : b[x] = 0 BY <1>2 DEF Stakes!StakesOf
  <2>2. TotalOf(b, Stakes!StakesOf(s)) = 0 BY <2>1, StkAccountSets, TotalOfZeros
  <2> QED BY <1>3, <2>2
<1>7. StkSound(Stakes!Genesis, g)
  <2>1. StkSumIsRight(Stakes!Genesis) BY <1>3 DEF StkSumIsRight
  <2> HIDE DEF g, t
  <2> QED BY <1>4, <1>5, <1>6, <2>1 DEF StkSound, b, t
<1>8. \A u \in Staker : Stakes!Genesis.expire[<<Consensus, u>>] >= Extension * (Stakes!TwoTo(Stakes!Genesis.offenses[u]) - 1)
  <2> TAKE u \in Staker
  <2>1. <<Consensus, u>> \in Stakes!Stakes BY StkAccountSets
  <2>2. Stakes!Genesis.expire[<<Consensus, u>>] = 0 /\ Stakes!Genesis.offenses[u] = 0
    <3> HIDE DEF Stakes!Stakes
    <3> QED BY <1>3, <2>1
  <2>3. Stakes!TwoTo(0) = 1 BY StkTwoToDoubles
  <2>4. Extension * (1 - 1) = 0 BY <1>1
  <2> QED BY <2>2, <2>3, <2>4
<1> HIDE DEF Stakes!Stakes
<1> QED BY <1>3, <1>7, <1>8 DEF StkLocked

\* What every step of a transaction keeps
StkKept(d, g, r, h) ==
  /\ StkSound(r, h) /\ h \in [Service -> Nat]
  /\ \A x \in Stakes!Stakes : r.expire[x] >= d.expire[x]
  /\ \A u \in Staker : r.expire[<<Consensus, u>>] >= Extension * (Stakes!TwoTo(r.offenses[u]) - 1)

\* Without a new offense, later ends of lock-ups are late enough.
LEMMA StkLockedIsKept ==
  ASSUME Stakes!StakesAreAssumed, NEW d, NEW g, StkSound(d, g), NEW p, StkLocked(d, p), NEW r \in StkStakeDb,
         r.offenses = d.offenses, \A x \in Stakes!Stakes : r.expire[x] >= d.expire[x]
  PROVE  \A u \in Staker : r.expire[<<Consensus, u>>] >= Extension * (Stakes!TwoTo(r.offenses[u]) - 1)
<1> TAKE u \in Staker
<1>1. <<Consensus, u>> \in Stakes!Stakes BY StkAccountSets
<1>2. d \in StkStakeDb BY DEF StkSound
<1>3. d.expire[<<Consensus, u>>] \in Int /\ r.expire[<<Consensus, u>>] \in Int BY <1>1, <1>2 DEF StkStakeDb
<1>4. PICK n \in Nat : n = d.offenses[u] BY <1>2 DEF StkStakeDb
<1>5. Stakes!TwoTo(n) \in Nat /\ Extension \in Nat BY StkTwoToDoubles DEF Stakes!StakesAreAssumed
<1>6. PICK q \in Int : q = Extension * (Stakes!TwoTo(n) - 1) BY <1>5
<1>7. d.expire[<<Consensus, u>>] >= q BY <1>4, <1>6 DEF StkLocked
<1>8. r.expire[<<Consensus, u>>] >= q BY <1>1, <1>3, <1>7
<1> QED BY <1>4, <1>6, <1>8

\* One transaction, at the time of its block or later
StkGiven(g, tx) ==
  IF tx.op = "transfer" /\ tx.to \in Stakes!Stakes THEN [g EXCEPT ![tx.to[1]] = @ + tx.amount] ELSE g

\* Whatever the transaction, the books stay right, what it stakes is locked up, and only
\* stakes whose lock-up is over lose tokens.
LEMMA StkApplyKeeps ==
  ASSUME Stakes!StakesAreAssumed, NEW d, NEW g \in [Service -> Nat], StkSound(d, g), NEW p, StkLocked(d, p),
         NEW tx \in Stakes!Tx, NEW key \in Nat, NEW executedAt \in Nat,
         NEW r, r = Stakes!Apply(d, tx, key, key, executedAt), r # Failed
  PROVE  /\ StkKept(d, g, r, StkGiven(g, tx))
         /\ tx.op = "stake" => /\ tx.stake \in Stakes!Stakes
                               /\ r.expire[tx.stake] >= key + d.lockup[tx.stake[1]]
         /\ \A x \in Stakes!Stakes : r.bal[x] < d.bal[x] => d.expire[x] <= executedAt
<1>1. d \in StkStakeDb BY DEF StkSound
<1>2. \A x \in Stakes!Stakes : x \in Stakes!Account /\ d.expire[x] \in Int /\ d.bal[x] \in Int
  BY <1>1, StkAccountSets DEF StkStakeDb
<1>3. StakedAmounts \subseteq Nat /\ Lockups \subseteq Nat BY DEF Stakes!StakesAreAssumed
<1>4. CASE tx.op = "transfer"
  <2>1. /\ tx.from \in Staker /\ tx.to \in Stakes!Account /\ tx.amount \in Nat
        /\ r = Stakes!Transfer(d, tx.from, tx.to, tx.amount, key)
    BY <1>3, <1>4 DEF Stakes!Tx, Stakes!Apply
  <2>2. tx.from \in Stakes!Account BY <2>1, StkAccountSets
  <2>3. StkPaying(d, r, tx.from, tx.to, tx.amount) BY <1>1, <2>1, <2>2, StkTransferPays
  <2>4. /\ r.expire = d.expire /\ r.offenses = d.offenses
        /\ \A x \in Stakes!Stakes : r.bal[x] >= d.bal[x]
        /\ tx.to \in Staker => StkSound(r, g)
        /\ tx.to \in Stakes!Stakes => StkSound(r, [g EXCEPT ![tx.to[1]] = @ + tx.amount])
    BY <2>1, <2>3, StkTransferIsSound
  <2>5. r \in StkStakeDb BY <2>3 DEF StkPaying
  <2>6. StkSound(r, StkGiven(g, tx)) /\ StkGiven(g, tx) \in [Service -> Nat]
    <3>1. CASE tx.to \in Stakes!Stakes
      <4>1. tx.to[1] \in Service BY <3>1, StkAccountSets
      <4> QED BY <1>4, <2>1, <2>4, <3>1, <4>1 DEF StkGiven
    <3>2. CASE tx.to \notin Stakes!Stakes
      <4>1. tx.to \in Staker BY <2>1, <3>2 DEF Stakes!Account
      <4> QED BY <2>4, <3>2, <4>1 DEF StkGiven
    <3> QED BY <3>1, <3>2
  <2>7. \A x \in Stakes!Stakes : r.expire[x] >= d.expire[x] BY <1>2, <2>4
  <2>8. \A u \in Staker : r.expire[<<Consensus, u>>] >= Extension * (Stakes!TwoTo(r.offenses[u]) - 1)
    BY <2>4, <2>5, <2>7, StkLockedIsKept
  <2>9. \A x \in Stakes!Stakes : r.bal[x] \in Int BY <1>2, <2>5 DEF StkStakeDb
  <2> QED BY <1>2, <1>4, <2>4, <2>6, <2>7, <2>8, <2>9 DEF StkKept
<1>5. CASE tx.op = "stake"
  <2>1. /\ tx.stake \in Stakes!Stakes /\ tx.amount \in Nat
        /\ r = Stakes!Stake(d, tx.stake, tx.amount, key, key)
    BY <1>3, <1>5 DEF Stakes!Tx, Stakes!Apply
  <2>2. /\ StkSound(r, g) /\ r.offenses = d.offenses
        /\ \A x \in Stakes!Stakes : r.bal[x] >= d.bal[x] /\ r.expire[x] >= d.expire[x]
        /\ r.expire[tx.stake] >= key + d.lockup[tx.stake[1]]
    <3>1. PICK a \in Stakes!Stakes, k \in Nat : a = tx.stake /\ k = tx.amount BY <2>1
    <3>2. Stakes!Stake(d, a, k, key, key) = r /\ Stakes!Stake(d, a, k, key, key) # Failed BY <2>1, <3>1
    <3>3. StkStaked(d, g, a, key, r) BY <3>2, StkStakeIs
    <3> QED BY <3>1, <3>3 DEF StkStaked
  <2>3. StkGiven(g, tx) = g BY <1>5 DEF StkGiven
  <2>4. r \in StkStakeDb BY <2>2 DEF StkSound
  <2>5. \A u \in Staker : r.expire[<<Consensus, u>>] >= Extension * (Stakes!TwoTo(r.offenses[u]) - 1)
    BY <2>2, <2>4, StkLockedIsKept
  <2>6. \A x \in Stakes!Stakes : r.bal[x] \in Int BY <1>2, <2>4 DEF StkStakeDb
  <2> QED BY <1>2, <2>1, <2>2, <2>3, <2>5, <2>6 DEF StkKept
<1>6. CASE tx.op = "unstake"
  <2>1. /\ tx.stake \in Stakes!Stakes /\ tx.amount \in Nat
        /\ r = Stakes!Unstake(d, tx.stake, tx.amount, key, executedAt)
    BY <1>3, <1>6 DEF Stakes!Tx, Stakes!Apply
  <2>2. /\ StkSound(r, g) /\ r.offenses = d.offenses /\ r.expire = d.expire
        /\ d.expire[tx.stake] <= executedAt
        /\ \A x \in Stakes!Stakes : x # tx.stake => r.bal[x] = d.bal[x]
    BY <2>1, StkUnstakeIs
  <2>3. StkGiven(g, tx) = g BY <1>6 DEF StkGiven
  <2>4. r \in StkStakeDb BY <2>2 DEF StkSound
  <2>5. \A x \in Stakes!Stakes : r.expire[x] >= d.expire[x] BY <1>2, <2>2
  <2>6. \A u \in Staker : r.expire[<<Consensus, u>>] >= Extension * (Stakes!TwoTo(r.offenses[u]) - 1)
    BY <2>2, <2>4, <2>5, StkLockedIsKept
  <2> QED BY <1>2, <1>6, <2>2, <2>3, <2>5, <2>6 DEF StkKept
<1>7. CASE tx.op = "lockup"
  <2>1. /\ tx.service \in Service /\ tx.duration \in Nat
        /\ r = [d EXCEPT !.lockup[tx.service] = tx.duration]
    BY <1>3, <1>7 DEF Stakes!Tx, Stakes!Apply
  <2>2. StkSound(r, g) /\ r.bal = d.bal /\ r.expire = d.expire /\ r.offenses = d.offenses
    BY <2>1, StkLockupIsSound
  <2>3. StkGiven(g, tx) = g BY <1>7 DEF StkGiven
  <2>4. r \in StkStakeDb BY <2>2 DEF StkSound
  <2>5. \A x \in Stakes!Stakes : r.expire[x] >= d.expire[x] BY <1>2, <2>2
  <2>6. \A u \in Staker : r.expire[<<Consensus, u>>] >= Extension * (Stakes!TwoTo(r.offenses[u]) - 1)
    BY <2>2, <2>4, <2>5, StkLockedIsKept
  <2> QED BY <1>2, <1>7, <2>2, <2>3, <2>5, <2>6 DEF StkKept
<1>8. CASE tx.op = "propose"
  <2>1. /\ tx.offender \in Staker /\ tx.new \in 1..2
        /\ r = Stakes!HandleOffenses(d, tx.offender, tx.new, key)
    BY <1>8 DEF Stakes!Tx, Stakes!Apply
  <2>2. \A u \in Staker : d.expire[<<Consensus, u>>] >= Extension * (Stakes!TwoTo(d.offenses[u]) - 1) BY DEF StkLocked
  <2>3. /\ StkSound(r, g) /\ r.bal = d.bal
        /\ \A x \in Stakes!Stakes : r.expire[x] >= d.expire[x]
        /\ \A x \in Staker : x # tx.offender => r.offenses[x] = d.offenses[x]
        /\ r.expire[<<Consensus, tx.offender>>] >= Extension * (Stakes!TwoTo(r.offenses[tx.offender]) - 1)
    <3>1. PICK u \in Staker, n \in 1..2 : u = tx.offender /\ n = tx.new BY <2>1
    <3>2. StkOffended(d, g, u, Stakes!HandleOffenses(d, u, n, key)) BY <2>2, StkOffensesLock
    <3> QED BY <2>1, <3>1, <3>2 DEF StkOffended
  <2>4. StkGiven(g, tx) = g BY <1>8 DEF StkGiven
  <2>5. \A u \in Staker : r.expire[<<Consensus, u>>] >= Extension * (Stakes!TwoTo(r.offenses[u]) - 1)
    <3> TAKE u \in Staker
    <3>1. CASE u = tx.offender BY <2>3, <3>1
    <3>2. CASE u # tx.offender
      <4>1. r \in StkStakeDb BY <2>3 DEF StkSound
      <4>2. <<Consensus, u>> \in Stakes!Stakes BY StkAccountSets
      <4>3. r.offenses[u] = d.offenses[u] BY <2>3, <3>2
      <4>4. d.expire[<<Consensus, u>>] \in Int /\ r.expire[<<Consensus, u>>] \in Int
            /\ r.expire[<<Consensus, u>>] >= d.expire[<<Consensus, u>>]
        BY <1>2, <2>3, <4>1, <4>2 DEF StkStakeDb
      <4>5. PICK n \in Nat : n = d.offenses[u] BY <1>1 DEF StkStakeDb
      <4>6. Stakes!TwoTo(n) \in Nat /\ Extension \in Nat BY StkTwoToDoubles DEF Stakes!StakesAreAssumed
      <4>7. PICK q \in Int : q = Extension * (Stakes!TwoTo(n) - 1) BY <4>6
      <4>8. d.expire[<<Consensus, u>>] >= q BY <2>2, <4>5, <4>7
      <4>9. r.expire[<<Consensus, u>>] >= q BY <4>4, <4>8
      <4> QED BY <4>3, <4>5, <4>7, <4>9
    <3> QED BY <3>1, <3>2
  <2> QED BY <1>2, <1>8, <2>3, <2>4, <2>5 DEF StkKept
<1> QED BY <1>4, <1>5, <1>6, <1>7, <1>8 DEF Stakes!Tx

\* The invariant of the stakes holds at first, is kept by every step, and says what is claimed.
LEMMA StkInitHolds ==
  ASSUME Stakes!StakesAreAssumed, Stakes!ClockIsAssumed, Stakes!Init
  PROVE  StkIInv
<1>1. StkSound(stakeDb, stakeGiven) /\ StkLocked(stakeDb, stakePromised) BY StkGenesisIsSound DEF Stakes!Init
<1>2. stakeClock \in 1..MaxClock BY DEF Stakes!Init, Stakes!ClockIsAssumed
<1> QED BY <1>1, <1>2 DEF Stakes!Init, StkIInv

\* A step keeps the invariant, and takes only tokens whose lock-ups are over.
LEMMA StkStepHolds ==
  ASSUME Stakes!StakesAreAssumed, Stakes!ClockIsAssumed, StkIInv, [Stakes!Next]_Stakes!vars
  PROVE  StkIInv' /\ \A a \in Stakes!Stakes : stakeDb'.bal[a] < stakeDb.bal[a] => stakePromised[a] <= stakeClock
<1>1. /\ StkSound(stakeDb, stakeGiven) /\ StkLocked(stakeDb, stakePromised) /\ stakeClock \in 1..MaxClock /\ stakeClock \in Nat /\ stakeClock - 1 \in Nat
      /\ stakeGiven \in [Service -> Nat] /\ stakePromised \in [Stakes!Stakes -> Nat] /\ stakeDb \in StkStakeDb
  BY DEF StkIInv, StkSound
<1>2. ASSUME NEW tx \in Stakes!Tx, Stakes!Execute(tx)
      PROVE  StkIInv' /\ \A a \in Stakes!Stakes : stakeDb'.bal[a] < stakeDb.bal[a] => stakePromised[a] <= stakeClock
  <2>1. PICK blockTime \in {stakeClock - 1, stakeClock} :
          /\ stakeDb' = Stakes!Apply(stakeDb, tx, blockTime, blockTime, stakeClock) /\ stakeDb' # Failed
          /\ stakeGiven' = StkGiven(stakeGiven, tx)
          /\ stakePromised' = IF tx.op = "stake"
                           THEN [stakePromised EXCEPT ![tx.stake] =
                                   Stakes!Max({@, blockTime + stakeDb.lockup[tx.stake[1]]})]
                           ELSE stakePromised
          /\ UNCHANGED stakeClock
    BY <1>2 DEF Stakes!Execute, StkGiven
  <2>2. PICK k \in Nat, t \in Nat : k = blockTime /\ t = stakeClock BY <1>1
  <2> DEFINE r == stakeDb'
  <2>3. r = Stakes!Apply(stakeDb, tx, k, k, t) /\ r # Failed BY <2>1, <2>2
  <2> HIDE DEF r
  <2>4. /\ StkKept(stakeDb, stakeGiven, r, StkGiven(stakeGiven, tx))
        /\ tx.op = "stake" => tx.stake \in Stakes!Stakes /\ r.expire[tx.stake] >= k + stakeDb.lockup[tx.stake[1]]
        /\ \A x \in Stakes!Stakes : r.bal[x] < stakeDb.bal[x] => stakeDb.expire[x] <= t
    BY <1>1, <2>3, StkApplyKeeps
  <2>5. /\ StkSound(r, stakeGiven') /\ stakeGiven' \in [Service -> Nat]
        /\ \A x \in Stakes!Stakes : r.expire[x] >= stakeDb.expire[x]
        /\ \A u \in Staker : r.expire[<<Consensus, u>>] >= Extension * (Stakes!TwoTo(r.offenses[u]) - 1)
        /\ r \in StkStakeDb
    BY <2>1, <2>4 DEF StkKept, StkSound
  <2>6. \A x \in Stakes!Stakes : /\ stakePromised[x] \in Nat /\ stakePromised[x] <= stakeDb.expire[x]
                          /\ stakeDb.expire[x] \in Nat /\ r.expire[x] \in Nat
    BY <1>1, <2>5 DEF StkLocked, StkStakeDb
  <2>7. stakePromised' \in [Stakes!Stakes -> Nat] /\ \A x \in Stakes!Stakes : stakePromised'[x] <= r.expire[x]
    <3>1. CASE tx.op = "stake"
      <4>1. PICK a \in Stakes!Stakes : a = tx.stake BY <2>4, <3>1
      <4>2. PICK n \in Nat : n = k + stakeDb.lockup[a[1]]
        <5>1. stakeDb.lockup[a[1]] \in Nat BY <1>1, StkAccountSets DEF StkStakeDb
        <5> QED BY <5>1
      <4>3. PICK i \in Int : i = stakePromised[a] /\ i \in Nat BY <2>6
      <4>4. PICK m \in Nat : m = Stakes!Max({i, n}) /\ m \in {i, n}
        <5>1. n \in Int OBVIOUS
        <5>2. Stakes!Max({i, n}) \in {i, n} BY <5>1, StkLargerIs
        <5>3. Stakes!Max({i, n}) \in Nat BY <4>3, <5>2
        <5> QED BY <5>2, <5>3
      <4>5. stakePromised' = [stakePromised EXCEPT ![a] = m] BY <2>1, <2>2, <3>1, <4>1, <4>2, <4>3, <4>4
      <4>6. m <= r.expire[a]
        <5>1. r.expire[a] >= n BY <2>4, <3>1, <4>1, <4>2
        <5>2. r.expire[a] >= i BY <2>5, <2>6, <4>3
        <5> QED BY <2>6, <4>3, <4>4, <5>1, <5>2
      <4>7. stakePromised' \in [Stakes!Stakes -> Nat] /\ stakePromised'[a] = m
            /\ \A x \in Stakes!Stakes : x # a => stakePromised'[x] = stakePromised[x]
        BY <1>1, <4>5
      <4>8. \A x \in Stakes!Stakes : x # a => stakePromised'[x] <= r.expire[x] BY <2>5, <2>6, <4>7
      <4> QED BY <4>6, <4>7, <4>8
    <3>2. CASE tx.op # "stake"
      <4>1. stakePromised' = stakePromised BY <2>1, <3>2
      <4>2. \A x \in Stakes!Stakes : stakePromised[x] <= r.expire[x] BY <2>5, <2>6
      <4> QED BY <1>1, <4>1, <4>2
    <3> QED BY <3>1, <3>2
  <2>8. \A x \in Stakes!Stakes : r.bal[x] < stakeDb.bal[x] => stakePromised[x] <= stakeClock
    BY <1>1, <2>2, <2>4, <2>6
  <2>9. StkLocked(r, stakePromised') BY <2>5, <2>7 DEF StkLocked
  <2>10. StkIInv' BY <1>1, <2>1, <2>5, <2>7, <2>9 DEF StkIInv, r
  <2> QED BY <2>8, <2>10 DEF r
<1>3. CASE Stakes!Tick
  <2>1. UNCHANGED <<stakeDb, stakeGiven, stakePromised>> /\ stakeClock' \in 1..MaxClock BY <1>1, <1>3 DEF Stakes!Tick, Stakes!ClockIsAssumed
  <2>2. \A a \in Stakes!Stakes : ~(stakeDb'.bal[a] < stakeDb.bal[a])
    <3>1. \A a \in Stakes!Stakes : stakeDb.bal[a] \in Int BY <1>1, StkAccountSets DEF StkStakeDb
    <3> QED BY <2>1, <3>1
  <2> QED BY <1>1, <2>1, <2>2 DEF StkIInv
<1>4. CASE UNCHANGED Stakes!vars
  <2>1. \A a \in Stakes!Stakes : ~(stakeDb'.bal[a] < stakeDb.bal[a])
    <3>1. \A a \in Stakes!Stakes : stakeDb.bal[a] \in Int BY <1>1, StkAccountSets DEF StkStakeDb
    <3> QED BY <1>4, <3>1 DEF Stakes!vars
  <2> QED BY <1>1, <1>4, <2>1 DEF StkIInv, Stakes!vars
<1> QED BY <1>2, <1>3, <1>4
  DEF Stakes!Next, Stakes!TransferTokens, Stakes!StakeTokens, Stakes!UnstakeTokens, Stakes!SetLockup, Stakes!ProposeWithOffenses

\* The invariant gives what the runs check.
LEMMA StkInvariantSays ==
  ASSUME Stakes!StakesAreAssumed, StkIInv
  PROVE  Stakes!TypeOK /\ Stakes!Conserved /\ Stakes!StakesAddUp /\ Stakes!OffensesAreSummed
<1>1. stakeDb \in StkStakeDb /\ stakeClock \in 1..MaxClock BY DEF StkIInv, StkSound
<1>2. Stakes!TypeOK BY <1>1 DEF Stakes!TypeOK, StkStakeDb
<1>3. Stakes!Conserved BY StkTotalIsSum, StkPlain DEF Stakes!Conserved, StkIInv, StkSound
<1>4. Stakes!StakesAddUp BY StkTotalIsSum DEF Stakes!StakesAddUp, StkIInv, StkSound, StkSumIsRight, Stakes!SumOfTotals
<1>5. Stakes!OffensesAreSummed BY DEF Stakes!OffensesAreSummed, StkIInv, StkLocked
<1> QED BY <1>2, <1>3, <1>4, <1>5

-----------------------------------------------------------------------------
(* The token bridge: pending amounts, the daily limit and the pools.       *)

\* The instance has its own names for these.
LEMMA BriPlain == \A S : (Bridge!IsFiniteSet(S) <=> IsFiniteSet(S)) /\ Bridge!Cardinality(S) = Cardinality(S)
<1>1. \A S : Bridge!IsFiniteSet(S) <=> IsFiniteSet(S) BY Zenon DEF IsFiniteSet, Bridge!IsFiniteSet
<1>2. \A S : Bridge!Cardinality(S) = Cardinality(S)
  BY Zenon DEF Cardinality, Bridge!Cardinality, IsFiniteSet, Bridge!IsFiniteSet
<1> QED BY <1>1, <1>2

\* The sums of the module are the sums of the kit.
LEMMA BriTotalIsSum == \A f, S : Bridge!Total(f, S) = TotalOf(f, S)
BY Zenon DEF Bridge!Total, TotalOf, Bridge!MapThenSumSet, Bridge!MapThenFoldSet, Sums!Fold, Sums!FoldOf, Sums!IsFold, Plus, ValueAt, AnyOf

\* What the proofs need of the constants
LEMMA BriConstants ==
  ASSUME Bridge!BridgeIsAssumed
  PROVE  /\ IsFiniteSet(Bridge!Account) /\ IsFiniteSet(Pool) /\ Pool \in SUBSET Bridge!Account
         /\ \A u \in User : u \in Bridge!Account /\ u \notin Pool
         /\ \A p \in Pool : p \in Bridge!Account /\ p \notin User /\ p \notin Sender
         /\ BridgeFunds \in Nat /\ BridgeAmounts \subseteq Nat /\ FeeRates \subseteq Nat
         /\ MaxPerDay \in Nat /\ MaxRequests \in Nat /\ MaxDay \in Nat /\ MaxDay >= 1
<1>1. IsFiniteSet(User) /\ IsFiniteSet(Pool) BY BriPlain DEF Bridge!BridgeIsAssumed
<1>2. IsFiniteSet(User \cup Pool) BY <1>1, FS_Union
<1> QED BY <1>1, <1>2 DEF Bridge!BridgeIsAssumed, Bridge!Account

-----------------------------------------------------------------------------
\* Open requests are a function on some of the ids.
BriRequestsOf(R) == UNION {[S -> R] : S \in SUBSET Bridge!Id}
BriInRequest == [user : User, sender : Sender, amount : Nat]
BriOutRequest == [user : User, amount : Nat, feeRate : Nat]

\* Open requests are finitely many.
LEMMA BriRequestsAre ==
  ASSUME Bridge!BridgeIsAssumed, NEW R, NEW f, f \in BriRequestsOf(R)
  PROVE  /\ DOMAIN f \in SUBSET Bridge!Id /\ IsFiniteSet(DOMAIN f)
         /\ f \in [DOMAIN f -> R] /\ \A id \in DOMAIN f : f[id] \in R
<1>1. PICK S \in SUBSET Bridge!Id : f \in [S -> R] BY DEF BriRequestsOf
<1>2. IsFiniteSet(Bridge!Id)
  <2>1. MaxRequests \in Nat BY BriConstants
  <2> QED BY <2>1, FS_Interval DEF Bridge!Id
<1>3. IsFiniteSet(S) BY <1>1, <1>2, FS_Subset
<1> QED BY <1>1, <1>3

\* A function on some ids is one of the requests that may be open.
LEMMA BriRequestsWith ==
  ASSUME NEW R, NEW S \in SUBSET Bridge!Id, NEW f \in [S -> R]
  PROVE  f \in BriRequestsOf(R)
BY DEF BriRequestsOf

\* A request n is added to r, or taken away.
BriAdds(r, q, n, request) ==
  /\ n \notin DOMAIN r /\ DOMAIN q = DOMAIN r \cup {n}
  /\ q[n] = request /\ \A id \in DOMAIN r : q[id] = r[id]
BriRemoves(r, q, n) ==
  /\ n \in DOMAIN r /\ DOMAIN q = DOMAIN r \ {n}
  /\ \A id \in DOMAIN q : q[id] = r[id]

\* Opening a request adds it under a new id.
LEMMA BriOpenAdds ==
  ASSUME Bridge!BridgeIsAssumed, NEW R, NEW r \in BriRequestsOf(R), NEW request \in R, bridgeOpened + 1 \in Bridge!Id, bridgeOpened + 1 \notin DOMAIN r
  PROVE  Bridge!Open(r, request) \in BriRequestsOf(R) /\ BriAdds(r, Bridge!Open(r, request), bridgeOpened + 1, request)
<1>1. DOMAIN r \in SUBSET Bridge!Id /\ r \in [DOMAIN r -> R] BY BriRequestsAre
<1> DEFINE n == bridgeOpened + 1
           S == DOMAIN r \cup {n}
           q == Bridge!Open(r, request)
<1>2. S \in SUBSET Bridge!Id /\ q \in [S -> R] BY <1>1 DEF Bridge!Open
<1>3. BriAdds(r, q, n, request) BY <1>1, <1>2 DEF BriAdds, Bridge!Open
<1> HIDE DEF q, S
<1>4. q \in BriRequestsOf(R) BY <1>2, BriRequestsWith
<1> QED BY <1>3, <1>4 DEF q

\* Closing a request removes it only.
LEMMA BriCloseRemoves ==
  ASSUME Bridge!BridgeIsAssumed, NEW R, NEW r \in BriRequestsOf(R), NEW id \in DOMAIN r
  PROVE  Bridge!Close(r, id) \in BriRequestsOf(R) /\ BriRemoves(r, Bridge!Close(r, id), id)
<1>1. DOMAIN r \in SUBSET Bridge!Id /\ r \in [DOMAIN r -> R] BY BriRequestsAre
<1> DEFINE S == DOMAIN r \ {id}
           q == Bridge!Close(r, id)
<1>2. S \in SUBSET Bridge!Id /\ q \in [S -> R] BY <1>1 DEF Bridge!Close, Bridge!Restrict
<1>3. BriRemoves(r, q, id) BY <1>1, <1>2 DEF BriRemoves, Bridge!Close, Bridge!Restrict
<1> HIDE DEF q, S
<1>4. q \in BriRequestsOf(R) BY <1>2, BriRequestsWith
<1> QED BY <1>3, <1>4 DEF q

-----------------------------------------------------------------------------
\* The cost of requests: their amounts, or what the pools got for them
BriAmountsOf(r, ids) == TotalOf([id \in ids |-> r[id].amount], ids)
BriCostsOf(r) == TotalOf([id \in DOMAIN r |-> Bridge!WithFee(r[id].amount, r[id].feeRate)], DOMAIN r)

\* The sums of the module are those of the kit.
LEMMA BriSummedIs == \A r, ids : Bridge!Summed(r, ids) = BriAmountsOf(r, ids)
BY BriTotalIsSum DEF Bridge!Summed, BriAmountsOf

\* An added request counts in the sum it belongs to, and in no other.
LEMMA BriAmountsAdd ==
  ASSUME NEW r, IsFiniteSet(DOMAIN r), \A id \in DOMAIN r : r[id].amount \in Nat,
         NEW q, NEW n, NEW request, request.amount \in Nat, BriAdds(r, q, n, request),
         NEW ids \in SUBSET DOMAIN r
  PROVE  /\ BriAmountsOf(r, ids) \in Nat
         /\ BriAmountsOf(q, ids) = BriAmountsOf(r, ids)
         /\ Moves(BriAmountsOf(r, ids), BriAmountsOf(q, ids \cup {n}), 0, request.amount)
<1> DEFINE c == [id \in ids |-> r[id].amount]
           e == [id \in ids |-> q[id].amount]
           T == ids \cup {n}
           d == [id \in T |-> q[id].amount]
<1>1. IsFiniteSet(ids) /\ n \notin ids BY FS_Subset DEF BriAdds
<1>2. /\ \A id \in ids : c[id] \in Nat /\ c[id] \in Int /\ d[id] = c[id] /\ e[id] = c[id]
      /\ d[n] = request.amount /\ d[n] \in Int
  BY DEF BriAdds
<1> HIDE DEF c, d, e
<1>3. Moves(TotalOf(c, ids), TotalOf(d, T), 0, d[n]) BY <1>1, <1>2, TotalGains
<1>4. TotalOf(c, ids) \in Nat /\ TotalOf(e, ids) = TotalOf(c, ids) BY <1>1, <1>2, TotalIsNat, TotalsAgree
<1>5. BriAmountsOf(r, ids) = TotalOf(c, ids) /\ BriAmountsOf(q, ids) = TotalOf(e, ids) /\ BriAmountsOf(q, T) = TotalOf(d, T)
  BY DEF BriAmountsOf, c, d, e
<1> HIDE DEF T
<1>6. Moves(BriAmountsOf(r, ids), BriAmountsOf(q, T), 0, request.amount) BY <1>2, <1>3, <1>5
<1> QED BY <1>4, <1>5, <1>6 DEF T

\* A removed request is gone from the sum it belonged to, and from no other.
LEMMA BriAmountsLose ==
  ASSUME NEW r, IsFiniteSet(DOMAIN r), \A id \in DOMAIN r : r[id].amount \in Nat,
         NEW q, NEW n, BriRemoves(r, q, n), NEW ids \in SUBSET DOMAIN r
  PROVE  /\ BriAmountsOf(r, ids) \in Nat
         /\ n \in ids => Moves(BriAmountsOf(r, ids), BriAmountsOf(q, ids \ {n}), r[n].amount, 0)
         /\ n \notin ids => BriAmountsOf(q, ids) = BriAmountsOf(r, ids)
<1> DEFINE c == [id \in ids |-> r[id].amount]
           e == [id \in ids |-> q[id].amount]
           T == ids \ {n}
           d == [id \in T |-> q[id].amount]
<1>1. IsFiniteSet(ids) BY FS_Subset
<1>2. \A id \in ids : c[id] \in Nat /\ c[id] \in Int OBVIOUS
<1>3. TotalOf(c, ids) \in Nat
  <2> HIDE DEF c
  <2> QED BY <1>1, <1>2, TotalIsNat
<1>4. ASSUME n \in ids PROVE Moves(BriAmountsOf(r, ids), BriAmountsOf(q, T), r[n].amount, 0)
  <2>1. (\A id \in ids : id # n => d[id] = c[id]) /\ c[n] = r[n].amount BY <1>4 DEF BriRemoves
  <2> HIDE DEF c, d
  <2>2. Moves(TotalOf(c, ids), TotalOf(d, T), c[n], 0) BY <1>1, <1>2, <1>4, <2>1, TotalLoses
  <2> QED BY <2>1, <2>2 DEF BriAmountsOf, c, d
<1>5. ASSUME n \notin ids PROVE BriAmountsOf(q, ids) = BriAmountsOf(r, ids)
  <2>1. \A id \in ids : e[id] = c[id] BY <1>5 DEF BriRemoves
  <2> HIDE DEF c, e
  <2>2. TotalOf(c, ids) = TotalOf(e, ids) BY <1>1, <1>2, <2>1, TotalsAgree
  <2> QED BY <2>2 DEF BriAmountsOf, c, e
<1> QED BY <1>3, <1>4, <1>5 DEF BriAmountsOf

\* An added check-out costs its amount and its fee.
LEMMA BriCostsAdd ==
  ASSUME Bridge!BridgeIsAssumed, NEW r \in BriRequestsOf(BriOutRequest), NEW q, NEW n, NEW request \in BriOutRequest,
         BriAdds(r, q, n, request)
  PROVE  /\ BriCostsOf(r) \in Nat /\ Bridge!WithFee(request.amount, request.feeRate) \in Nat
         /\ Moves(BriCostsOf(r), BriCostsOf(q), 0, Bridge!WithFee(request.amount, request.feeRate))
<1> DEFINE S == DOMAIN r
           T == DOMAIN q
           c == [id \in S |-> Bridge!WithFee(r[id].amount, r[id].feeRate)]
           d == [id \in T |-> Bridge!WithFee(q[id].amount, q[id].feeRate)]
           k == Bridge!WithFee(request.amount, request.feeRate)
<1>0. \A o \in BriOutRequest : Bridge!WithFee(o.amount, o.feeRate) \in Nat
  <2> TAKE o \in BriOutRequest
  <2>1. PICK a \in Nat, f \in Nat : a = o.amount /\ f = o.feeRate BY DEF BriOutRequest
  <2>2. a * f \in Nat BY <2>1
  <2>3. a + a * f \in Nat BY <2>1, <2>2
  <2> QED BY <2>1, <2>3 DEF Bridge!WithFee
<1>1. IsFiniteSet(S) /\ n \notin S /\ T = S \cup {n} BY BriRequestsAre DEF BriAdds
<1>2. \A id \in S : r[id] \in BriOutRequest BY BriRequestsAre
<1>3. \A id \in S : c[id] \in Nat BY <1>0, <1>2
<1>4. (\A id \in S : d[id] = c[id]) /\ d[n] = k BY <1>1 DEF BriAdds
<1>5. k \in Nat BY <1>0
<1> HIDE DEF c, d, k, S, T
<1>6. \A id \in S : c[id] \in Int /\ d[id] = c[id] BY <1>3, <1>4
<1>7. d[n] \in Int BY <1>4, <1>5
<1>8. Moves(TotalOf(c, S), TotalOf(d, S \cup {n}), 0, d[n]) BY <1>1, <1>6, <1>7, TotalGains
<1>9. TotalOf(c, S) \in Nat BY <1>1, <1>3, TotalIsNat
<1>10. BriCostsOf(r) = TotalOf(c, S) /\ BriCostsOf(q) = TotalOf(d, T) BY DEF BriCostsOf, c, d, S, T
<1>11. Moves(BriCostsOf(r), BriCostsOf(q), 0, k) BY <1>1, <1>4, <1>8, <1>10
<1> QED BY <1>5, <1>9, <1>10, <1>11 DEF k

\* Check-outs cost natural numbers.
LEMMA BriCostsAreNat ==
  ASSUME Bridge!BridgeIsAssumed, NEW r \in BriRequestsOf(BriOutRequest)
  PROVE  BriCostsOf(r) \in Nat
<1> DEFINE S == DOMAIN r
           c == [id \in S |-> Bridge!WithFee(r[id].amount, r[id].feeRate)]
<1>1. IsFiniteSet(S) /\ \A id \in S : r[id] \in BriOutRequest BY BriRequestsAre
<1>2. \A o \in BriOutRequest : Bridge!WithFee(o.amount, o.feeRate) \in Nat
  <2> TAKE o \in BriOutRequest
  <2>1. PICK a \in Nat, f \in Nat : a = o.amount /\ f = o.feeRate BY DEF BriOutRequest
  <2>2. a * f \in Nat BY <2>1
  <2>3. a + a * f \in Nat BY <2>1, <2>2
  <2> QED BY <2>1, <2>3 DEF Bridge!WithFee
<1>3. \A id \in S : c[id] \in Nat BY <1>1, <1>2
<1> HIDE DEF c, S
<1>4. TotalOf(c, S) \in Nat BY <1>1, <1>3, TotalIsNat
<1> QED BY <1>4 DEF BriCostsOf, c, S

\* A removed check-out does not cost any more.
LEMMA BriCostsLose ==
  ASSUME Bridge!BridgeIsAssumed, NEW r \in BriRequestsOf(BriOutRequest), NEW q, NEW n, BriRemoves(r, q, n)
  PROVE  /\ BriCostsOf(r) \in Nat /\ Bridge!WithFee(r[n].amount, r[n].feeRate) \in Nat
         /\ Moves(BriCostsOf(r), BriCostsOf(q), Bridge!WithFee(r[n].amount, r[n].feeRate), 0)
<1> DEFINE S == DOMAIN r
           T == DOMAIN q
           c == [id \in S |-> Bridge!WithFee(r[id].amount, r[id].feeRate)]
           d == [id \in T |-> Bridge!WithFee(q[id].amount, q[id].feeRate)]
           k == Bridge!WithFee(r[n].amount, r[n].feeRate)
<1>0. \A o \in BriOutRequest : Bridge!WithFee(o.amount, o.feeRate) \in Nat
  <2> TAKE o \in BriOutRequest
  <2>1. PICK a \in Nat, f \in Nat : a = o.amount /\ f = o.feeRate BY DEF BriOutRequest
  <2>2. a * f \in Nat BY <2>1
  <2>3. a + a * f \in Nat BY <2>1, <2>2
  <2> QED BY <2>1, <2>3 DEF Bridge!WithFee
<1>1. IsFiniteSet(S) /\ n \in S /\ T = S \ {n} BY BriRequestsAre DEF BriRemoves
<1>2. \A id \in S : r[id] \in BriOutRequest BY BriRequestsAre
<1>3. \A id \in S : c[id] \in Nat BY <1>0, <1>2
<1>4. (\A id \in S : id # n => d[id] = c[id]) /\ c[n] = k BY <1>1 DEF BriRemoves
<1>5. k \in Nat BY <1>0, <1>1, <1>2
<1> HIDE DEF c, d, k, S, T
<1>6. \A id \in S : c[id] \in Int BY <1>3
<1>8. Moves(TotalOf(c, S), TotalOf(d, S \ {n}), c[n], 0) BY <1>1, <1>4, <1>6, TotalLoses
<1>9. TotalOf(c, S) \in Nat BY <1>1, <1>3, TotalIsNat
<1>10. BriCostsOf(r) = TotalOf(c, S) /\ BriCostsOf(q) = TotalOf(d, T) BY DEF BriCostsOf, c, d, S, T
<1>11. Moves(BriCostsOf(r), BriCostsOf(q), k, 0) BY <1>1, <1>4, <1>8, <1>10
<1> QED BY <1>5, <1>9, <1>10, <1>11 DEF k

-----------------------------------------------------------------------------
\* The pending amounts of senders and pools, when r are the open check-ins
BriSentBy(r, s) == {id \in DOMAIN r : r[id].sender = s}
BriPendingInIs(p, r) ==
  /\ r \in BriRequestsOf(BriInRequest)
  /\ p \in [Sender \cup Pool -> Int]
  /\ \A s \in Sender : p[s] = BriAmountsOf(r, BriSentBy(r, s))
  /\ TotalOf(p, Pool) = BriAmountsOf(r, DOMAIN r)

\* The pending amount of one sender and of one pool changes by k.
BriPends(p, p2, s, pool, k) ==
  /\ p2 \in [Sender \cup Pool -> Int]
  /\ p2[s] = p[s] + k /\ p2[pool] = p[pool] + k
  /\ \A x \in Sender \cup Pool : x # s /\ x # pool => p2[x] = p[x]

\* The pending amounts of the pools change by what is pending at one of them.
LEMMA BriPendingInMoves ==
  ASSUME Bridge!BridgeIsAssumed, NEW p \in [Sender \cup Pool -> Int], NEW p2, NEW s \in Sender, NEW pool \in Pool,
         NEW k \in Int, BriPends(p, p2, s, pool, k)
  PROVE  TotalOf(p, Pool) \in Int /\ Moves(TotalOf(p, Pool), TotalOf(p2, Pool), 0, k)
<1>1. /\ \A x \in Pool : p[x] \in Int /\ p2[x] \in Int
      /\ \A x \in Pool \ {pool} : p2[x] = p[x]
      /\ p2[pool] = p[pool] + k
  BY BriConstants DEF BriPends
<1>2. Moves(TotalOf(p, Pool), TotalOf(p2, Pool), p[pool], p2[pool]) BY <1>1, BriConstants, TotalShifts
<1>3. TotalOf(p, Pool) \in Int BY <1>1, BriConstants, TotalIsInt
<1> QED BY <1>1, <1>2, <1>3 DEF Moves

\* Pending amounts agree with the check-ins after one more is opened.
LEMMA BriPendingInOpens ==
  ASSUME Bridge!BridgeIsAssumed, NEW p, NEW r, BriPendingInIs(p, r), NEW request \in BriInRequest, NEW n,
         NEW q \in BriRequestsOf(BriInRequest), BriAdds(r, q, n, request),
         NEW pool \in Pool, NEW p2, BriPends(p, p2, request.sender, pool, request.amount)
  PROVE  BriPendingInIs(p2, q)
<1>1. /\ r \in BriRequestsOf(BriInRequest) /\ p \in [Sender \cup Pool -> Int]
      /\ \A s \in Sender : p[s] = BriAmountsOf(r, BriSentBy(r, s))
      /\ TotalOf(p, Pool) = BriAmountsOf(r, DOMAIN r)
  BY DEF BriPendingInIs
<1>2. IsFiniteSet(DOMAIN r) /\ \A id \in DOMAIN r : r[id].amount \in Nat
  <2>1. IsFiniteSet(DOMAIN r) /\ \A id \in DOMAIN r : r[id] \in BriInRequest BY <1>1, BriRequestsAre
  <2> QED BY <2>1 DEF BriInRequest
<1>3. PICK s0 \in Sender, k \in Nat : s0 = request.sender /\ k = request.amount BY DEF BriInRequest
<1>4. \A ids \in SUBSET DOMAIN r :
        /\ BriAmountsOf(r, ids) \in Nat
        /\ BriAmountsOf(q, ids) = BriAmountsOf(r, ids)
        /\ Moves(BriAmountsOf(r, ids), BriAmountsOf(q, ids \cup {n}), 0, k)
  <2>1. request.amount \in Nat BY <1>3
  <2> QED BY <1>2, <1>3, <2>1, BriAmountsAdd
<1>5. p2 \in [Sender \cup Pool -> Int] /\ s0 # pool /\ p2[s0] = p[s0] + k
      /\ \A x \in Sender : x # s0 => p2[x] = p[x]
  BY <1>3, BriConstants DEF BriPends
<1>6. ASSUME NEW s \in Sender PROVE p2[s] = BriAmountsOf(q, BriSentBy(q, s))
  <2>1. BriSentBy(r, s) \in SUBSET DOMAIN r BY DEF BriSentBy
  <2>2. CASE s = s0
    <3>1. BriSentBy(q, s) = BriSentBy(r, s) \cup {n} BY <1>3, <2>2 DEF BriSentBy, BriAdds
    <3>2. Moves(BriAmountsOf(r, BriSentBy(r, s)), BriAmountsOf(q, BriSentBy(q, s)), 0, k) /\ BriAmountsOf(r, BriSentBy(r, s)) \in Nat
      BY <1>4, <2>1, <3>1
    <3>3. p[s] = BriAmountsOf(r, BriSentBy(r, s)) BY <1>1
    <3> QED BY <1>5, <2>2, <3>2, <3>3 DEF Moves
  <2>3. CASE s # s0
    <3>1. BriSentBy(q, s) = BriSentBy(r, s) BY <1>3, <2>3 DEF BriSentBy, BriAdds
    <3>2. BriAmountsOf(q, BriSentBy(q, s)) = BriAmountsOf(r, BriSentBy(r, s)) BY <1>4, <2>1, <3>1
    <3> QED BY <1>1, <1>5, <2>3, <3>2
  <2> QED BY <2>2, <2>3
<1>7. TotalOf(p2, Pool) = BriAmountsOf(q, DOMAIN q)
  <2>1. DOMAIN q = DOMAIN r \cup {n} BY DEF BriAdds
  <2>2. Moves(BriAmountsOf(r, DOMAIN r), BriAmountsOf(q, DOMAIN q), 0, k) /\ BriAmountsOf(r, DOMAIN r) \in Nat
    BY <1>4, <2>1
  <2>3. BriPends(p, p2, s0, pool, k) BY <1>3
  <2>4. Moves(TotalOf(p, Pool), TotalOf(p2, Pool), 0, k)
    <3>1. k \in Int OBVIOUS
    <3> QED BY <1>1, <2>3, <3>1, BriPendingInMoves
  <2> QED BY <1>1, <2>2, <2>4 DEF Moves
<1> QED BY <1>5, <1>6, <1>7 DEF BriPendingInIs

\* Pending amounts agree with the check-ins after one is closed.
LEMMA BriPendingInCloses ==
  ASSUME Bridge!BridgeIsAssumed, NEW p, NEW r, BriPendingInIs(p, r), NEW n,
         NEW q \in BriRequestsOf(BriInRequest), BriRemoves(r, q, n),
         NEW pool \in Pool, NEW p2, BriPends(p, p2, r[n].sender, pool, -r[n].amount)
  PROVE  BriPendingInIs(p2, q)
<1>1. /\ r \in BriRequestsOf(BriInRequest) /\ p \in [Sender \cup Pool -> Int]
      /\ \A s \in Sender : p[s] = BriAmountsOf(r, BriSentBy(r, s))
      /\ TotalOf(p, Pool) = BriAmountsOf(r, DOMAIN r)
  BY DEF BriPendingInIs
<1>2. IsFiniteSet(DOMAIN r) /\ \A id \in DOMAIN r : r[id] \in BriInRequest /\ r[id].amount \in Nat
  <2>1. IsFiniteSet(DOMAIN r) /\ \A id \in DOMAIN r : r[id] \in BriInRequest BY <1>1, BriRequestsAre
  <2> QED BY <2>1 DEF BriInRequest
<1>3. PICK s0 \in Sender, k \in Nat : s0 = r[n].sender /\ k = r[n].amount BY <1>2 DEF BriInRequest, BriRemoves
<1>4. \A ids \in SUBSET DOMAIN r :
         /\ BriAmountsOf(r, ids) \in Nat
         /\ n \in ids => Moves(BriAmountsOf(r, ids), BriAmountsOf(q, ids \ {n}), k, 0)
         /\ n \notin ids => BriAmountsOf(q, ids) = BriAmountsOf(r, ids)
  BY <1>2, <1>3, BriAmountsLose
<1>5. p2 \in [Sender \cup Pool -> Int] /\ s0 # pool /\ p2[s0] = p[s0] - k
      /\ \A x \in Sender : x # s0 => p2[x] = p[x]
  <2>1. p[s0] \in Int BY <1>1
  <2> QED BY <1>3, <2>1, BriConstants DEF BriPends
<1>6. ASSUME NEW s \in Sender PROVE p2[s] = BriAmountsOf(q, BriSentBy(q, s))
  <2>1. BriSentBy(r, s) \in SUBSET DOMAIN r BY DEF BriSentBy
  <2>2. CASE s = s0
    <3>1. BriSentBy(q, s) = BriSentBy(r, s) \ {n} /\ n \in BriSentBy(r, s) BY <1>3, <2>2 DEF BriSentBy, BriRemoves
    <3>2. Moves(BriAmountsOf(r, BriSentBy(r, s)), BriAmountsOf(q, BriSentBy(q, s)), k, 0) /\ BriAmountsOf(r, BriSentBy(r, s)) \in Nat
      BY <1>4, <2>1, <3>1
    <3>3. p[s] = BriAmountsOf(r, BriSentBy(r, s)) BY <1>1
    <3> QED BY <1>5, <2>2, <3>2, <3>3 DEF Moves
  <2>3. CASE s # s0
    <3>1. BriSentBy(q, s) = BriSentBy(r, s) /\ n \notin BriSentBy(r, s) BY <1>3, <2>3 DEF BriSentBy, BriRemoves
    <3>2. BriAmountsOf(q, BriSentBy(q, s)) = BriAmountsOf(r, BriSentBy(r, s)) BY <1>4, <2>1, <3>1
    <3> QED BY <1>1, <1>5, <2>3, <3>2
  <2> QED BY <2>2, <2>3
<1>7. TotalOf(p2, Pool) = BriAmountsOf(q, DOMAIN q)
  <2>1. DOMAIN q = DOMAIN r \ {n} /\ n \in DOMAIN r BY DEF BriRemoves
  <2>2. Moves(BriAmountsOf(r, DOMAIN r), BriAmountsOf(q, DOMAIN q), k, 0) /\ BriAmountsOf(r, DOMAIN r) \in Nat
    BY <1>4, <2>1
  <2>3. BriPends(p, p2, s0, pool, -k) /\ -k \in Int BY <1>3
  <2>4. Moves(TotalOf(p, Pool), TotalOf(p2, Pool), 0, -k)
    <3>1. PICK j \in Int : j = -k OBVIOUS
    <3>2. BriPends(p, p2, s0, pool, j) BY <2>3, <3>1
    <3>3. Moves(TotalOf(p, Pool), TotalOf(p2, Pool), 0, j) BY <1>1, <3>2, BriPendingInMoves
    <3> QED BY <3>1, <3>3
  <2> QED BY <1>1, <2>2, <2>4 DEF Moves
<1> QED BY <1>5, <1>6, <1>7 DEF BriPendingInIs

-----------------------------------------------------------------------------
\* The pending amounts of users and in total, when r are the open check-outs
BriOfUser(r, u) == {id \in DOMAIN r : r[id].user = u}
BriPendingOutIs(p, t, r) ==
  /\ r \in BriRequestsOf(BriOutRequest)
  /\ p \in [User -> Int]
  /\ \A u \in User : p[u] = BriAmountsOf(r, BriOfUser(r, u))
  /\ t = BriAmountsOf(r, DOMAIN r) /\ t \in Nat

\* The pending amount of a user changes by k.
BriPendsOut(p, p2, u, k) ==
  p2 \in [User -> Int] /\ p2[u] = p[u] + k /\ \A x \in User : x # u => p2[x] = p[x]

\* Pending amounts agree with the check-outs after one more is opened.
LEMMA BriPendingOutOpens ==
  ASSUME Bridge!BridgeIsAssumed, NEW p, NEW t, NEW r, BriPendingOutIs(p, t, r), NEW request \in BriOutRequest, NEW n,
         NEW q \in BriRequestsOf(BriOutRequest), BriAdds(r, q, n, request),
         NEW p2, BriPendsOut(p, p2, request.user, request.amount)
  PROVE  BriPendingOutIs(p2, t + request.amount, q)
<1>1. /\ r \in BriRequestsOf(BriOutRequest) /\ p \in [User -> Int]
      /\ \A u \in User : p[u] = BriAmountsOf(r, BriOfUser(r, u))
      /\ t = BriAmountsOf(r, DOMAIN r) /\ t \in Nat
  BY DEF BriPendingOutIs
<1>2. IsFiniteSet(DOMAIN r) /\ \A id \in DOMAIN r : r[id].amount \in Nat
  <2>1. IsFiniteSet(DOMAIN r) /\ \A id \in DOMAIN r : r[id] \in BriOutRequest BY <1>1, BriRequestsAre
  <2> QED BY <2>1 DEF BriOutRequest
<1>3. PICK u0 \in User, k \in Nat : u0 = request.user /\ k = request.amount BY DEF BriOutRequest
<1>4. \A ids \in SUBSET DOMAIN r :
        /\ BriAmountsOf(r, ids) \in Nat
        /\ BriAmountsOf(q, ids) = BriAmountsOf(r, ids)
        /\ Moves(BriAmountsOf(r, ids), BriAmountsOf(q, ids \cup {n}), 0, k)
  <2>1. request.amount \in Nat BY <1>3
  <2> QED BY <1>2, <1>3, <2>1, BriAmountsAdd
<1>5. p2 \in [User -> Int] /\ p2[u0] = p[u0] + k /\ \A x \in User : x # u0 => p2[x] = p[x]
  BY <1>3 DEF BriPendsOut
<1>6. ASSUME NEW u \in User PROVE p2[u] = BriAmountsOf(q, BriOfUser(q, u))
  <2>1. BriOfUser(r, u) \in SUBSET DOMAIN r BY DEF BriOfUser
  <2>2. CASE u = u0
    <3>1. BriOfUser(q, u) = BriOfUser(r, u) \cup {n} BY <1>3, <2>2 DEF BriOfUser, BriAdds
    <3>2. Moves(BriAmountsOf(r, BriOfUser(r, u)), BriAmountsOf(q, BriOfUser(q, u)), 0, k) /\ BriAmountsOf(r, BriOfUser(r, u)) \in Nat
      BY <1>4, <2>1, <3>1
    <3>3. p[u] = BriAmountsOf(r, BriOfUser(r, u)) BY <1>1
    <3> QED BY <1>5, <2>2, <3>2, <3>3 DEF Moves
  <2>3. CASE u # u0
    <3>1. BriOfUser(q, u) = BriOfUser(r, u) BY <1>3, <2>3 DEF BriOfUser, BriAdds
    <3>2. BriAmountsOf(q, BriOfUser(q, u)) = BriAmountsOf(r, BriOfUser(r, u)) BY <1>4, <2>1, <3>1
    <3> QED BY <1>1, <1>5, <2>3, <3>2
  <2> QED BY <2>2, <2>3
<1>7. t + k = BriAmountsOf(q, DOMAIN q) /\ t + k \in Nat
  <2>1. DOMAIN q = DOMAIN r \cup {n} BY DEF BriAdds
  <2>2. Moves(BriAmountsOf(r, DOMAIN r), BriAmountsOf(q, DOMAIN q), 0, k) BY <1>4, <2>1
  <2> QED BY <1>1, <2>2 DEF Moves
<1> QED BY <1>3, <1>5, <1>6, <1>7 DEF BriPendingOutIs

\* Pending amounts agree with the check-outs after one is closed.
LEMMA BriPendingOutCloses ==
  ASSUME Bridge!BridgeIsAssumed, NEW p, NEW t, NEW r, BriPendingOutIs(p, t, r), NEW n,
         NEW q \in BriRequestsOf(BriOutRequest), BriRemoves(r, q, n),
         NEW p2, BriPendsOut(p, p2, r[n].user, -r[n].amount)
  PROVE  BriPendingOutIs(p2, t - r[n].amount, q)
<1>1. /\ r \in BriRequestsOf(BriOutRequest) /\ p \in [User -> Int]
      /\ \A u \in User : p[u] = BriAmountsOf(r, BriOfUser(r, u))
      /\ t = BriAmountsOf(r, DOMAIN r) /\ t \in Nat
  BY DEF BriPendingOutIs
<1>2. IsFiniteSet(DOMAIN r) /\ \A id \in DOMAIN r : r[id] \in BriOutRequest /\ r[id].amount \in Nat
  <2>1. IsFiniteSet(DOMAIN r) /\ \A id \in DOMAIN r : r[id] \in BriOutRequest BY <1>1, BriRequestsAre
  <2> QED BY <2>1 DEF BriOutRequest
<1>3. PICK u0 \in User, k \in Nat : u0 = r[n].user /\ k = r[n].amount BY <1>2 DEF BriOutRequest, BriRemoves
<1>4. \A ids \in SUBSET DOMAIN r :
         /\ BriAmountsOf(r, ids) \in Nat
         /\ n \in ids => Moves(BriAmountsOf(r, ids), BriAmountsOf(q, ids \ {n}), k, 0)
         /\ n \notin ids => BriAmountsOf(q, ids) = BriAmountsOf(r, ids)
  BY <1>2, <1>3, BriAmountsLose
<1>5. p2 \in [User -> Int] /\ p2[u0] = p[u0] - k /\ \A x \in User : x # u0 => p2[x] = p[x]
  <2>1. p[u0] \in Int BY <1>1
  <2> QED BY <1>3, <2>1 DEF BriPendsOut
<1>6. ASSUME NEW u \in User PROVE p2[u] = BriAmountsOf(q, BriOfUser(q, u))
  <2>1. BriOfUser(r, u) \in SUBSET DOMAIN r BY DEF BriOfUser
  <2>2. CASE u = u0
    <3>1. BriOfUser(q, u) = BriOfUser(r, u) \ {n} /\ n \in BriOfUser(r, u) BY <1>3, <2>2 DEF BriOfUser, BriRemoves
    <3>2. Moves(BriAmountsOf(r, BriOfUser(r, u)), BriAmountsOf(q, BriOfUser(q, u)), k, 0) /\ BriAmountsOf(r, BriOfUser(r, u)) \in Nat
      BY <1>4, <2>1, <3>1
    <3>3. p[u] = BriAmountsOf(r, BriOfUser(r, u)) BY <1>1
    <3> QED BY <1>5, <2>2, <3>2, <3>3 DEF Moves
  <2>3. CASE u # u0
    <3>1. BriOfUser(q, u) = BriOfUser(r, u) /\ n \notin BriOfUser(r, u) BY <1>3, <2>3 DEF BriOfUser, BriRemoves
    <3>2. BriAmountsOf(q, BriOfUser(q, u)) = BriAmountsOf(r, BriOfUser(r, u)) BY <1>4, <2>1, <3>1
    <3> QED BY <1>1, <1>5, <2>3, <3>2
  <2> QED BY <2>2, <2>3
<1>7. t - k = BriAmountsOf(q, DOMAIN q) /\ t - k \in Nat
  <2>1. DOMAIN q = DOMAIN r \ {n} /\ n \in DOMAIN r BY DEF BriRemoves
  <2>2. Moves(BriAmountsOf(r, DOMAIN r), BriAmountsOf(q, DOMAIN q), k, 0) BY <1>4, <2>1
  <2>3. BriAmountsOf(q, DOMAIN q) \in Nat
    <3>1. IsFiniteSet(DOMAIN q) /\ \A id \in DOMAIN q : q[id] \in BriOutRequest BY BriRequestsAre
    <3>2. \A id \in DOMAIN q : q[id].amount \in Nat BY <3>1 DEF BriOutRequest
    <3> DEFINE c == [id \in DOMAIN q |-> q[id].amount]
               S == DOMAIN q
    <3>3. IsFiniteSet(S) /\ \A id \in S : c[id] \in Nat BY <3>1, <3>2
    <3> HIDE DEF c, S
    <3>4. TotalOf(c, S) \in Nat BY <3>3, TotalIsNat
    <3> QED BY <3>4 DEF c, S, BriAmountsOf
  <2> QED BY <1>1, <2>2, <2>3 DEF Moves
<1> QED BY <1>3, <1>5, <1>6, <1>7 DEF BriPendingOutIs

-----------------------------------------------------------------------------
\* What the pools have, when out and in were completed, f were fees and r are open
BriPoolsHave(bal, r, out, f, in) ==
  /\ TotalOf(bal, Pool) = BridgeFunds * Cardinality(Pool) + out + f - in + BriCostsOf(r)
  /\ bal \in [Bridge!Account -> Nat] /\ out \in Nat /\ f \in Nat /\ in \in Nat

\* What the pools have together changes by what is paid to one or by one.
LEMMA BriPoolPays ==
  ASSUME Bridge!BridgeIsAssumed, NEW b, NEW c, NEW from, NEW to, NEW k, Paid(Bridge!Account, b, c, from, to, k)
  PROVE  /\ TotalOf(b, Pool) \in Int /\ TotalOf(c, Pool) \in Int /\ k \in Nat /\ c \in [Bridge!Account -> Nat]
         /\ from \in Pool /\ to \in User => Moves(TotalOf(b, Pool), TotalOf(c, Pool), k, 0)
         /\ from \in User /\ to \in Pool => Moves(TotalOf(b, Pool), TotalOf(c, Pool), 0, k)
<1>1. /\ TotalOf(b, Pool) \in Int /\ TotalOf(c, Pool) \in Int
      /\ Transferred(b, c, Pool, from, to, k)
  BY BriConstants, PaidMoves
<1>2. \A u \in User : u \notin Pool BY BriConstants
<1> QED BY <1>1, <1>2 DEF Transferred, Moves, Paid

-----------------------------------------------------------------------------
\* The fields of a database
BriShape(d) ==
  /\ d = [bal |-> d.bal, sent |-> d.sent, checkins |-> d.checkins, checkouts |-> d.checkouts,
          pendingIn |-> d.pendingIn, completeIn |-> d.completeIn, completeInTotal |-> d.completeInTotal,
          pendingOut |-> d.pendingOut, pendingOutTotal |-> d.pendingOutTotal,
          completeDaily |-> d.completeDaily, completeOutTotal |-> d.completeOutTotal]
  /\ d.bal \in [Bridge!Account -> Nat]
  /\ d.pendingIn \in [Sender \cup Pool -> Int]
  /\ d.completeIn \in [User -> Int]
  /\ d.completeInTotal \in Int
  /\ d.pendingOut \in [User -> Int]
  /\ d.pendingOutTotal \in Int
  /\ d.completeDaily \in [Bridge!Day -> Nat]
  /\ d.completeOutTotal \in Int

\* What the steps of an operation change
BriInChanges(d, r, s, pool, k) ==
  /\ BriShape(r)
  /\ BriPends(d.pendingIn, r.pendingIn, s, pool, k)
  /\ r.bal = d.bal /\ r.checkins = d.checkins /\ r.checkouts = d.checkouts
  /\ r.completeInTotal = d.completeInTotal /\ r.pendingOut = d.pendingOut
  /\ r.pendingOutTotal = d.pendingOutTotal /\ r.completeDaily = d.completeDaily
  /\ r.completeOutTotal = d.completeOutTotal

\* A pending check-in changes the pending amounts only.
LEMMA BriPendingInChanges ==
  ASSUME Bridge!BridgeIsAssumed, NEW d, BriShape(d), NEW s \in Sender, NEW pool \in Pool, NEW k \in Int
  PROVE  BriInChanges(d, Bridge!PendingIn(d, s, pool, k), s, pool, k)
<1> DEFINE r == Bridge!PendingIn(d, s, pool, k)
           p == [d.pendingIn EXCEPT ![s] = @ + k, ![pool] = @ + k]
<1>1. s # pool BY BriConstants
<1>2. BriPends(d.pendingIn, p, s, pool, k) BY <1>1 DEF BriPends, BriShape
<1>3. r = [d EXCEPT !.pendingIn = p] BY <1>1 DEF Bridge!PendingIn, BriShape
<1> HIDE DEF p, r
<1>4. BriInChanges(d, r, s, pool, k) BY <1>2, <1>3 DEF BriShape, BriInChanges, BriPends
<1> QED BY <1>4 DEF r

BriOutChanges(d, r, u, k) ==
  /\ BriShape(r)
  /\ BriPendsOut(d.pendingOut, r.pendingOut, u, k)
  /\ r.pendingOutTotal = d.pendingOutTotal + k
  /\ r.bal = d.bal /\ r.checkins = d.checkins /\ r.checkouts = d.checkouts
  /\ r.completeInTotal = d.completeInTotal /\ r.pendingIn = d.pendingIn
  /\ r.completeDaily = d.completeDaily
  /\ r.completeOutTotal = d.completeOutTotal

\* A pending check-out changes the pending amounts only.
LEMMA BriPendingOutChanges ==
  ASSUME Bridge!BridgeIsAssumed, NEW d, BriShape(d), NEW u \in User, NEW k \in Int
  PROVE  BriOutChanges(d, Bridge!PendingOut(d, u, k), u, k)
<1> DEFINE r == Bridge!PendingOut(d, u, k)
           p == [d.pendingOut EXCEPT ![u] = @ + k]
           t == d.pendingOutTotal + k
<1>1. BriPendsOut(d.pendingOut, p, u, k) /\ t \in Int /\ t = d.pendingOutTotal + k BY DEF BriPendsOut, BriShape
<1>2. r = [d EXCEPT !.pendingOut = p, !.pendingOutTotal = t] BY DEF Bridge!PendingOut, BriShape
<1> HIDE DEF p, r, t
<1>3. BriOutChanges(d, r, u, k) BY <1>1, <1>2 DEF BriShape, BriOutChanges, BriPendsOut
<1> QED BY <1>3 DEF r

BriMoneyChanges(d, r, from, to, k) ==
  /\ BriShape(r)
  /\ Paid(Bridge!Account, d.bal, r.bal, from, to, k)
  /\ r.checkins = d.checkins /\ r.checkouts = d.checkouts /\ r.pendingIn = d.pendingIn
  /\ r.completeInTotal = d.completeInTotal /\ r.pendingOut = d.pendingOut
  /\ r.pendingOutTotal = d.pendingOutTotal /\ r.completeDaily = d.completeDaily
  /\ r.completeOutTotal = d.completeOutTotal

\* A transfer changes the balances only.
LEMMA BriTransferChanges ==
  ASSUME NEW d, BriShape(d), NEW from \in Bridge!Account, NEW to \in Bridge!Account, NEW k \in Nat, NEW key,
         Bridge!Transfer(d, from, to, k, key) # Failed
  PROVE  BriMoneyChanges(d, Bridge!Transfer(d, from, to, k, key), from, to, k)
<1> DEFINE r == Bridge!Transfer(d, from, to, k, key)
           b == [d.bal EXCEPT ![from] = @ - k, ![to] = @ + k]
<1>1. Bridge!MayTransfer(d, from, to, k, key) /\ r = Bridge!Moved(d, from, to, k, key) BY DEF Bridge!Transfer
<1>2. from # to /\ k > 0 /\ d.bal[from] >= k BY <1>1 DEF Bridge!MayTransfer
<1>3. Paid(Bridge!Account, d.bal, b, from, to, k) BY <1>2 DEF Paid, BriShape
<1>4. r = [d EXCEPT !.bal = b, !.sent = @ \cup {<<from, to, key>>}] BY <1>1, <1>2 DEF Bridge!Moved, BriShape
<1> HIDE DEF b, r
<1>5. BriMoneyChanges(d, r, from, to, k) BY <1>3, <1>4 DEF BriShape, BriMoneyChanges, Paid
<1> QED BY <1>5 DEF r

BriCheckedIn(d, r, k) ==
  /\ BriShape(r)
  /\ r.completeInTotal = d.completeInTotal + k
  /\ r.bal = d.bal /\ r.checkins = d.checkins /\ r.checkouts = d.checkouts
  /\ r.pendingIn = d.pendingIn /\ r.pendingOut = d.pendingOut
  /\ r.pendingOutTotal = d.pendingOutTotal /\ r.completeDaily = d.completeDaily
  /\ r.completeOutTotal = d.completeOutTotal

\* A completed check-in changes the totals of check-ins only.
LEMMA BriCompleteInChanges ==
  ASSUME NEW d, BriShape(d), NEW u \in User, NEW k \in Int
  PROVE  BriCheckedIn(d, Bridge!CompleteIn(d, u, k), k)
<1> DEFINE r == Bridge!CompleteIn(d, u, k)
           p == [d.completeIn EXCEPT ![u] = @ + k]
           t == d.completeInTotal + k
<1>1. p \in [User -> Int] /\ t \in Int /\ t = d.completeInTotal + k BY DEF BriShape
<1>2. r = [d EXCEPT !.completeIn = p, !.completeInTotal = t] BY DEF Bridge!CompleteIn, BriShape
<1> HIDE DEF p, r, t
<1>3. BriCheckedIn(d, r, k) BY <1>1, <1>2 DEF BriShape, BriCheckedIn
<1> QED BY <1>3 DEF r

BriCheckedOut(d, r, k) ==
  /\ BriShape(r)
  /\ r.completeOutTotal = d.completeOutTotal + k
  /\ r.completeDaily[bridgeDay] = d.completeDaily[bridgeDay] + k
  /\ \A x \in Bridge!Day : x # bridgeDay => r.completeDaily[x] = d.completeDaily[x]
  /\ r.bal = d.bal /\ r.checkins = d.checkins /\ r.checkouts = d.checkouts
  /\ r.pendingIn = d.pendingIn /\ r.pendingOut = d.pendingOut
  /\ r.pendingOutTotal = d.pendingOutTotal
  /\ r.completeInTotal = d.completeInTotal

\* A completed check-out changes the totals of check-outs only.
LEMMA BriCompleteOutChanges ==
  ASSUME NEW d, BriShape(d), NEW k \in Nat, bridgeDay \in Bridge!Day
  PROVE  BriCheckedOut(d, Bridge!CompleteOut(d, k), k)
<1> DEFINE r == Bridge!CompleteOut(d, k)
           p == [d.completeDaily EXCEPT ![bridgeDay] = @ + k]
           t == d.completeOutTotal + k
<1>1. p \in [Bridge!Day -> Nat] /\ t \in Int /\ t = d.completeOutTotal + k
      /\ p[bridgeDay] = d.completeDaily[bridgeDay] + k
      /\ \A x \in Bridge!Day : x # bridgeDay => p[x] = d.completeDaily[x]
  BY DEF BriShape
<1>2. r = [d EXCEPT !.completeDaily = p, !.completeOutTotal = t] BY DEF Bridge!CompleteOut, BriShape
<1> HIDE DEF p, r, t
<1>3. BriCheckedOut(d, r, k) BY <1>1, <1>2 DEF BriShape, BriCheckedOut
<1> QED BY <1>3 DEF r

BriInBecomes(d, r, x) ==
  /\ BriShape(r) /\ r.checkins = x
  /\ r.bal = d.bal /\ r.checkouts = d.checkouts
  /\ r.pendingIn = d.pendingIn /\ r.pendingOut = d.pendingOut
  /\ r.pendingOutTotal = d.pendingOutTotal /\ r.completeDaily = d.completeDaily
  /\ r.completeInTotal = d.completeInTotal /\ r.completeOutTotal = d.completeOutTotal

\* Other check-ins, and nothing else
LEMMA BriCheckinsBecome ==
  ASSUME NEW d, BriShape(d), NEW x
  PROVE  BriInBecomes(d, [d EXCEPT !.checkins = x], x)
<1> DEFINE r == [d EXCEPT !.checkins = x]
<1>1. BriInBecomes(d, r, x) BY DEF BriShape, BriInBecomes
<1> QED BY <1>1

BriOutBecomes(d, r, x) ==
  /\ BriShape(r) /\ r.checkouts = x
  /\ r.bal = d.bal /\ r.checkins = d.checkins
  /\ r.pendingIn = d.pendingIn /\ r.pendingOut = d.pendingOut
  /\ r.pendingOutTotal = d.pendingOutTotal /\ r.completeDaily = d.completeDaily
  /\ r.completeInTotal = d.completeInTotal /\ r.completeOutTotal = d.completeOutTotal

\* Other check-outs, and nothing else
LEMMA BriCheckoutsBecome ==
  ASSUME NEW d, BriShape(d), NEW x
  PROVE  BriOutBecomes(d, [d EXCEPT !.checkouts = x], x)
<1> DEFINE r == [d EXCEPT !.checkouts = x]
<1>1. BriOutBecomes(d, r, x) BY DEF BriShape, BriOutBecomes
<1> QED BY <1>1

-----------------------------------------------------------------------------
\* No day has more than the limit, not even with what is pending.
BriDaily(c, t, today) ==
  /\ \A d \in Bridge!Day : c[d] <= MaxPerDay
  /\ t + c[today] <= MaxPerDay
  /\ \A d \in Bridge!Day : d > today => c[d] = 0

\* Requests have different ids, which are those of the first n.
BriNumbers(r, q, n) ==
  /\ DOMAIN r \cap DOMAIN q = {} /\ DOMAIN r \cup DOMAIN q \subseteq 1..n
  /\ n \in 0..MaxRequests

BriIInv ==
  /\ BriShape(bridgeDb)
  /\ BriPendingInIs(bridgeDb.pendingIn, bridgeDb.checkins)
  /\ BriPendingOutIs(bridgeDb.pendingOut, bridgeDb.pendingOutTotal, bridgeDb.checkouts)
  /\ BriPoolsHave(bridgeDb.bal, bridgeDb.checkouts, bridgeDb.completeOutTotal, bridgeFees, bridgeDb.completeInTotal)
  /\ BriDaily(bridgeDb.completeDaily, bridgeDb.pendingOutTotal, bridgeDay)
  /\ BriNumbers(bridgeDb.checkins, bridgeDb.checkouts, bridgeOpened)
  /\ bridgeConfig.pool \in Pool /\ bridgeConfig.feeRate \in Nat
  /\ bridgeDay \in Bridge!Day

\* The next id is free.
LEMMA BriNumbersGrow ==
  ASSUME Bridge!BridgeIsAssumed, NEW r, NEW q, NEW n, BriNumbers(r, q, n), n < MaxRequests
  PROVE  /\ n + 1 \in Bridge!Id /\ n + 1 \notin DOMAIN r /\ n + 1 \notin DOMAIN q
         /\ \A x : (DOMAIN x = DOMAIN r \cup {n + 1} => BriNumbers(x, q, n + 1))
                /\ (DOMAIN x = DOMAIN q \cup {n + 1} => BriNumbers(r, x, n + 1))
<1>1. MaxRequests \in Nat BY BriConstants
<1>2. n \in Nat /\ n + 1 \in 0..MaxRequests BY <1>1 DEF BriNumbers
<1>3. \A i \in 1..n : i # n + 1 /\ i \in 1..(n + 1) BY <1>2
<1> QED BY <1>1, <1>2, <1>3 DEF BriNumbers, Bridge!Id

\* _openCheckin keeps the invariant.
LEMMA BriOpenCheckinKeeps ==
  ASSUME Bridge!BridgeIsAssumed, BriIInv, NEW u \in User, NEW s \in Sender, NEW amount \in BridgeAmounts, Bridge!OpenCheckin(u, s, amount)
  PROVE  BriIInv'
<1> DEFINE request == [user |-> u, sender |-> s, amount |-> amount]
           q == Bridge!Open(bridgeDb.checkins, request)
           e == [bridgeDb EXCEPT !.checkins = q]
           r == Bridge!PendingIn(e, s, bridgeConfig.pool, amount)
<1>1. bridgeDb' = r /\ bridgeOpened' = bridgeOpened + 1 /\ UNCHANGED <<bridgeConfig, bridgeDay, bridgeFees>> /\ bridgeOpened < MaxRequests BY DEF Bridge!OpenCheckin
<1>2. amount \in Nat /\ amount \in Int BY BriConstants
<1>3. request \in BriInRequest /\ request.sender = s /\ request.amount = amount BY <1>2 DEF BriInRequest
<1>4. /\ bridgeOpened + 1 \in Bridge!Id /\ bridgeOpened + 1 \notin DOMAIN bridgeDb.checkins
      /\ \A x : DOMAIN x = DOMAIN bridgeDb.checkins \cup {bridgeOpened + 1} => BriNumbers(x, bridgeDb.checkouts, bridgeOpened + 1)
  BY <1>1, BriNumbersGrow DEF BriIInv
<1>5. bridgeDb.checkins \in BriRequestsOf(BriInRequest) BY DEF BriIInv, BriPendingInIs
<1> HIDE DEF request
<1>6. q \in BriRequestsOf(BriInRequest) /\ BriAdds(bridgeDb.checkins, q, bridgeOpened + 1, request) BY <1>3, <1>4, <1>5, BriOpenAdds
<1> HIDE DEF q
<1>7. BriInBecomes(bridgeDb, e, q) BY BriCheckinsBecome DEF BriIInv
<1> HIDE DEF e
<1>8. BriShape(e) /\ bridgeConfig.pool \in Pool BY <1>7 DEF BriInBecomes, BriIInv
<1>9. BriInChanges(e, r, s, bridgeConfig.pool, amount) BY <1>2, <1>8, BriPendingInChanges
<1> HIDE DEF r
<1>10. /\ BriShape(r) /\ r.checkins = q /\ r.checkouts = bridgeDb.checkouts /\ r.bal = bridgeDb.bal
       /\ r.pendingOut = bridgeDb.pendingOut /\ r.pendingOutTotal = bridgeDb.pendingOutTotal
       /\ r.completeDaily = bridgeDb.completeDaily /\ r.completeOutTotal = bridgeDb.completeOutTotal
       /\ r.completeInTotal = bridgeDb.completeInTotal
       /\ BriPends(bridgeDb.pendingIn, r.pendingIn, s, bridgeConfig.pool, amount)
  BY <1>7, <1>9 DEF BriInChanges, BriInBecomes
<1>11. BriPendingInIs(r.pendingIn, r.checkins)
  <2>1. BriPendingInIs(bridgeDb.pendingIn, bridgeDb.checkins) BY DEF BriIInv
  <2>2. BriPends(bridgeDb.pendingIn, r.pendingIn, request.sender, bridgeConfig.pool, request.amount) BY <1>3, <1>10
  <2>3. BriPendingInIs(r.pendingIn, q) BY <1>3, <1>6, <1>8, <2>1, <2>2, BriPendingInOpens
  <2> QED BY <1>10, <2>3
<1>12. BriNumbers(r.checkins, r.checkouts, bridgeOpened')
  <2>1. DOMAIN q = DOMAIN bridgeDb.checkins \cup {bridgeOpened + 1} BY <1>6 DEF BriAdds
  <2> QED BY <1>1, <1>4, <1>10, <2>1
<1> QED BY <1>1, <1>10, <1>11, <1>12 DEF BriIInv

\* Removing an id keeps the numbering.
LEMMA BriNumbersStay ==
  ASSUME NEW r, NEW q, NEW n, BriNumbers(r, q, n), NEW id
  PROVE  \A x : (DOMAIN x = DOMAIN r \ {id} => BriNumbers(x, q, n)) /\ (DOMAIN x = DOMAIN q \ {id} => BriNumbers(r, x, n))
BY DEF BriNumbers

\* What removing an open check-in from d does, whatever else happened to d
LEMMA BriCheckinIsClosed ==
  ASSUME Bridge!BridgeIsAssumed, BriIInv, NEW id \in DOMAIN bridgeDb.checkins,
         NEW d, BriShape(d), d.checkins = bridgeDb.checkins, d.checkouts = bridgeDb.checkouts,
         d.pendingIn = bridgeDb.pendingIn, d.pendingOut = bridgeDb.pendingOut,
         d.pendingOutTotal = bridgeDb.pendingOutTotal, d.completeDaily = bridgeDb.completeDaily,
         BriPoolsHave(d.bal, bridgeDb.checkouts, d.completeOutTotal, bridgeFees, d.completeInTotal),
         bridgeDb' = Bridge!PendingIn([d EXCEPT !.checkins = Bridge!Close(@, id)],
                         bridgeDb.checkins[id].sender, bridgeConfig.pool, -bridgeDb.checkins[id].amount),
         UNCHANGED <<bridgeConfig, bridgeDay, bridgeOpened, bridgeFees>>
  PROVE  BriIInv'
<1> DEFINE q == Bridge!Close(bridgeDb.checkins, id)
           e == [d EXCEPT !.checkins = q]
           s == bridgeDb.checkins[id].sender
           k == -bridgeDb.checkins[id].amount
           r == Bridge!PendingIn(e, s, bridgeConfig.pool, k)
<1>1. bridgeDb' = r OBVIOUS
<1>2. bridgeDb.checkins \in BriRequestsOf(BriInRequest) BY DEF BriIInv, BriPendingInIs
<1>3. q \in BriRequestsOf(BriInRequest) /\ BriRemoves(bridgeDb.checkins, q, id) BY <1>2, BriCloseRemoves
<1>4. bridgeDb.checkins[id] \in BriInRequest BY <1>2, BriRequestsAre
<1>5. s \in Sender /\ k \in Int BY <1>4 DEF BriInRequest
<1> HIDE DEF q
<1>7. BriInBecomes(d, e, q) BY BriCheckinsBecome
<1> HIDE DEF e, s, k
<1>8. BriShape(e) /\ bridgeConfig.pool \in Pool BY <1>7 DEF BriInBecomes, BriIInv
<1>9. BriInChanges(e, r, s, bridgeConfig.pool, k) BY <1>5, <1>8, BriPendingInChanges
<1> HIDE DEF r
<1>10. /\ BriShape(r) /\ r.checkins = q /\ r.checkouts = bridgeDb.checkouts /\ r.bal = d.bal
       /\ r.pendingOut = bridgeDb.pendingOut /\ r.pendingOutTotal = bridgeDb.pendingOutTotal
       /\ r.completeDaily = bridgeDb.completeDaily /\ r.completeOutTotal = d.completeOutTotal
       /\ r.completeInTotal = d.completeInTotal
       /\ BriPends(bridgeDb.pendingIn, r.pendingIn, s, bridgeConfig.pool, k)
  BY <1>7, <1>9 DEF BriInChanges, BriInBecomes
<1>11. BriPendingInIs(r.pendingIn, r.checkins)
  <2>1. BriPendingInIs(bridgeDb.pendingIn, bridgeDb.checkins) BY DEF BriIInv
  <2>2. BriPends(bridgeDb.pendingIn, r.pendingIn, bridgeDb.checkins[id].sender, bridgeConfig.pool, -bridgeDb.checkins[id].amount)
    BY <1>10 DEF s, k
  <2>3. BriPendingInIs(r.pendingIn, q) BY <1>3, <1>8, <2>1, <2>2, BriPendingInCloses
  <2> QED BY <1>10, <2>3
<1>12. BriNumbers(r.checkins, r.checkouts, bridgeOpened)
  <2>1. DOMAIN q = DOMAIN bridgeDb.checkins \ {id} BY <1>3 DEF BriRemoves
  <2>2. BriNumbers(bridgeDb.checkins, bridgeDb.checkouts, bridgeOpened) BY DEF BriIInv
  <2>3. BriNumbers(q, bridgeDb.checkouts, bridgeOpened) BY <2>1, <2>2, BriNumbersStay
  <2> QED BY <1>10, <2>3
<1>13. BriPoolsHave(r.bal, r.checkouts, r.completeOutTotal, bridgeFees, r.completeInTotal) BY <1>10
<1> QED BY <1>1, <1>10, <1>11, <1>12, <1>13 DEF BriIInv

\* _cancelCheckin keeps the invariant.
LEMMA BriCancelCheckinKeeps ==
  ASSUME Bridge!BridgeIsAssumed, BriIInv, NEW id \in DOMAIN bridgeDb.checkins, Bridge!CancelCheckin(id)
  PROVE  BriIInv'
<1>1. BriShape(bridgeDb) /\ BriPoolsHave(bridgeDb.bal, bridgeDb.checkouts, bridgeDb.completeOutTotal, bridgeFees, bridgeDb.completeInTotal) BY DEF BriIInv
<1>2. /\ bridgeDb' = Bridge!PendingIn([bridgeDb EXCEPT !.checkins = Bridge!Close(@, id)],
                         bridgeDb.checkins[id].sender, bridgeConfig.pool, -bridgeDb.checkins[id].amount)
      /\ UNCHANGED <<bridgeConfig, bridgeDay, bridgeOpened, bridgeFees>>
  BY DEF Bridge!CancelCheckin
<1> QED BY <1>1, <1>2, BriCheckinIsClosed

\* _closeCheckin keeps the invariant, whether or not the check-in was completed.
LEMMA BriCloseCheckinKeeps ==
  ASSUME Bridge!BridgeIsAssumed, BriIInv, NEW id \in DOMAIN bridgeDb.checkins, NEW completed \in BOOLEAN, Bridge!CloseCheckin(id, completed)
  PROVE  BriIInv'
<1> DEFINE u == bridgeDb.checkins[id].user
           k == bridgeDb.checkins[id].amount
           c == Bridge!CompleteIn(bridgeDb, u, k)
           paid == Bridge!Transfer(c, bridgeConfig.pool, u, k, <<"in", id>>)
           d == IF completed THEN paid ELSE bridgeDb
<1>1. /\ d # Failed
      /\ bridgeDb' = Bridge!PendingIn([d EXCEPT !.checkins = Bridge!Close(@, id)],
                         bridgeDb.checkins[id].sender, bridgeConfig.pool, -bridgeDb.checkins[id].amount)
      /\ UNCHANGED <<bridgeConfig, bridgeDay, bridgeOpened, bridgeFees>>
  BY DEF Bridge!CloseCheckin
<1>2. BriShape(bridgeDb) /\ BriPoolsHave(bridgeDb.bal, bridgeDb.checkouts, bridgeDb.completeOutTotal, bridgeFees, bridgeDb.completeInTotal)
      /\ bridgeConfig.pool \in Pool /\ bridgeDb.checkins \in BriRequestsOf(BriInRequest)
  BY DEF BriIInv, BriPendingInIs
<1>3. u \in User /\ k \in Nat /\ k \in Int /\ u \in Bridge!Account /\ bridgeConfig.pool \in Bridge!Account
  <2>1. bridgeDb.checkins[id] \in BriInRequest BY <1>2, BriRequestsAre
  <2> QED BY <1>2, <2>1, BriConstants DEF BriInRequest
<1> HIDE DEF u, k
<1>4. /\ BriShape(d) /\ d.checkins = bridgeDb.checkins /\ d.checkouts = bridgeDb.checkouts
      /\ d.pendingIn = bridgeDb.pendingIn /\ d.pendingOut = bridgeDb.pendingOut
      /\ d.pendingOutTotal = bridgeDb.pendingOutTotal /\ d.completeDaily = bridgeDb.completeDaily
      /\ BriPoolsHave(d.bal, bridgeDb.checkouts, d.completeOutTotal, bridgeFees, d.completeInTotal)
  <2>1. CASE completed
    <3>1. BriCheckedIn(bridgeDb, c, k) BY <1>2, <1>3, BriCompleteInChanges
    <3> HIDE DEF c
    <3>2. BriShape(c) /\ paid # Failed /\ d = paid BY <1>1, <2>1, <3>1 DEF BriCheckedIn
    <3>3. BriMoneyChanges(c, paid, bridgeConfig.pool, u, k) BY <1>3, <3>2, BriTransferChanges
    <3> HIDE DEF paid, d
    <3>4. /\ BriShape(d) /\ d.checkins = bridgeDb.checkins /\ d.checkouts = bridgeDb.checkouts
          /\ d.pendingIn = bridgeDb.pendingIn /\ d.pendingOut = bridgeDb.pendingOut
          /\ d.pendingOutTotal = bridgeDb.pendingOutTotal /\ d.completeDaily = bridgeDb.completeDaily
          /\ d.completeOutTotal = bridgeDb.completeOutTotal /\ d.completeInTotal = bridgeDb.completeInTotal + k
          /\ Paid(Bridge!Account, bridgeDb.bal, d.bal, bridgeConfig.pool, u, k)
      BY <3>1, <3>2, <3>3 DEF BriCheckedIn, BriMoneyChanges
    <3>5. /\ Moves(TotalOf(bridgeDb.bal, Pool), TotalOf(d.bal, Pool), k, 0)
          /\ TotalOf(bridgeDb.bal, Pool) \in Int /\ d.bal \in [Bridge!Account -> Nat]
      BY <1>2, <1>3, <3>4, BriPoolPays
    <3>6. BriPoolsHave(d.bal, bridgeDb.checkouts, d.completeOutTotal, bridgeFees, d.completeInTotal)
      <4>1. BriCostsOf(bridgeDb.checkouts) \in Int
        <5>1. bridgeDb.checkouts \in BriRequestsOf(BriOutRequest) BY DEF BriIInv, BriPendingOutIs
        <5> QED BY <5>1, BriCostsAreNat
      <4>2. BridgeFunds * Cardinality(Pool) \in Int BY BriConstants, FS_CardinalityType
      <4>3. PICK f \in Int : f = BridgeFunds * Cardinality(Pool) BY <4>2
      <4> QED BY <1>2, <1>3, <3>4, <3>5, <4>1, <4>3 DEF BriPoolsHave, Moves
    <3> QED BY <3>4, <3>6
  <2>2. CASE ~completed BY <1>2, <2>2
  <2> QED BY <2>1, <2>2
<1> HIDE DEF d
<1> QED BY <1>1, <1>4, BriCheckinIsClosed

\* _openCheckout keeps the invariant: what is pending fits into the day.
LEMMA BriOpenCheckoutKeeps ==
  ASSUME Bridge!BridgeIsAssumed, BriIInv, NEW u \in User, NEW amount \in BridgeAmounts, Bridge!OpenCheckout(u, amount)
  PROVE  BriIInv'
<1> DEFINE request == [user |-> u, amount |-> amount, feeRate |-> bridgeConfig.feeRate]
           q == Bridge!Open(bridgeDb.checkouts, request)
           e == [bridgeDb EXCEPT !.checkouts = q]
           p == Bridge!PendingOut(e, u, amount)
           k == Bridge!WithFee(amount, bridgeConfig.feeRate)
           r == Bridge!Transfer(p, u, bridgeConfig.pool, k, <<"out", bridgeOpened + 1>>)
<1>1. /\ bridgeDb' = r /\ r # Failed /\ Bridge!CheckoutFits(p, amount)
      /\ bridgeOpened' = bridgeOpened + 1 /\ UNCHANGED <<bridgeConfig, bridgeDay, bridgeFees>> /\ bridgeOpened < MaxRequests
  BY DEF Bridge!OpenCheckout
<1>2. amount \in Nat /\ amount \in Int /\ bridgeConfig.pool \in Pool /\ bridgeConfig.feeRate \in Nat /\ u \in Bridge!Account /\ bridgeConfig.pool \in Bridge!Account
  BY BriConstants DEF BriIInv
<1>3. request \in BriOutRequest /\ request.user = u /\ request.amount = amount /\ request.feeRate = bridgeConfig.feeRate
  BY <1>2 DEF BriOutRequest
<1>4. /\ bridgeOpened + 1 \in Bridge!Id /\ bridgeOpened + 1 \notin DOMAIN bridgeDb.checkouts
      /\ \A x : DOMAIN x = DOMAIN bridgeDb.checkouts \cup {bridgeOpened + 1} => BriNumbers(bridgeDb.checkins, x, bridgeOpened + 1)
  BY <1>1, BriNumbersGrow DEF BriIInv
<1>5. bridgeDb.checkouts \in BriRequestsOf(BriOutRequest) BY DEF BriIInv, BriPendingOutIs
<1>6. k = Bridge!WithFee(request.amount, request.feeRate) BY <1>3
<1> HIDE DEF request, k
<1>7. q \in BriRequestsOf(BriOutRequest) /\ BriAdds(bridgeDb.checkouts, q, bridgeOpened + 1, request) BY <1>3, <1>4, <1>5, BriOpenAdds
<1> HIDE DEF q
<1>8. BriCostsOf(bridgeDb.checkouts) \in Nat /\ k \in Nat /\ Moves(BriCostsOf(bridgeDb.checkouts), BriCostsOf(q), 0, k)
  BY <1>3, <1>5, <1>6, <1>7, BriCostsAdd
<1>9. BriOutBecomes(bridgeDb, e, q) BY BriCheckoutsBecome DEF BriIInv
<1> HIDE DEF e
<1>10. BriShape(e) BY <1>9 DEF BriOutBecomes
<1>11. BriOutChanges(e, p, u, amount) BY <1>2, <1>10, BriPendingOutChanges
<1> HIDE DEF p
<1>12. BriMoneyChanges(p, r, u, bridgeConfig.pool, k)
  <2>1. BriShape(p) BY <1>11 DEF BriOutChanges
  <2> QED BY <1>1, <1>2, <1>8, <2>1, BriTransferChanges
<1> HIDE DEF r
<1>13. /\ BriShape(r) /\ r.checkouts = q /\ r.checkins = bridgeDb.checkins /\ r.pendingIn = bridgeDb.pendingIn
       /\ r.completeDaily = bridgeDb.completeDaily /\ r.completeOutTotal = bridgeDb.completeOutTotal
       /\ r.completeInTotal = bridgeDb.completeInTotal
       /\ r.pendingOutTotal = bridgeDb.pendingOutTotal + amount
       /\ r.pendingOutTotal = p.pendingOutTotal /\ p.completeDaily = bridgeDb.completeDaily
       /\ BriPendsOut(bridgeDb.pendingOut, r.pendingOut, u, amount)
       /\ Paid(Bridge!Account, bridgeDb.bal, r.bal, u, bridgeConfig.pool, k)
  BY <1>9, <1>11, <1>12 DEF BriOutBecomes, BriOutChanges, BriMoneyChanges
<1>14. BriPendingOutIs(r.pendingOut, r.pendingOutTotal, r.checkouts)
  <2>1. BriPendingOutIs(bridgeDb.pendingOut, bridgeDb.pendingOutTotal, bridgeDb.checkouts) BY DEF BriIInv
  <2>2. BriPendsOut(bridgeDb.pendingOut, r.pendingOut, request.user, request.amount) BY <1>3, <1>13
  <2>3. BriPendingOutIs(r.pendingOut, bridgeDb.pendingOutTotal + request.amount, q) BY <1>3, <1>7, <2>1, <2>2, BriPendingOutOpens
  <2> QED BY <1>3, <1>13, <2>3
<1>15. BriPoolsHave(r.bal, r.checkouts, r.completeOutTotal, bridgeFees, r.completeInTotal)
  <2>1. /\ Moves(TotalOf(bridgeDb.bal, Pool), TotalOf(r.bal, Pool), 0, k)
        /\ TotalOf(bridgeDb.bal, Pool) \in Int /\ r.bal \in [Bridge!Account -> Nat]
    BY <1>2, <1>13, BriPoolPays
  <2>2. BridgeFunds * Cardinality(Pool) \in Int BY BriConstants, FS_CardinalityType
  <2>3. PICK f \in Int : f = BridgeFunds * Cardinality(Pool) BY <2>2
  <2>4. BriPoolsHave(bridgeDb.bal, bridgeDb.checkouts, bridgeDb.completeOutTotal, bridgeFees, bridgeDb.completeInTotal) BY DEF BriIInv
  <2>5. BriPoolsHave(r.bal, q, bridgeDb.completeOutTotal, bridgeFees, bridgeDb.completeInTotal)
    BY <1>8, <2>1, <2>3, <2>4 DEF BriPoolsHave, Moves
  <2> QED BY <1>13, <2>5
<1>16. BriDaily(r.completeDaily, r.pendingOutTotal, bridgeDay)
  <2>1. r.pendingOutTotal + bridgeDb.completeDaily[bridgeDay] <= MaxPerDay BY <1>1, <1>13 DEF Bridge!CheckoutFits
  <2> QED BY <1>13, <2>1 DEF BriIInv, BriDaily
<1>17. BriNumbers(r.checkins, r.checkouts, bridgeOpened')
  <2>1. DOMAIN q = DOMAIN bridgeDb.checkouts \cup {bridgeOpened + 1} BY <1>7 DEF BriAdds
  <2> QED BY <1>1, <1>4, <1>13, <2>1
<1> QED BY <1>1, <1>13, <1>14, <1>15, <1>16, <1>17 DEF BriIInv

\* What removing an open check-out from d does
LEMMA BriCheckoutIsClosed ==
  ASSUME Bridge!BridgeIsAssumed, BriIInv, NEW id \in DOMAIN bridgeDb.checkouts, NEW d, BriShape(d),
         d.checkins = bridgeDb.checkins, d.checkouts = bridgeDb.checkouts,
         d.pendingIn = bridgeDb.pendingIn, d.pendingOut = bridgeDb.pendingOut, d.pendingOutTotal = bridgeDb.pendingOutTotal,
         \A x \in Bridge!Day : x # bridgeDay => d.completeDaily[x] = bridgeDb.completeDaily[x],
         d.completeDaily[bridgeDay] <= bridgeDb.completeDaily[bridgeDay] + bridgeDb.checkouts[id].amount,
         \A q \in BriRequestsOf(BriOutRequest) :
           BriRemoves(bridgeDb.checkouts, q, id) => BriPoolsHave(d.bal, q, d.completeOutTotal, bridgeFees', d.completeInTotal),
         bridgeDb' = Bridge!PendingOut([d EXCEPT !.checkouts = Bridge!Close(@, id)], bridgeDb.checkouts[id].user, -bridgeDb.checkouts[id].amount),
         UNCHANGED <<bridgeConfig, bridgeDay, bridgeOpened>>
  PROVE  BriIInv'
<1> DEFINE q == Bridge!Close(bridgeDb.checkouts, id)
           e == [d EXCEPT !.checkouts = q]
           u == bridgeDb.checkouts[id].user
           a == bridgeDb.checkouts[id].amount
           k == -a
           r == Bridge!PendingOut(e, u, k)
<1>1. bridgeDb' = r OBVIOUS
<1>2. bridgeDb.checkouts \in BriRequestsOf(BriOutRequest) BY DEF BriIInv, BriPendingOutIs
<1>3. q \in BriRequestsOf(BriOutRequest) /\ BriRemoves(bridgeDb.checkouts, q, id) BY <1>2, BriCloseRemoves
<1>4. bridgeDb.checkouts[id] \in BriOutRequest BY <1>2, BriRequestsAre
<1>5. u \in User /\ a \in Nat /\ k \in Int BY <1>4 DEF BriOutRequest
<1> HIDE DEF q
<1>7. BriOutBecomes(d, e, q) BY BriCheckoutsBecome
<1> HIDE DEF e
<1>8. BriPendingOutIs(bridgeDb.pendingOut, bridgeDb.pendingOutTotal, bridgeDb.checkouts) BY DEF BriIInv
<1>9. ASSUME NEW p2, BriPendsOut(bridgeDb.pendingOut, p2, u, k)
      PROVE  BriPendingOutIs(p2, bridgeDb.pendingOutTotal - a, q)
  BY <1>3, <1>8, <1>9, BriPendingOutCloses
<1> HIDE DEF u, a
<1>10. BriShape(e) BY <1>7 DEF BriOutBecomes
<1>11. BriOutChanges(e, r, u, k)
  <2> HIDE DEF k
  <2> QED BY <1>5, <1>10, BriPendingOutChanges
<1> HIDE DEF r
<1>12. /\ BriShape(r) /\ r.checkouts = q /\ r.checkins = bridgeDb.checkins /\ r.bal = d.bal
       /\ r.pendingIn = bridgeDb.pendingIn
       /\ r.completeDaily = d.completeDaily /\ r.completeOutTotal = d.completeOutTotal
       /\ r.completeInTotal = d.completeInTotal
       /\ r.pendingOutTotal = bridgeDb.pendingOutTotal + k
       /\ BriPendsOut(bridgeDb.pendingOut, r.pendingOut, u, k)
  BY <1>7, <1>11 DEF BriOutChanges, BriOutBecomes
<1>13. BriPendingOutIs(r.pendingOut, r.pendingOutTotal, r.checkouts) /\ r.pendingOutTotal = bridgeDb.pendingOutTotal - a
       /\ bridgeDb.pendingOutTotal \in Nat
  <2>1. bridgeDb.pendingOutTotal \in Nat BY <1>8 DEF BriPendingOutIs
  <2>2. r.pendingOutTotal = bridgeDb.pendingOutTotal - a BY <1>5, <1>12, <2>1
  <2>3. BriPendingOutIs(r.pendingOut, bridgeDb.pendingOutTotal - a, q) BY <1>9, <1>12
  <2> QED BY <1>12, <2>1, <2>2, <2>3
<1>14. BriNumbers(r.checkins, r.checkouts, bridgeOpened)
  <2>1. DOMAIN q = DOMAIN bridgeDb.checkouts \ {id} BY <1>3 DEF BriRemoves
  <2>2. BriNumbers(bridgeDb.checkins, bridgeDb.checkouts, bridgeOpened) BY DEF BriIInv
  <2>3. BriNumbers(bridgeDb.checkins, q, bridgeOpened) BY <2>1, <2>2, BriNumbersStay
  <2> QED BY <1>12, <2>3
<1>15. BriPoolsHave(r.bal, r.checkouts, r.completeOutTotal, bridgeFees', r.completeInTotal)
  <2>1. BriPoolsHave(d.bal, q, d.completeOutTotal, bridgeFees', d.completeInTotal) BY <1>3
  <2> QED BY <1>12, <2>1
<1>16. BriDaily(r.completeDaily, r.pendingOutTotal, bridgeDay)
  <2> DEFINE c == bridgeDb.completeDaily
             z == r.completeDaily
             t == bridgeDb.pendingOutTotal
             v == r.pendingOutTotal
  <2>1. bridgeDay \in Bridge!Day /\ BriDaily(c, t, bridgeDay) /\ c \in [Bridge!Day -> Nat] /\ z \in [Bridge!Day -> Nat] BY <1>12 DEF BriIInv, BriShape
  <2>2. (\A x \in Bridge!Day : x # bridgeDay => z[x] = c[x]) /\ z[bridgeDay] <= c[bridgeDay] + a BY <1>12 DEF a
  <2>3. v = t - a /\ t \in Nat /\ v \in Nat BY <1>13 DEF BriPendingOutIs
  <2>4. MaxPerDay \in Nat /\ Bridge!Day \subseteq Nat BY BriConstants DEF Bridge!Day
  <2> HIDE DEF c, z, t, v
  <2>5. c[bridgeDay] \in Nat /\ z[bridgeDay] \in Nat /\ t + c[bridgeDay] <= MaxPerDay BY <2>1 DEF BriDaily
  <2>6. v + z[bridgeDay] <= MaxPerDay /\ z[bridgeDay] <= MaxPerDay BY <1>5, <2>2, <2>3, <2>4, <2>5
  <2>7. \A d1 \in Bridge!Day : z[d1] <= MaxPerDay BY <2>1, <2>2, <2>6 DEF BriDaily
  <2>8. \A d1 \in Bridge!Day : d1 > bridgeDay => z[d1] = 0
    <3> TAKE d1 \in Bridge!Day
    <3> HAVE d1 > bridgeDay
    <3>1. d1 # bridgeDay BY <2>1, <2>4
    <3> QED BY <2>1, <2>2, <3>1 DEF BriDaily
  <2>9. BriDaily(z, v, bridgeDay) BY <2>6, <2>7, <2>8 DEF BriDaily
  <2> QED BY <2>9 DEF z, v
<1> QED BY <1>1, <1>12, <1>13, <1>14, <1>15, <1>16 DEF BriIInv

\* _closeCheckout keeps the invariant: a refused check-out is paid back with its fee.
LEMMA BriCloseCheckoutKeeps ==
  ASSUME Bridge!BridgeIsAssumed, BriIInv, NEW id \in DOMAIN bridgeDb.checkouts, NEW completed \in BOOLEAN, Bridge!CloseCheckout(id, completed)
  PROVE  BriIInv'
<1> DEFINE request == bridgeDb.checkouts[id]
           k == Bridge!WithFee(request.amount, request.feeRate)
           d == IF completed THEN Bridge!CompleteOut(bridgeDb, request.amount) ELSE Bridge!Refund(bridgeDb, id)
<1>1. /\ d # Failed
      /\ bridgeDb' = Bridge!PendingOut([d EXCEPT !.checkouts = Bridge!Close(@, id)], bridgeDb.checkouts[id].user, -bridgeDb.checkouts[id].amount)
      /\ bridgeFees' = IF completed THEN bridgeFees + request.amount * request.feeRate ELSE bridgeFees
      /\ UNCHANGED <<bridgeConfig, bridgeDay, bridgeOpened>>
  BY DEF Bridge!CloseCheckout
<1>2. /\ BriShape(bridgeDb) /\ BriPoolsHave(bridgeDb.bal, bridgeDb.checkouts, bridgeDb.completeOutTotal, bridgeFees, bridgeDb.completeInTotal)
      /\ bridgeConfig.pool \in Pool /\ bridgeDb.checkouts \in BriRequestsOf(BriOutRequest) /\ bridgeDay \in Bridge!Day
  BY DEF BriIInv, BriPendingOutIs
<1>3. request \in BriOutRequest BY <1>2, BriRequestsAre
<1>4. request.user \in User /\ request.amount \in Nat /\ request.feeRate \in Nat BY <1>3 DEF BriOutRequest
<1>5. request.user \in Bridge!Account /\ bridgeConfig.pool \in Bridge!Account BY <1>2, <1>4, BriConstants
<1>6. \A q \in BriRequestsOf(BriOutRequest) :
        BriRemoves(bridgeDb.checkouts, q, id) =>
          BriCostsOf(bridgeDb.checkouts) \in Nat /\ k \in Nat /\ Moves(BriCostsOf(bridgeDb.checkouts), BriCostsOf(q), k, 0)
  BY <1>2, BriCostsLose
<1>7. k \in Nat /\ BriCostsOf(bridgeDb.checkouts) \in Nat
  <2>1. Bridge!Close(bridgeDb.checkouts, id) \in BriRequestsOf(BriOutRequest) /\ BriRemoves(bridgeDb.checkouts, Bridge!Close(bridgeDb.checkouts, id), id)
    BY <1>2, BriCloseRemoves
  <2> QED BY <1>6, <2>1
<1>8. BridgeFunds * Cardinality(Pool) \in Int BY BriConstants, FS_CardinalityType
<1>9. PICK f \in Int : f = BridgeFunds * Cardinality(Pool) BY <1>8
<1>10. PICK m \in Nat : m = request.amount * request.feeRate
  <2>1. request.amount * request.feeRate \in Nat BY <1>4
  <2> QED BY <2>1
<1>11. k = request.amount + m BY <1>10 DEF Bridge!WithFee
<1> HIDE DEF k
<1>12. /\ BriShape(d) /\ d.checkins = bridgeDb.checkins /\ d.checkouts = bridgeDb.checkouts
       /\ d.pendingIn = bridgeDb.pendingIn /\ d.pendingOut = bridgeDb.pendingOut /\ d.pendingOutTotal = bridgeDb.pendingOutTotal
       /\ \A x \in Bridge!Day : x # bridgeDay => d.completeDaily[x] = bridgeDb.completeDaily[x]
       /\ d.completeDaily[bridgeDay] <= bridgeDb.completeDaily[bridgeDay] + request.amount
       /\ \A q \in BriRequestsOf(BriOutRequest) :
           BriRemoves(bridgeDb.checkouts, q, id) => BriPoolsHave(d.bal, q, d.completeOutTotal, bridgeFees', d.completeInTotal)
  <2>1. CASE completed
    <3> DEFINE c == Bridge!CompleteOut(bridgeDb, request.amount)
    <3>1. BriCheckedOut(bridgeDb, c, request.amount) BY <1>2, <1>4, BriCompleteOutChanges
    <3>2. d = c BY <2>1
    <3> HIDE DEF c, d
    <3>3. BriCheckedOut(bridgeDb, d, request.amount) BY <3>1, <3>2
    <3>4. bridgeDb.completeDaily[bridgeDay] \in Nat BY <1>2 DEF BriShape
    <3>5. d.completeDaily[bridgeDay] <= bridgeDb.completeDaily[bridgeDay] + request.amount BY <1>4, <3>3, <3>4 DEF BriCheckedOut
    <3>6. /\ d.bal = bridgeDb.bal /\ d.completeInTotal = bridgeDb.completeInTotal
          /\ d.completeOutTotal = bridgeDb.completeOutTotal + request.amount
          /\ bridgeFees' = bridgeFees + m
      BY <1>1, <1>10, <2>1, <3>3 DEF BriCheckedOut
    <3>7. ASSUME NEW q \in BriRequestsOf(BriOutRequest), BriRemoves(bridgeDb.checkouts, q, id)
          PROVE  BriPoolsHave(d.bal, q, d.completeOutTotal, bridgeFees', d.completeInTotal)
      <4>1. Moves(BriCostsOf(bridgeDb.checkouts), BriCostsOf(q), k, 0) BY <1>6, <3>7
      <4> QED BY <1>2, <1>4, <1>7, <1>9, <1>10, <1>11, <3>6, <4>1 DEF BriPoolsHave, Moves
    <3> QED BY <3>3, <3>5, <3>7 DEF BriCheckedOut
  <2>2. CASE ~completed
    <3> DEFINE c == Bridge!Transfer(bridgeDb, bridgeConfig.pool, request.user, k, <<"refund", id>>)
    <3>1. d = c BY <2>2 DEF Bridge!Refund, k
    <3>2. c # Failed BY <1>1, <3>1
    <3>3. BriMoneyChanges(bridgeDb, c, bridgeConfig.pool, request.user, k) BY <1>2, <1>5, <1>7, <3>2, BriTransferChanges
    <3> HIDE DEF c, d
    <3>4. BriMoneyChanges(bridgeDb, d, bridgeConfig.pool, request.user, k) BY <3>1, <3>3
    <3>5. bridgeDb.completeDaily[bridgeDay] \in Nat BY <1>2 DEF BriShape
    <3>6. d.completeDaily[bridgeDay] <= bridgeDb.completeDaily[bridgeDay] + request.amount BY <1>4, <3>4, <3>5 DEF BriMoneyChanges
    <3>7. /\ d.completeInTotal = bridgeDb.completeInTotal /\ d.completeOutTotal = bridgeDb.completeOutTotal
          /\ bridgeFees' = bridgeFees /\ Paid(Bridge!Account, bridgeDb.bal, d.bal, bridgeConfig.pool, request.user, k)
      BY <1>1, <2>2, <3>4 DEF BriMoneyChanges
    <3>8. /\ Moves(TotalOf(bridgeDb.bal, Pool), TotalOf(d.bal, Pool), k, 0)
          /\ TotalOf(bridgeDb.bal, Pool) \in Int /\ d.bal \in [Bridge!Account -> Nat]
      BY <1>2, <1>4, <3>7, BriPoolPays
    <3>9. ASSUME NEW q \in BriRequestsOf(BriOutRequest), BriRemoves(bridgeDb.checkouts, q, id)
          PROVE  BriPoolsHave(d.bal, q, d.completeOutTotal, bridgeFees', d.completeInTotal)
      <4>1. Moves(BriCostsOf(bridgeDb.checkouts), BriCostsOf(q), k, 0) BY <1>6, <3>9
      <4> QED BY <1>2, <1>7, <1>9, <3>7, <3>8, <4>1 DEF BriPoolsHave, Moves
    <3> QED BY <3>4, <3>6, <3>9 DEF BriMoneyChanges
  <2> QED BY <2>1, <2>2
<1> HIDE DEF d
<1> QED BY <1>1, <1>12, BriCheckoutIsClosed

\* A change of the configuration concerns requests to come.
LEMMA BriSetConfigKeeps ==
  ASSUME Bridge!BridgeIsAssumed, BriIInv, NEW p \in Pool, NEW rate \in FeeRates, Bridge!SetConfig(p, rate)
  PROVE  BriIInv'
<1>1. bridgeConfig' = [pool |-> p, feeRate |-> rate] /\ UNCHANGED <<bridgeDb, bridgeDay, bridgeOpened, bridgeFees>> BY DEF Bridge!SetConfig
<1>2. bridgeConfig'.pool \in Pool /\ bridgeConfig'.feeRate \in Nat BY <1>1, BriConstants
<1> QED BY <1>1, <1>2 DEF BriIInv

\* On a new day nothing is completed yet.
LEMMA BriNextDayKeeps ==
  ASSUME Bridge!BridgeIsAssumed, BriIInv, Bridge!NextDay
  PROVE  BriIInv'
<1>1. bridgeDay < MaxDay /\ bridgeDay' = bridgeDay + 1 /\ UNCHANGED <<bridgeDb, bridgeConfig, bridgeOpened, bridgeFees>> BY DEF Bridge!NextDay
<1>2. bridgeDay \in Bridge!Day /\ MaxDay \in Nat /\ Bridge!Day \subseteq Nat BY BriConstants DEF BriIInv, Bridge!Day
<1>3. bridgeDay' \in Bridge!Day BY <1>1, <1>2 DEF Bridge!Day
<1> DEFINE c == bridgeDb.completeDaily
           t == bridgeDb.pendingOutTotal
<1>4. BriDaily(c, t, bridgeDay) /\ t \in Nat /\ c \in [Bridge!Day -> Nat] /\ MaxPerDay \in Nat BY BriConstants DEF BriIInv, BriPendingOutIs, BriShape
<1> HIDE DEF c, t
<1>5. c[bridgeDay'] = 0 /\ t + c[bridgeDay] <= MaxPerDay /\ c[bridgeDay] \in Nat BY <1>1, <1>2, <1>3, <1>4 DEF BriDaily
<1>6. t + c[bridgeDay'] <= MaxPerDay BY <1>4, <1>5
<1>7. \A d \in Bridge!Day : d > bridgeDay' => c[d] = 0
  <2> TAKE d \in Bridge!Day
  <2> HAVE d > bridgeDay'
  <2>1. d > bridgeDay BY <1>1, <1>2
  <2> QED BY <1>4, <2>1 DEF BriDaily
<1>8. BriDaily(c, t, bridgeDay') BY <1>4, <1>6, <1>7 DEF BriDaily
<1> QED BY <1>1, <1>3, <1>8 DEF BriIInv, c, t

\* A step keeps the invariant.
LEMMA BriStepHolds ==
  ASSUME Bridge!BridgeIsAssumed, BriIInv, [Bridge!Next]_Bridge!vars
  PROVE  BriIInv'
<1>1. ASSUME NEW u \in User, NEW s \in Sender, NEW amount \in BridgeAmounts, Bridge!OpenCheckin(u, s, amount) PROVE BriIInv'
  BY <1>1, BriOpenCheckinKeeps
<1>2. ASSUME NEW id \in DOMAIN bridgeDb.checkins, Bridge!CancelCheckin(id) PROVE BriIInv'
  BY <1>2, BriCancelCheckinKeeps
<1>3. ASSUME NEW id \in DOMAIN bridgeDb.checkins, NEW completed \in BOOLEAN, Bridge!CloseCheckin(id, completed) PROVE BriIInv'
  BY <1>3, BriCloseCheckinKeeps
<1>4. ASSUME NEW u \in User, NEW amount \in BridgeAmounts, Bridge!OpenCheckout(u, amount) PROVE BriIInv'
  BY <1>4, BriOpenCheckoutKeeps
<1>5. ASSUME NEW id \in DOMAIN bridgeDb.checkouts, NEW completed \in BOOLEAN, Bridge!CloseCheckout(id, completed) PROVE BriIInv'
  BY <1>5, BriCloseCheckoutKeeps
<1>6. ASSUME NEW p \in Pool, NEW r \in FeeRates, Bridge!SetConfig(p, r) PROVE BriIInv'
  BY <1>6, BriSetConfigKeeps
<1>7. CASE Bridge!NextDay BY <1>7, BriNextDayKeeps
<1>8. CASE UNCHANGED Bridge!vars BY <1>8 DEF BriIInv, Bridge!vars
<1> QED BY <1>1, <1>2, <1>3, <1>4, <1>5, <1>6, <1>7, <1>8 DEF Bridge!Next

\* Nothing is pending and all pools have their funds at first.
LEMMA BriInitHolds ==
  ASSUME Bridge!BridgeIsAssumed, Bridge!Init
  PROVE  BriIInv
<1>1. /\ bridgeConfig.pool \in Pool /\ bridgeConfig.feeRate \in Nat /\ bridgeDay = 1 /\ bridgeOpened = 0 /\ bridgeFees = 0
  BY BriConstants DEF Bridge!Init
<1>2. /\ BridgeFunds \in Nat /\ IsFiniteSet(Bridge!Account) /\ IsFiniteSet(Pool) /\ MaxDay \in Nat /\ MaxDay >= 1
      /\ MaxPerDay \in Nat /\ MaxRequests \in Nat /\ Pool \in SUBSET Bridge!Account
  BY BriConstants
<1>3. 1 \in Bridge!Day BY <1>2 DEF Bridge!Day
<1>4. /\ bridgeDb.bal = [a \in Bridge!Account |-> BridgeFunds] /\ bridgeDb.checkins = <<>> /\ bridgeDb.checkouts = <<>>
      /\ bridgeDb.pendingIn = [a \in Sender \cup Pool |-> 0] /\ bridgeDb.pendingOut = [u \in User |-> 0]
      /\ bridgeDb.pendingOutTotal = 0 /\ bridgeDb.completeOutTotal = 0 /\ bridgeDb.completeInTotal = 0
      /\ bridgeDb.completeDaily = [d \in Bridge!Day |-> 0]
  BY DEF Bridge!Init
<1>5. BriShape(bridgeDb) BY <1>2 DEF Bridge!Init, BriShape
<1>6. DOMAIN bridgeDb.checkins = {} /\ DOMAIN bridgeDb.checkouts = {} BY <1>4
<1>7. \A R : <<>> \in BriRequestsOf(R)
  <2> TAKE R
  <2>1. <<>> \in [{} -> R] /\ {} \in SUBSET Bridge!Id OBVIOUS
  <2> QED BY <2>1, BriRequestsWith
<1>8. \A r, ids : ids = {} => BriAmountsOf(r, ids) = 0 BY TotalOfNone DEF BriAmountsOf
<1>9. BriPendingInIs(bridgeDb.pendingIn, bridgeDb.checkins)
  <2>1. TotalOf(bridgeDb.pendingIn, Pool) = 0
    <3>1. \A x \in Pool : bridgeDb.pendingIn[x] = 0 BY <1>4
    <3> QED BY <1>2, <3>1, TotalOfZeros
  <2>2. \A s \in Sender : BriSentBy(bridgeDb.checkins, s) = {} BY <1>6 DEF BriSentBy
  <2> QED BY <1>4, <1>6, <1>7, <1>8, <2>1, <2>2 DEF BriPendingInIs
<1>10. BriPendingOutIs(bridgeDb.pendingOut, bridgeDb.pendingOutTotal, bridgeDb.checkouts)
  <2>1. \A u \in User : BriOfUser(bridgeDb.checkouts, u) = {} BY <1>6 DEF BriOfUser
  <2> QED BY <1>4, <1>6, <1>7, <1>8, <2>1 DEF BriPendingOutIs
<1>11. BriPoolsHave(bridgeDb.bal, bridgeDb.checkouts, bridgeDb.completeOutTotal, bridgeFees, bridgeDb.completeInTotal)
  <2>1. BriCostsOf(bridgeDb.checkouts) = 0 BY <1>6, TotalOfNone DEF BriCostsOf
  <2>2. TotalOf(bridgeDb.bal, Pool) = BridgeFunds * Cardinality(Pool)
    <3>1. \A x \in Pool : bridgeDb.bal[x] = BridgeFunds BY <1>2, <1>4
    <3>2. BridgeFunds \in Int BY <1>2
    <3> QED BY <1>2, <3>1, <3>2, TotalOfConstant
  <2>3. BridgeFunds * Cardinality(Pool) \in Int BY <1>2, FS_CardinalityType
  <2>4. PICK f \in Int : f = BridgeFunds * Cardinality(Pool) BY <2>3
  <2>5. TotalOf(bridgeDb.bal, Pool) = f + 0 + 0 - 0 + 0 BY <2>2, <2>4
  <2>6. bridgeDb.bal \in [Bridge!Account -> Nat] BY <1>2, <1>4
  <2> QED BY <1>1, <1>4, <2>1, <2>4, <2>5, <2>6 DEF BriPoolsHave
<1>12. BriDaily(bridgeDb.completeDaily, bridgeDb.pendingOutTotal, bridgeDay) BY <1>1, <1>2, <1>3, <1>4 DEF BriDaily
<1>13. BriNumbers(bridgeDb.checkins, bridgeDb.checkouts, bridgeOpened) BY <1>1, <1>2, <1>6 DEF BriNumbers
<1> QED BY <1>1, <1>3, <1>5, <1>9, <1>10, <1>11, <1>12, <1>13 DEF BriIInv

\* The invariant gives what the runs check.
LEMMA BriInvariantSays ==
  ASSUME Bridge!BridgeIsAssumed, BriIInv
  PROVE  Bridge!TypeOK /\ Bridge!PendingIsOpen /\ Bridge!DailyLimitKept /\ Bridge!BooksBalance
<1>1. Bridge!TypeOK
  <2>1. \A s \in Sender : bridgeDb.pendingIn[s] \in Nat
    <3> TAKE s \in Sender
    <3> DEFINE S == BriSentBy(bridgeDb.checkins, s)
               c == [id \in S |-> bridgeDb.checkins[id].amount]
    <3>1. bridgeDb.checkins \in BriRequestsOf(BriInRequest) /\ bridgeDb.pendingIn[s] = TotalOf(c, S)
      BY DEF BriIInv, BriPendingInIs, BriAmountsOf
    <3>2. IsFiniteSet(DOMAIN bridgeDb.checkins) /\ \A id \in DOMAIN bridgeDb.checkins : bridgeDb.checkins[id] \in BriInRequest
      BY <3>1, BriRequestsAre
    <3>3. S \in SUBSET DOMAIN bridgeDb.checkins BY DEF BriSentBy
    <3>4. IsFiniteSet(S) BY <3>2, <3>3, FS_Subset
    <3>5. \A id \in S : c[id] \in Nat BY <3>2, <3>3 DEF BriInRequest
    <3> HIDE DEF c, S
    <3> QED BY <3>1, <3>4, <3>5, TotalIsNat
  <2>2. \A u \in User : bridgeDb.pendingOut[u] \in Nat
    <3> TAKE u \in User
    <3> DEFINE S == BriOfUser(bridgeDb.checkouts, u)
               c == [id \in S |-> bridgeDb.checkouts[id].amount]
    <3>1. bridgeDb.checkouts \in BriRequestsOf(BriOutRequest) /\ bridgeDb.pendingOut[u] = TotalOf(c, S)
      BY DEF BriIInv, BriPendingOutIs, BriAmountsOf
    <3>2. IsFiniteSet(DOMAIN bridgeDb.checkouts) /\ \A id \in DOMAIN bridgeDb.checkouts : bridgeDb.checkouts[id] \in BriOutRequest
      BY <3>1, BriRequestsAre
    <3>3. S \in SUBSET DOMAIN bridgeDb.checkouts BY DEF BriOfUser
    <3>4. IsFiniteSet(S) BY <3>2, <3>3, FS_Subset
    <3>5. \A id \in S : c[id] \in Nat BY <3>2, <3>3 DEF BriOutRequest
    <3> HIDE DEF c, S
    <3> QED BY <3>1, <3>4, <3>5, TotalIsNat
  <2>3. bridgeDb.pendingOutTotal \in Nat /\ \A a \in Bridge!Account : bridgeDb.bal[a] \in Nat BY DEF BriIInv, BriPendingOutIs, BriShape
  <2>4. DOMAIN bridgeDb.checkins \cap DOMAIN bridgeDb.checkouts = {} /\ DOMAIN bridgeDb.checkins \cup DOMAIN bridgeDb.checkouts \subseteq 1..bridgeOpened
    BY DEF BriIInv, BriNumbers
  <2> QED BY <2>1, <2>2, <2>3, <2>4 DEF Bridge!TypeOK
<1>2. Bridge!PendingIsOpen
  <2>1. \A s \in Sender : bridgeDb.pendingIn[s] = Bridge!Summed(bridgeDb.checkins, {id \in DOMAIN bridgeDb.checkins : bridgeDb.checkins[id].sender = s})
    BY BriSummedIs DEF BriIInv, BriPendingInIs, BriSentBy
  <2>2. \A u \in User : bridgeDb.pendingOut[u] = Bridge!Summed(bridgeDb.checkouts, {id \in DOMAIN bridgeDb.checkouts : bridgeDb.checkouts[id].user = u})
    BY BriSummedIs DEF BriIInv, BriPendingOutIs, BriOfUser
  <2>3. Bridge!Total(bridgeDb.pendingIn, Pool) = Bridge!Summed(bridgeDb.checkins, DOMAIN bridgeDb.checkins)
    BY BriSummedIs, BriTotalIsSum DEF BriIInv, BriPendingInIs
  <2>4. bridgeDb.pendingOutTotal = Bridge!Summed(bridgeDb.checkouts, DOMAIN bridgeDb.checkouts)
    BY BriSummedIs DEF BriIInv, BriPendingOutIs
  <2> QED BY <2>1, <2>2, <2>3, <2>4 DEF Bridge!PendingIsOpen
<1>3. Bridge!DailyLimitKept BY DEF BriIInv, BriDaily, Bridge!DailyLimitKept
<1>4. Bridge!BooksBalance
  <2>1. BriPoolsHave(bridgeDb.bal, bridgeDb.checkouts, bridgeDb.completeOutTotal, bridgeFees, bridgeDb.completeInTotal) BY DEF BriIInv
  <2>2. BriCostsOf(bridgeDb.checkouts) = Bridge!Total([id \in DOMAIN bridgeDb.checkouts |->
                 Bridge!WithFee(bridgeDb.checkouts[id].amount, bridgeDb.checkouts[id].feeRate)], DOMAIN bridgeDb.checkouts)
    BY BriTotalIsSum DEF BriCostsOf
  <2>3. Bridge!Total(bridgeDb.bal, Pool) = TotalOf(bridgeDb.bal, Pool) BY BriTotalIsSum
  <2>4. Bridge!Total(bridgeDb.bal, Pool) =
         BridgeFunds * Bridge!Cardinality(Pool) + bridgeDb.completeOutTotal + bridgeFees - bridgeDb.completeInTotal
           + BriCostsOf(bridgeDb.checkouts)
    BY <2>1, <2>3, BriPlain DEF BriPoolsHave
  <2> QED BY <2>2, <2>4 DEF Bridge!BooksBalance
<1> QED BY <1>1, <1>2, <1>3, <1>4

-----------------------------------------------------------------------------
(* Payments and escrows: tokens on their way, and releases as a whole.     *)

\* The instance has its own names for these.
LEMMA PayPlain == \A S : (Pay!IsFiniteSet(S) <=> IsFiniteSet(S)) /\ Pay!Cardinality(S) = Cardinality(S)
<1>1. \A S : Pay!IsFiniteSet(S) <=> IsFiniteSet(S) BY Zenon DEF IsFiniteSet, Pay!IsFiniteSet
<1>2. \A S : Pay!Cardinality(S) = Cardinality(S)
  BY Zenon DEF Cardinality, Pay!Cardinality, IsFiniteSet, Pay!IsFiniteSet
<1> QED BY <1>1, <1>2

\* The sums of the module are the sums of the kit.
LEMMA PayTotalIsSum == \A f, S : Pay!Total(f, S) = TotalOf(f, S)
BY Zenon DEF Pay!Total, TotalOf, Pay!MapThenSumSet, Pay!MapThenFoldSet, Sums!Fold, Sums!FoldOf, Sums!IsFold, Plus, ValueAt, AnyOf

\* What the proofs need of the constants
LEMMA PayConstants ==
  ASSUME Pay!PayAssumption
  PROVE  /\ IsFiniteSet(Pay!Account) /\ IsFiniteSet(User) /\ User \in SUBSET Pay!Account
         /\ \A u \in User : u \in Pay!Source
         /\ \A p \in Pay!Payment : p \in Pay!Source
         /\ \A a \in Pay!Source : a \in Pay!Account /\ a \notin Escrow
         /\ \A e \in Escrow : e \in Pay!Account /\ e.source \in Pay!Source /\ e.target \in Pay!Source
         /\ PayFunds \in Nat /\ PayAmounts \subseteq Nat /\ Ratios \subseteq 0..100
         /\ MaxTime \in Nat /\ MaxTime >= 1 /\ AdminGroup \subseteq SUBSET User
<1>1. IsFiniteSet(User) /\ IsFiniteSet(Pay!Payment) /\ IsFiniteSet(Escrow) BY PayPlain DEF Pay!PayAssumption
<1>2. IsFiniteSet(User \cup Pay!Payment \cup Escrow) BY <1>1, FS_Union
<1> QED BY <1>1, <1>2 DEF Pay!PayAssumption, Pay!Account, Pay!Source

-----------------------------------------------------------------------------
\* The fields of a database, whose tokens are those of the users at first
PayShape(d) ==
  /\ d = [bal |-> d.bal, sent |-> d.sent, admins |-> d.admins, keepers |-> d.keepers, holds |-> d.holds]
  /\ d.bal \in [Pay!Account -> Nat]
  /\ d.admins \in [PayingApp -> SUBSET User]
  /\ d.keepers \in [Escrow -> SUBSET User]
  /\ TotalOf(d.bal, Pay!Account) = PayFunds * Cardinality(User)

PayIInv == PayShape(payDb) /\ payTime \in 1..MaxTime

\* What a release may do to an escrow
PayWholeFor(b, c, e) ==
  c[e] < b[e] =>
    /\ c[e] = 0
    /\ Moves(TotalOf(b, {e.source, e.target}), TotalOf(c, {e.source, e.target}), 0, b[e])
PayWhole(b, c) == \A e \in Escrow : PayWholeFor(b, c, e)

\* A step of one transfer
Pays(d, r, from, to, k) ==
  /\ PayShape(r)
  /\ Paid(Pay!Account, d.bal, r.bal, from, to, k)

\* A transfer moves its amount and nothing else.
LEMMA PayTransferPays ==
  ASSUME Pay!PayAssumption, NEW d, PayShape(d), NEW from \in Pay!Account, NEW to \in Pay!Account, NEW k \in Nat, NEW key,
         Pay!Transfer(d, from, to, k, key) # Failed
  PROVE  Pays(d, Pay!Transfer(d, from, to, k, key), from, to, k)
<1> DEFINE r == Pay!Transfer(d, from, to, k, key)
           b == [d.bal EXCEPT ![from] = @ - k, ![to] = @ + k]
<1>1. Pay!MayTransfer(d, from, to, k, key) /\ r = Pay!Moved(d, from, to, k, key) BY DEF Pay!Transfer
<1>2. from # to /\ k > 0 /\ d.bal[from] >= k BY <1>1 DEF Pay!MayTransfer
<1>3. Paid(Pay!Account, d.bal, b, from, to, k) BY <1>2 DEF Paid, PayShape
<1>4. r = [d EXCEPT !.bal = b, !.sent = @ \cup {<<from, to, key>>}] BY <1>1, <1>2 DEF Pay!Moved, PayShape
<1> HIDE DEF b, r
<1>5. /\ TotalOf(d.bal, Pay!Account) \in Int /\ TotalOf(b, Pay!Account) \in Int
      /\ Transferred(d.bal, b, Pay!Account, from, to, k)
  <2>1. IsFiniteSet(Pay!Account) /\ Pay!Account \in SUBSET Pay!Account BY PayConstants
  <2> QED BY <1>3, <2>1, PaidMoves
<1>6. TotalOf(b, Pay!Account) = PayFunds * Cardinality(User) BY <1>5 DEF Transferred, Moves, PayShape
<1>7. r.bal = b /\ PayShape(r) BY <1>3, <1>4, <1>6 DEF PayShape, Paid
<1>8. Pays(d, r, from, to, k) BY <1>3, <1>7 DEF Pays
<1> QED BY <1>8 DEF r

\* A database with another field than its balances
LEMMA PayOthersKeepShape ==
  ASSUME NEW d, PayShape(d)
  PROVE  /\ \A h : PayShape([d EXCEPT !.holds = h]) /\ [d EXCEPT !.holds = h].bal = d.bal
         /\ \A a \in [PayingApp -> SUBSET User] : PayShape([d EXCEPT !.admins = a]) /\ [d EXCEPT !.admins = a].bal = d.bal
         /\ \A k \in [Escrow -> SUBSET User] : PayShape([d EXCEPT !.keepers = k]) /\ [d EXCEPT !.keepers = k].bal = d.bal
BY DEF PayShape

\* An account that is no escrow pays no escrow's tokens.
LEMMA PaySourcesAreWhole ==
  ASSUME Pay!PayAssumption, NEW b, NEW c, NEW from, NEW to, NEW k, Paid(Pay!Account, b, c, from, to, k), from \in Pay!Source
  PROVE  PayWhole(b, c)
<1> SUFFICES ASSUME NEW e \in Escrow PROVE PayWholeFor(b, c, e) BY DEF PayWhole
<1>1. e # from /\ e \in Pay!Account BY PayConstants
<1>2. c[e] >= b[e] BY <1>1 DEF Paid
<1>3. b[e] \in Nat /\ c[e] \in Nat BY <1>1 DEF Paid
<1> QED BY <1>2, <1>3 DEF PayWholeFor

\* Nothing is released by nothing.
LEMMA PaySameIsWhole ==
  ASSUME Pay!PayAssumption, NEW b \in [Pay!Account -> Nat]
  PROVE  PayWhole(b, b)
BY PayConstants DEF PayWhole, PayWholeFor

-----------------------------------------------------------------------------
\* The step of a function that transfers once, from an account that is no escrow
LEMMA PayOneTransfer ==
  ASSUME Pay!PayAssumption, PayIInv, NEW d, PayShape(d), d.bal = payDb.bal,
         NEW from \in Pay!Source, NEW to \in Pay!Account, NEW k \in Nat, NEW key,
         Pay!Commit(Pay!Transfer(d, from, to, k, key))
  PROVE  PayIInv' /\ PayWhole(payDb.bal, payDb'.bal)
<1> DEFINE r == Pay!Transfer(d, from, to, k, key)
<1>1. r # Failed /\ payDb' = r /\ payTime' = payTime BY DEF Pay!Commit
<1>2. from \in Pay!Account BY PayConstants
<1>3. Pays(d, r, from, to, k) BY <1>1, <1>2, PayTransferPays
<1> HIDE DEF r
<1>4. PayShape(r) /\ Paid(Pay!Account, payDb.bal, r.bal, from, to, k) BY <1>3 DEF Pays
<1>5. PayWhole(payDb.bal, r.bal) BY <1>4, PaySourcesAreWhole
<1> QED BY <1>1, <1>4, <1>5 DEF PayIInv

\* _hold and _claim into an escrow: an escrow only gains.
LEMMA PayHeldKeeps ==
  ASSUME Pay!PayAssumption, PayIInv, NEW e \in Escrow, NEW amount \in PayAmounts, NEW record, Pay!Commit(Pay!Held(e, amount, record))
  PROVE  PayIInv' /\ PayWhole(payDb.bal, payDb'.bal)
<1> DEFINE h == payDb.holds \cup {<<e, record>>}
           d == [payDb EXCEPT !.holds = h]
<1>1. Pay!Held(e, amount, record) = Pay!Transfer(d, e.source, e, amount, payTime) BY DEF Pay!Held, Pay!Commit
<1>2. PayShape(d) /\ d.bal = payDb.bal BY PayOthersKeepShape DEF PayIInv
<1> HIDE DEF d
<1>3. e \in Pay!Account /\ e.source \in Pay!Source /\ amount \in Nat BY PayConstants
<1>4. Pay!Commit(Pay!Transfer(d, e.source, e, amount, payTime)) BY <1>1
<1> QED BY <1>2, <1>3, <1>4, PayOneTransfer

\* What is configured moves no tokens.
LEMMA PayConfigKeeps ==
  ASSUME Pay!PayAssumption, PayIInv, NEW r, PayShape(r), r.bal = payDb.bal, Pay!Commit(r)
  PROVE  PayIInv' /\ PayWhole(payDb.bal, payDb'.bal)
<1>1. payDb' = r /\ payTime' = payTime BY DEF Pay!Commit
<1>2. PayWhole(payDb.bal, payDb.bal) BY PaySameIsWhole DEF PayIInv, PayShape
<1> QED BY <1>1, <1>2 DEF PayIInv

-----------------------------------------------------------------------------
\* The shares of a release
LEMMA PayShareIs ==
  ASSUME Pay!PayAssumption, PayIInv, NEW e \in Escrow, NEW ratio \in Ratios
  PROVE  Pay!Share(e, ratio) \in 0..payDb.bal[e]
<1> DEFINE b == payDb.bal[e]
<1>1. b \in Nat /\ ratio \in 0..100 BY PayConstants DEF PayIInv, PayShape
<1> HIDE DEF b
<1>2. PICK m \in Nat : m = b * ratio
  <2>1. b * ratio \in Nat BY <1>1
  <2> QED BY <2>1
<1>3. m <= 100 * b
  <2>1. PICK r \in Nat, s \in Nat : r = ratio /\ s = 100 - ratio BY <1>1
  <2>2. b * s \in Nat BY <1>1, <2>1
  <2>3. b * r + b * s = b * 100
    <3>1. b * r + b * s = b * (r + s) BY <1>1, <2>1
    <3>2. r + s = 100 BY <1>1, <2>1
    <3> QED BY <3>1, <3>2
  <2> QED BY <1>1, <1>2, <2>1, <2>2, <2>3
<1>4. m \div 100 \in 0..b BY <1>1, <1>2, <1>3
<1> QED BY <1>2, <1>4 DEF Pay!Share, b

\* A part is a transfer or nothing.
LEMMA PayPartPays ==
  ASSUME Pay!PayAssumption, NEW d, PayShape(d), NEW e \in Escrow, NEW to \in Pay!Source, NEW k \in Nat,
         Pay!Part(d, e, to, k) # Failed
  PROVE  \/ k = 0 /\ Pay!Part(d, e, to, k) = d
         \/ Pays(d, Pay!Part(d, e, to, k), e, to, k)
<1>1. CASE k > 0
  <2>1. Pay!Part(d, e, to, k) = Pay!Transfer(d, e, to, k, payTime) BY <1>1 DEF Pay!Part
  <2>2. e \in Pay!Account /\ to \in Pay!Account BY PayConstants
  <2>3. Pay!Transfer(d, e, to, k, payTime) # Failed BY <2>1
  <2>4. Pays(d, Pay!Transfer(d, e, to, k, payTime), e, to, k) BY <2>2, <2>3, PayTransferPays
  <2> QED BY <2>1, <2>4
<1>2. CASE k = 0 BY <1>2 DEF Pay!Part
<1> QED BY <1>1, <1>2

\* What one part does to the two accounts of an escrow and to the others
PaysOrNot(d, r, e, to, k) == (k = 0 /\ r = d) \/ Pays(d, r, e, to, k)
PayGives(d, r, e, k) ==
  /\ PayShape(r) /\ r.bal[e] = d.bal[e] - k
  /\ \A x \in Escrow : x # e => r.bal[x] = d.bal[x]
  /\ TotalOf(d.bal, {e.source, e.target}) \in Int
  /\ Moves(TotalOf(d.bal, {e.source, e.target}), TotalOf(r.bal, {e.source, e.target}), 0, k)

\* One of the two transfers of a release takes its part out of the escrow for good.
LEMMA PayPartGives ==
  ASSUME Pay!PayAssumption, NEW d, PayShape(d), NEW r, NEW e \in Escrow, NEW to \in {e.source, e.target}, NEW k \in Nat,
         PaysOrNot(d, r, e, to, k)
  PROVE  PayGives(d, r, e, k)
<1> DEFINE S == {e.source, e.target}
<1>1. /\ e \in Pay!Account /\ S \in SUBSET Pay!Account /\ e \notin S /\ IsFiniteSet(Pay!Account) /\ IsFiniteSet(S)
      /\ \A x \in Escrow : x \in Pay!Account /\ x # to
  <2>1. e.source \in Pay!Source /\ e.target \in Pay!Source /\ e \in Pay!Account /\ IsFiniteSet(Pay!Account) BY PayConstants
  <2>2. S \in SUBSET Pay!Account /\ e \notin S BY <2>1, PayConstants
  <2>3. IsFiniteSet(S) BY <2>1, <2>2, FS_Subset
  <2>4. \A x \in Escrow : x \in Pay!Account /\ x # to BY <2>1, PayConstants
  <2> QED BY <2>1, <2>2, <2>3, <2>4
<1>2. CASE k = 0 /\ r = d
  <2>1. TotalOf(d.bal, S) \in Int
    <3>1. \A x \in S : d.bal[x] \in Int BY <1>1 DEF PayShape
    <3> HIDE DEF S
    <3> QED BY <1>1, <3>1, TotalIsInt
  <2>2. d.bal[e] \in Nat BY <1>1 DEF PayShape
  <2> QED BY <1>2, <2>1, <2>2 DEF Moves, PayGives
<1>3. CASE Pays(d, r, e, to, k)
  <2>1. Paid(Pay!Account, d.bal, r.bal, e, to, k) /\ PayShape(r) BY <1>3 DEF Pays
  <2>2. /\ TotalOf(d.bal, S) \in Int
        /\ Transferred(d.bal, r.bal, S, e, to, k)
    <3> HIDE DEF S
    <3> QED BY <1>1, <2>1, PaidMoves
  <2>3. Moves(TotalOf(d.bal, S), TotalOf(r.bal, S), 0, k) BY <1>1, <2>2 DEF Transferred
  <2>4. r.bal[e] = d.bal[e] - k /\ \A x \in Escrow : x # e => r.bal[x] = d.bal[x]
    BY <1>1, <2>1 DEF Paid
  <2> QED BY <2>1, <2>2, <2>3, <2>4 DEF PayGives
<1> QED BY <1>2, <1>3 DEF PaysOrNot

\* _release keeps the invariant and pays out as a whole.
LEMMA PayReleaseKeeps ==
  ASSUME Pay!PayAssumption, PayIInv, NEW u \in User, NEW e \in Escrow, NEW ratio \in Ratios, Pay!Release(u, e, ratio)
  PROVE  PayIInv' /\ PayWhole(payDb.bal, payDb'.bal)
<1> DEFINE k == Pay!Share(e, ratio)
           d == IF Pay!IsExact(e, ratio) THEN Pay!Part(payDb, e, e.target, k) ELSE Failed
           j == payDb.bal[e] - k
           r == Pay!Part(d, e, e.source, j)
<1>1. d # Failed /\ r # Failed /\ payDb' = r /\ payTime' = payTime BY DEF Pay!Release, Pay!Commit, Pay!Released
<1>2. d = Pay!Part(payDb, e, e.target, k) BY <1>1
<1>3. PayShape(payDb) /\ e \in Pay!Account /\ e.source \in Pay!Source /\ e.target \in Pay!Source BY PayConstants DEF PayIInv
<1>4. k \in Nat /\ j \in Nat /\ payDb.bal[e] \in Nat /\ k + j = payDb.bal[e]
  <2>1. k \in 0..payDb.bal[e] BY PayShareIs
  <2>2. payDb.bal[e] \in Nat BY <1>3 DEF PayShape
  <2> QED BY <2>1, <2>2
<1> HIDE DEF k, j, d
<1>5. PaysOrNot(payDb, d, e, e.target, k) BY <1>1, <1>2, <1>3, <1>4, PayPartPays DEF PaysOrNot
<1>6. PayGives(payDb, d, e, k)
  <2>1. e.target \in {e.source, e.target} OBVIOUS
  <2> QED BY <1>3, <1>4, <1>5, <2>1, PayPartGives
<1>7. PayShape(d) BY <1>6 DEF PayGives
<1>8. PayGives(d, r, e, j)
  <2>1. e.source \in {e.source, e.target} OBVIOUS
  <2>2. PaysOrNot(d, r, e, e.source, j) BY <1>1, <1>3, <1>4, <1>7, PayPartPays DEF PaysOrNot
  <2> HIDE DEF r
  <2> QED BY <1>4, <1>7, <2>1, <2>2, PayPartGives
<1> HIDE DEF r
<1>9. r.bal[e] = 0 BY <1>4, <1>6, <1>8 DEF PayGives
<1>10. Moves(TotalOf(payDb.bal, {e.source, e.target}), TotalOf(r.bal, {e.source, e.target}), 0, payDb.bal[e])
  BY <1>4, <1>6, <1>8 DEF PayGives, Moves
<1>11. PayWhole(payDb.bal, r.bal)
  <2> SUFFICES ASSUME NEW x \in Escrow PROVE PayWholeFor(payDb.bal, r.bal, x) BY DEF PayWhole
  <2>1. CASE x = e BY <1>9, <1>10, <2>1 DEF PayWholeFor
  <2>2. CASE x # e
    <3>1. r.bal[x] = payDb.bal[x] /\ payDb.bal[x] \in Nat BY <1>3, <1>6, <1>8, <2>2, PayConstants DEF PayGives, PayShape
    <3> QED BY <3>1 DEF PayWholeFor
  <2> QED BY <2>1, <2>2
<1>12. PayShape(r) BY <1>8 DEF PayGives
<1> QED BY <1>1, <1>11, <1>12 DEF PayIInv

-----------------------------------------------------------------------------
\* A step keeps the invariant and pays out of an escrow as a whole, if at all.
LEMMA PayStepHolds ==
  ASSUME Pay!PayAssumption, PayIInv, [Pay!Next]_Pay!vars
  PROVE  PayIInv' /\ PayWhole(payDb.bal, payDb'.bal)
<1>1. ASSUME NEW a \in PayingApp, NEW admins \in AdminGroup, Pay!CreateApp(a, admins) PROVE PayIInv' /\ PayWhole(payDb.bal, payDb'.bal)
  <2> DEFINE m == [payDb.admins EXCEPT ![a] = admins]
             r == [payDb EXCEPT !.admins = m]
  <2>1. Pay!Commit([payDb EXCEPT !.admins[a] = admins]) BY <1>1 DEF Pay!CreateApp
  <2>2. m \in [PayingApp -> SUBSET User] BY PayConstants DEF PayIInv, PayShape
  <2>3. [payDb EXCEPT !.admins[a] = admins] = r BY DEF PayIInv, PayShape
  <2> HIDE DEF m
  <2>4. PayShape(r) /\ r.bal = payDb.bal BY <2>2, PayOthersKeepShape DEF PayIInv
  <2> HIDE DEF r
  <2> QED BY <2>1, <2>3, <2>4, PayConfigKeeps
<1>2. ASSUME NEW u \in User, NEW p \in Pay!Payment, NEW amount \in PayAmounts, Pay!Pay(u, p, amount)
      PROVE  PayIInv' /\ PayWhole(payDb.bal, payDb'.bal)
  <2>1. Pay!Commit(Pay!Transfer(payDb, u, p, amount, payTime)) BY <1>2 DEF Pay!Pay
  <2>2. u \in Pay!Source /\ p \in Pay!Account /\ amount \in Nat /\ PayShape(payDb) BY PayConstants DEF PayIInv
  <2> QED BY <2>1, <2>2, PayOneTransfer
<1>3. ASSUME NEW u \in User, NEW p \in Pay!Payment, NEW t \in Pay!Source, NEW amount \in PayAmounts, Pay!Claim(u, p, t, amount)
      PROVE  PayIInv' /\ PayWhole(payDb.bal, payDb'.bal)
  <2>1. Pay!Commit(Pay!Transfer(payDb, p, t, amount, payTime)) BY <1>3 DEF Pay!Claim
  <2>2. p \in Pay!Source /\ t \in Pay!Account /\ amount \in Nat /\ PayShape(payDb) BY PayConstants DEF PayIInv
  <2> QED BY <2>1, <2>2, PayOneTransfer
<1>4. ASSUME NEW u \in User, NEW p \in Pay!Payment, NEW t \in User, NEW amount \in PayAmounts, Pay!ClaimInEscrow(u, p, t, amount)
      PROVE  PayIInv' /\ PayWhole(payDb.bal, payDb'.bal)
  <2> DEFINE e == [source |-> p, target |-> t]
  <2>1. e \in Escrow /\ Pay!Commit(Pay!Held(e, amount, <<"claim", payTime>>)) BY <1>4 DEF Pay!ClaimInEscrow
  <2> HIDE DEF e
  <2> QED BY <2>1, PayHeldKeeps
<1>5. ASSUME NEW u \in User, NEW e \in Escrow, NEW k \in AdminGroup, Pay!OpenEscrow(u, e, k)
      PROVE  PayIInv' /\ PayWhole(payDb.bal, payDb'.bal)
  <2> DEFINE m == [payDb.keepers EXCEPT ![e] = k]
             r == [payDb EXCEPT !.keepers = m]
  <2>1. Pay!Commit([payDb EXCEPT !.keepers[e] = k]) BY <1>5 DEF Pay!OpenEscrow
  <2>2. m \in [Escrow -> SUBSET User] BY PayConstants DEF PayIInv, PayShape
  <2>3. [payDb EXCEPT !.keepers[e] = k] = r BY DEF PayIInv, PayShape
  <2> HIDE DEF m
  <2>4. PayShape(r) /\ r.bal = payDb.bal BY <2>2, PayOthersKeepShape DEF PayIInv
  <2> HIDE DEF r
  <2> QED BY <2>1, <2>3, <2>4, PayConfigKeeps
<1>6. ASSUME NEW u \in User, NEW e \in Escrow, NEW amount \in PayAmounts, Pay!Hold(u, e, amount)
      PROVE  PayIInv' /\ PayWhole(payDb.bal, payDb'.bal)
  <2>1. Pay!Commit(Pay!Held(e, amount, <<"own", payTime>>)) BY <1>6 DEF Pay!Hold
  <2> QED BY <2>1, PayHeldKeeps
<1>7. ASSUME NEW u \in User, NEW e \in Escrow, NEW ratio \in Ratios, Pay!Release(u, e, ratio)
      PROVE  PayIInv' /\ PayWhole(payDb.bal, payDb'.bal)
  BY <1>7, PayReleaseKeeps
<1>8. PayWhole(payDb.bal, payDb.bal) BY PaySameIsWhole DEF PayIInv, PayShape
<1>9. CASE Pay!NextBlock
  <2>1. payTime < MaxTime /\ payTime' = payTime + 1 /\ payDb' = payDb BY <1>9 DEF Pay!NextBlock
  <2>2. payTime' \in 1..MaxTime BY <2>1, PayConstants DEF PayIInv
  <2> QED BY <1>8, <2>1, <2>2 DEF PayIInv
<1>10. CASE UNCHANGED Pay!vars BY <1>8, <1>10 DEF PayIInv, Pay!vars
<1> QED BY <1>1, <1>2, <1>3, <1>4, <1>5, <1>6, <1>7, <1>9, <1>10 DEF Pay!Next

\* The users have their funds at first.
LEMMA PayInitHolds ==
  ASSUME Pay!PayAssumption, Pay!Init
  PROVE  PayIInv
<1> DEFINE b == [a \in Pay!Account |-> IF a \in User THEN PayFunds ELSE 0]
           c == [a \in User |-> PayFunds]
<1>1. payDb = [bal |-> b, sent |-> {}, admins |-> [a \in PayingApp |-> {}], keepers |-> [e \in Escrow |-> {}], holds |-> {}]
      /\ payTime = 1
  BY DEF Pay!Init
<1>2. /\ PayFunds \in Nat /\ IsFiniteSet(Pay!Account) /\ IsFiniteSet(User) /\ User \in SUBSET Pay!Account
      /\ MaxTime \in Nat /\ MaxTime >= 1
  BY PayConstants
<1>3. /\ b \in [Pay!Account -> Nat] /\ \A x \in User : b[x] = PayFunds
      /\ \A x \in Pay!Account \ User : b[x] = 0
      /\ \A x \in Pay!Account : b[x] \in Int
  BY <1>2
<1> HIDE DEF b
<1>4. TotalOf(b, Pay!Account) = TotalOf(b, User) BY <1>2, <1>3, TotalOfPart
<1>5. TotalOf(b, User) = PayFunds * Cardinality(User)
  <2>1. PayFunds \in Int BY <1>2
  <2> QED BY <1>2, <1>3, <2>1, TotalOfConstant
<1>6. PayShape(payDb) BY <1>1, <1>3, <1>4, <1>5 DEF PayShape
<1> QED BY <1>1, <1>2, <1>6 DEF PayIInv

\* The invariant gives what the runs check.
LEMMA PayInvariantSays ==
  ASSUME Pay!PayAssumption, PayIInv
  PROVE  Pay!TypeOK
<1>1. \A a \in Pay!Account : payDb.bal[a] \in Nat BY DEF PayIInv, PayShape
<1>2. Pay!Total(payDb.bal, Pay!Account) = PayFunds * Pay!Cardinality(User) BY PayTotalIsSum, PayPlain DEF PayIInv, PayShape
<1> QED BY <1>1, <1>2 DEF Pay!TypeOK, PayIInv, PayShape

\* The whole that is paid out, as the runs state it
LEMMA PayWholeSays ==
  ASSUME Pay!PayAssumption, PayIInv, PayWhole(payDb.bal, payDb'.bal)
  PROVE  \A e \in Escrow : payDb'.bal[e] < payDb.bal[e] =>
           /\ payDb'.bal[e] = 0
           /\ Pay!Total(payDb'.bal, {e.source, e.target}) = Pay!Total(payDb.bal, {e.source, e.target}) + payDb.bal[e]
<1> TAKE e \in Escrow
<1> HAVE payDb'.bal[e] < payDb.bal[e]
<1> DEFINE S == {e.source, e.target}
<1>1. PayWholeFor(payDb.bal, payDb'.bal, e) BY DEF PayWhole
<1>2. payDb'.bal[e] = 0 /\ Moves(TotalOf(payDb.bal, S), TotalOf(payDb'.bal, S), 0, payDb.bal[e]) BY <1>1 DEF PayWholeFor
<1>3. TotalOf(payDb.bal, S) \in Int /\ payDb.bal[e] \in Nat
  <2>1. e.source \in Pay!Account /\ e.target \in Pay!Account /\ IsFiniteSet(Pay!Account) /\ e \in Pay!Account BY PayConstants
  <2>2. S \in SUBSET Pay!Account BY <2>1
  <2>3. IsFiniteSet(S) BY <2>1, <2>2, FS_Subset
  <2>4. \A x \in S : payDb.bal[x] \in Int BY <2>2 DEF PayIInv, PayShape
  <2> HIDE DEF S
  <2>5. TotalOf(payDb.bal, S) \in Int BY <2>3, <2>4, TotalIsInt
  <2> QED BY <2>1, <2>5 DEF PayIInv, PayShape
<1> HIDE DEF S
<1>4. Pay!Total(payDb'.bal, S) = TotalOf(payDb'.bal, S) /\ Pay!Total(payDb.bal, S) = TotalOf(payDb.bal, S) BY PayTotalIsSum
<1>5. Pay!Total(payDb'.bal, S) = Pay!Total(payDb.bal, S) + payDb.bal[e] BY <1>2, <1>3, <1>4 DEF Moves
<1> QED BY <1>2, <1>5 DEF S

-----------------------------------------------------------------------------
(* Fees and rewards: shares that add up, and bills to those who are listed. *)

\* The instance has its own names for these.
LEMMA FeePlain == \A S : (Fee!IsFiniteSet(S) <=> IsFiniteSet(S)) /\ Fee!Cardinality(S) = Cardinality(S)
<1>1. \A S : Fee!IsFiniteSet(S) <=> IsFiniteSet(S) BY Zenon DEF IsFiniteSet, Fee!IsFiniteSet
<1>2. \A S : Fee!Cardinality(S) = Cardinality(S)
  BY Zenon DEF Cardinality, Fee!Cardinality, IsFiniteSet, Fee!IsFiniteSet
<1> QED BY <1>1, <1>2

\* The sums of the module are the sums of the kit.
LEMMA FeeTotalIsSum == \A f, S : Fee!Total(f, S) = TotalOf(f, S)
BY Zenon DEF Fee!Total, TotalOf, Fee!MapThenSumSet, Fee!MapThenFoldSet, Sums!Fold, Sums!FoldOf, Sums!IsFold, Plus, ValueAt, AnyOf

\* What the proofs need of the constants
LEMMA FeeConstants ==
  ASSUME Fee!FeeAssumption
  PROVE  /\ IsFiniteSet(Fee!Account) /\ IsFiniteSet(Fee!Payer) /\ IsFiniteSet(Validator) /\ Fee!Payer \in SUBSET Fee!Account
         /\ \A u \in User : u \in Fee!Payer /\ u \notin Billing
         /\ \A b \in Billing : b \in Fee!Payer /\ b \in Fee!Account
         /\ \A p \in Fee!Payer : p \in Fee!Account /\ p # GasFees
         /\ \A v \in Validator : v \in Fee!Account /\ v # GasFees
         /\ GasFees \in Fee!Account
         /\ PayerFunds \in Nat /\ FeeAmounts \subseteq Nat /\ Price \in Nat
         /\ \A gas \in Gas : gas.bandwidth \in Nat /\ gas.state \in Nat
         /\ Coin \in Nat /\ Coin > 0 /\ RewardShare \in Nat /\ RewardRate \in Nat
<1>1. IsFiniteSet(User) /\ IsFiniteSet(Billing) /\ IsFiniteSet(Validator) /\ IsFiniteSet({GasFees})
  BY FS_Singleton, FeePlain DEF Fee!FeeAssumption
<1>2. IsFiniteSet(User \cup Billing) BY <1>1, FS_Union
<1>3. IsFiniteSet((User \cup Billing) \cup Validator) BY <1>1, <1>2, FS_Union
<1>4. IsFiniteSet(((User \cup Billing) \cup Validator) \cup {GasFees}) BY <1>1, <1>3, FS_Union
<1>5. Gas \subseteq [bandwidth : Nat, state : Nat] BY DEF Fee!FeeAssumption
<1>6. \A gas \in Gas : gas.bandwidth \in Nat /\ gas.state \in Nat BY <1>5
<1> QED BY <1>1, <1>2, <1>4, <1>6 DEF Fee!FeeAssumption, Fee!Account, Fee!Payer

-----------------------------------------------------------------------------
\* The votes of a block, and what they are at stake
FeeVotesAre(votes, n) ==
  /\ n \in Nat /\ n > 0 /\ DOMAIN votes = 1..n
  /\ \A i \in 1..n : votes[i].validator \in Validator /\ votes[i].stake \in Nat /\ votes[i].stake > 0

\* Votes are a list of stakes that are not zero.
LEMMA FeeVotesHave ==
  ASSUME Fee!FeeAssumption, NEW votes \in Votes
  PROVE  \E n \in Nat : FeeVotesAre(votes, n)
<1> DEFINE V == [validator : Validator, stake : Nat \ {0}]
<1>1. votes \in Seq(V) /\ votes # <<>> BY DEF Fee!FeeAssumption
<1>2. \A w \in V : w.validator \in Validator /\ w.stake \in Nat /\ w.stake > 0 OBVIOUS
<1> HIDE DEF V
<1>3. PICK n \in Nat : votes \in [1..n -> V] /\ n # 0
  <2>1. Len(votes) \in Nat /\ votes \in [1..Len(votes) -> V] /\ Len(votes) # 0 BY <1>1
  <2> QED BY <2>1
<1>4. DOMAIN votes = 1..n /\ \A i \in 1..n : votes[i] \in V BY <1>3
<1>5. n > 0 BY <1>3
<1>6. FeeVotesAre(votes, n) BY <1>2, <1>4, <1>5 DEF FeeVotesAre
<1> QED BY <1>6

\* Parts by stake, rounded down, of an amount are not more than the amount.
LEMMA FeePartsFit ==
  ASSUME NEW S, IsFiniteSet(S), NEW stakes, NEW parts, NEW amount \in Nat, NEW all \in Nat, all > 0,
         \A i \in S : stakes[i] \in Nat /\ parts[i] = (amount * stakes[i]) \div all,
         TotalOf(stakes, S) <= all
  PROVE  TotalOf(parts, S) \in Nat /\ TotalOf(parts, S) <= amount
<1>1. ASSUME NEW s \in Nat
      PROVE  \E p \in Nat : p = (amount * s) \div all /\ all * p <= amount * s
  <2>1. PICK m \in Nat : m = amount * s
    <3>1. amount * s \in Nat OBVIOUS
    <3> QED BY <3>1
  <2>2. m \div all \in Nat /\ all * (m \div all) <= m
    <3>1. m = all * (m \div all) + (m % all) /\ (m % all) \in Nat /\ m \div all \in Int OBVIOUS
    <3>2. m \div all >= 0 OBVIOUS
    <3>3. PICK q \in Nat : q = m \div all BY <3>1, <3>2
    <3>4. PICK r \in Nat : r = m % all BY <3>1
    <3>5. PICK x \in Nat : x = all * q
      <4>1. all * q \in Nat OBVIOUS
      <4> QED BY <4>1
    <3>6. m = x + r BY <3>1, <3>3, <3>4, <3>5
    <3> QED BY <3>3, <3>5, <3>6
  <2> QED BY <2>1, <2>2
<1>2. \A i \in S : parts[i] \in Nat /\ all * parts[i] <= amount * stakes[i]
  <2> TAKE i \in S
  <2>1. PICK s \in Nat : s = stakes[i] OBVIOUS
  <2>2. PICK p \in Nat : p = (amount * s) \div all /\ all * p <= amount * s BY <1>1
  <2> QED BY <2>1, <2>2
<1>3. TotalOf(parts, S) \in Nat /\ TotalOf(stakes, S) \in Nat BY <1>2, TotalIsNat
<1> DEFINE R == {t \in Nat \X Nat \X {0} : all * t[1] <= amount * t[2]}
           z == [i \in S |-> 0]
<1>4. <<TotalOf(parts, S), TotalOf(stakes, S), TotalOf(z, S)>> \in R
  <2>1. Sums!IsFiniteSet(S) /\ Sums!Picks(S) BY SumsOverFinite
  <2>2. <<0, 0, 0>> \in R OBVIOUS
  <2>3. ASSUME NEW i \in S, NEW u, NEW v, NEW w, <<u, v, w>> \in R
        PROVE  <<Plus(parts, ValueAt(parts, i), u), Plus(stakes, ValueAt(stakes, i), v), Plus(z, ValueAt(z, i), w)>> \in R
    <3>1. u \in Nat /\ v \in Nat /\ w = 0 /\ all * u <= amount * v BY <2>3
    <3>2. PICK p \in Nat, s \in Nat : p = parts[i] /\ s = stakes[i] /\ all * p <= amount * s BY <1>2
    <3>3. all * (p + u) = all * p + all * u /\ amount * (s + v) = amount * s + amount * v BY <3>1
    <3>4. all * p \in Nat /\ all * u \in Nat /\ amount * s \in Nat /\ amount * v \in Nat BY <3>1
    <3>5. all * (p + u) <= amount * (s + v) BY <3>1, <3>2, <3>3, <3>4
    <3>6. <<p + u, s + v, 0>> \in R BY <3>1, <3>5
    <3> QED BY <3>1, <3>2, <3>6 DEF Plus, ValueAt
  <2> HIDE DEF R, z
  <2>4. <<Sums!Fold(parts, 0, S), Sums!Fold(stakes, 0, S), Sums!Fold(z, 0, S)>> \in R
    BY <2>1, <2>2, <2>3, Sums!FoldsRelate
  <2> QED BY <2>4 DEF TotalOf
<1>5. PICK p \in Nat, s \in Nat : p = TotalOf(parts, S) /\ s = TotalOf(stakes, S) BY <1>3
<1>6. all * p <= amount * s /\ s <= all BY <1>4, <1>5
<1>7. amount * s <= amount * all
  <2>1. PICK k \in Nat : all = s + k
    <3>1. all - s \in Nat /\ all = s + (all - s) BY <1>6
    <3> QED BY <3>1
  <2>2. amount * (s + k) = amount * s + amount * k /\ amount * k \in Nat /\ amount * s \in Nat OBVIOUS
  <2> QED BY <2>1, <2>2
<1>8. p <= amount
  <2> SUFFICES ASSUME p > amount PROVE FALSE OBVIOUS
  <2>1. PICK k \in Nat : p = amount + 1 + k
    <3>1. p - amount - 1 \in Nat /\ p = amount + 1 + (p - amount - 1) OBVIOUS
    <3> QED BY <3>1
  <2>2. all * p = all * amount + all + all * k BY <2>1
  <2>3. all * amount \in Nat /\ all * k \in Nat /\ all * amount = amount * all /\ amount * s \in Nat /\ all * p \in Nat OBVIOUS
  <2> QED BY <1>6, <1>7, <2>2, <2>3
<1> QED BY <1>5, <1>8

\* The shares of the votes of a block, and what else they get
FeeSharesOf(votes, total) == [n \in DOMAIN votes |-> Fee!FeeShare(votes, n, total)]
FeeRatesOf(votes) == [n \in DOMAIN votes |-> RewardRate * votes[n].stake]
FeeGainsOf(votes, total) == [n \in DOMAIN votes |-> Fee!FeeShare(votes, n, total) + RewardRate * votes[n].stake]

\* The shares of a fee are natural numbers whose sum is the fee: the last one gets the rest.
LEMMA FeeSharesAddUp ==
  ASSUME Fee!FeeAssumption, NEW votes, NEW k \in Nat, FeeVotesAre(votes, k), NEW total \in Nat
  PROVE  /\ IsFiniteSet(1..k)
         /\ \A n \in 1..k : Fee!FeeShare(votes, n, total) \in Nat
         /\ TotalOf(FeeSharesOf(votes, total), 1..k) = total * RewardShare
<1> DEFINE D == 1..k
           stakes == [i \in D |-> votes[i].stake]
           all == TotalOf(stakes, D)
           parts == [i \in D |-> (total * RewardShare * votes[i].stake) \div all]
           amount == total * RewardShare
           E == D \ {k}
           shares == FeeSharesOf(votes, total)
<1>1. k > 0 /\ DOMAIN votes = D /\ \A i \in D : stakes[i] \in Nat /\ stakes[i] > 0 BY DEF FeeVotesAre
<1>2. IsFiniteSet(D) /\ Cardinality(D) = k /\ k \in D
  <2>1. IsFiniteSet(1..k) /\ Cardinality(1..k) = k BY <1>1, FS_Interval
  <2> QED BY <1>1, <2>1
<1>3. amount \in Nat BY FeeConstants
<1>4. \A i \in D : parts[i] = (amount * stakes[i]) \div all OBVIOUS
<1>5. Fee!Total(stakes, D) = all BY FeeTotalIsSum
<1>6. /\ \A n \in D : n # k => Fee!FeeShare(votes, n, total) = parts[n]
      /\ Fee!FeeShare(votes, k, total) = amount - Fee!Total(parts, D \ {k})
  <2>1. \A n \in D : n # k => n < k BY <1>1
  <2>2. ~(k < k) BY <1>1
  <2>3. Fee!Cardinality(D) = k BY <1>2, FeePlain
  <2> QED BY <1>1, <1>2, <1>5, <2>1, <2>2, <2>3 DEF Fee!FeeShare
<1>7. IsFiniteSet(E) /\ \A i \in E : i \in D /\ stakes[i] \in Nat BY <1>1, <1>2, FS_Subset
<1> HIDE DEF stakes, E
<1>8. all \in Nat /\ all > 0 /\ TotalOf(stakes, E) <= all
  <2>1. all \in Nat BY <1>1, <1>2, TotalIsNat
  <2>2. all >= stakes[k] BY <1>1, <1>2, TotalIsLargest
  <2>3. all = stakes[k] + TotalOf(stakes, E)
    <3>1. \A i \in D : stakes[i] \in Int BY <1>1
    <3> HIDE DEF D
    <3> QED BY <1>2, <3>1, TotalTakesOut DEF E
  <2>4. TotalOf(stakes, E) \in Nat BY <1>7, TotalIsNat
  <2> QED BY <1>1, <1>2, <2>1, <2>2, <2>3, <2>4
<1> HIDE DEF all, parts, amount, D
<1>9. TotalOf(parts, E) \in Nat /\ TotalOf(parts, E) <= amount
  <2>1. \A i \in E : stakes[i] \in Nat /\ parts[i] = (amount * stakes[i]) \div all BY <1>4, <1>7
  <2> QED BY <1>3, <1>7, <1>8, <2>1, FeePartsFit
<1>10. Fee!Total(parts, D \ {k}) = TotalOf(parts, E) BY FeeTotalIsSum DEF E
<1>11. Fee!FeeShare(votes, k, total) \in Nat /\ Fee!FeeShare(votes, k, total) = amount - TotalOf(parts, E)
  BY <1>3, <1>6, <1>9, <1>10
<1>12. \A i \in D : parts[i] \in Nat
  <2> TAKE i \in D
  <2>1. stakes[i] \in Nat BY <1>1
  <2>2. PICK m \in Nat : m = amount * stakes[i]
    <3>1. amount * stakes[i] \in Nat BY <1>3, <2>1
    <3> QED BY <3>1
  <2>3. m \div all \in Nat BY <1>8
  <2> QED BY <1>4, <2>2, <2>3
<1>13. \A n \in D : Fee!FeeShare(votes, n, total) \in Nat BY <1>6, <1>11, <1>12
<1>14. \A n \in D : shares[n] = Fee!FeeShare(votes, n, total) /\ shares[n] \in Int BY <1>1, <1>13 DEF FeeSharesOf
<1> HIDE DEF shares
<1>15. TotalOf(shares, D) = shares[k] + TotalOf(shares, E) BY <1>2, <1>14, TotalTakesOut DEF E
<1>16. TotalOf(parts, E) = TotalOf(shares, E)
  <2>1. \A i \in E : parts[i] \in Int /\ shares[i] = parts[i] BY <1>6, <1>7, <1>12, <1>14 DEF E
  <2> QED BY <1>7, <2>1, TotalsAgree
<1>17. TotalOf(shares, D) = amount
  <2>1. shares[k] = amount - TotalOf(parts, E) BY <1>2, <1>11, <1>14
  <2> QED BY <1>3, <1>9, <1>15, <1>16, <2>1
<1> QED BY <1>2, <1>13, <1>17 DEF D, shares, amount

\* What the votes of a block gain together
LEMMA FeeGainsAddUp ==
  ASSUME Fee!FeeAssumption, NEW votes, NEW k \in Nat, FeeVotesAre(votes, k), NEW total \in Nat
  PROVE  /\ \A n \in 1..k : FeeGainsOf(votes, total)[n] \in Nat
         /\ Fee!RewardsOf(votes) \in Nat
         /\ TotalOf(FeeGainsOf(votes, total), 1..k) = total * RewardShare + Fee!RewardsOf(votes)
<1> DEFINE D == 1..k
           gains == FeeGainsOf(votes, total)
           rates == FeeRatesOf(votes)
           shares == FeeSharesOf(votes, total)
<1>1. DOMAIN votes = D /\ \A i \in D : votes[i].stake \in Nat BY DEF FeeVotesAre
<1>2. IsFiniteSet(D) /\ (\A n \in D : Fee!FeeShare(votes, n, total) \in Nat) /\ TotalOf(shares, D) = total * RewardShare
  BY FeeSharesAddUp
<1>3. \A i \in D : rates[i] \in Nat
  <2> TAKE i \in D
  <2>1. RewardRate \in Nat /\ votes[i].stake \in Nat BY <1>1, FeeConstants
  <2>2. RewardRate * votes[i].stake \in Nat BY <2>1
  <2> QED BY <1>1, <2>2 DEF FeeRatesOf
<1>4. \A i \in D : gains[i] = Fee!FeeShare(votes, i, total) + rates[i] /\ shares[i] = Fee!FeeShare(votes, i, total)
  BY <1>1 DEF FeeGainsOf, FeeRatesOf, FeeSharesOf
<1>5. Fee!RewardsOf(votes) = TotalOf(rates, D) BY <1>1, FeeTotalIsSum DEF Fee!RewardsOf, FeeRatesOf
<1>6. total * RewardShare \in Nat BY FeeConstants
<1> HIDE DEF D, gains, rates, shares
<1>7. \A i \in D : gains[i] \in Nat /\ gains[i] \in Int /\ rates[i] \in Int /\ shares[i] \in Int /\ shares[i] = gains[i] - rates[i]
  BY <1>2, <1>3, <1>4
<1>8. TotalOf(shares, D) = TotalOf(gains, D) - TotalOf(rates, D) BY <1>2, <1>7, TotalOfDifferences
<1>9. TotalOf(gains, D) \in Nat /\ TotalOf(rates, D) \in Nat BY <1>2, <1>3, <1>7, TotalIsNat
<1>10. PICK m \in Nat : m = total * RewardShare BY <1>6
<1>11. TotalOf(gains, D) = m + TotalOf(rates, D) BY <1>2, <1>8, <1>9, <1>10
<1> QED BY <1>5, <1>7, <1>9, <1>10, <1>11 DEF D, gains

-----------------------------------------------------------------------------
\* The fields of a database, whose tokens are those of the payers at first
FeeShape(d) ==
  /\ d = [bal |-> d.bal, sent |-> d.sent, users |-> d.users, unclaimed |-> d.unclaimed, cumulative |-> d.cumulative]
  /\ d.bal \in [Fee!Account -> Nat]
  /\ d.users \in [Billing -> SUBSET User]
  /\ d.unclaimed \in [Validator -> Nat] /\ d.cumulative \in [Validator -> Nat]
  /\ TotalOf(d.bal, Fee!Account) = PayerFunds * Cardinality(Fee!Payer)

\* A step of one transfer
FeePays(d, r, from, to, k) ==
  /\ FeeShape(r)
  /\ Paid(Fee!Account, d.bal, r.bal, from, to, k)
  /\ r.users = d.users /\ r.unclaimed = d.unclaimed /\ r.cumulative = d.cumulative

\* A transfer moves its amount and nothing else.
LEMMA FeeTransferPays ==
  ASSUME Fee!FeeAssumption, NEW d, FeeShape(d), NEW from \in Fee!Account, NEW to \in Fee!Account, NEW k \in Nat, NEW key,
         Fee!Transfer(d, from, to, k, key) # Failed
  PROVE  FeePays(d, Fee!Transfer(d, from, to, k, key), from, to, k)
<1> DEFINE r == Fee!Transfer(d, from, to, k, key)
           b == [d.bal EXCEPT ![from] = @ - k, ![to] = @ + k]
<1>1. Fee!MayTransfer(d, from, to, k, key) /\ r = Fee!Moved(d, from, to, k, key) BY DEF Fee!Transfer
<1>2. from # to /\ k > 0 /\ d.bal[from] >= k BY <1>1 DEF Fee!MayTransfer
<1>3. Paid(Fee!Account, d.bal, b, from, to, k) BY <1>2 DEF Paid, FeeShape
<1>4. r = [d EXCEPT !.bal = b, !.sent = @ \cup {<<from, to, key>>}] BY <1>1, <1>2 DEF Fee!Moved, FeeShape
<1> HIDE DEF b, r
<1>5. /\ TotalOf(d.bal, Fee!Account) \in Int /\ TotalOf(b, Fee!Account) \in Int
      /\ Transferred(d.bal, b, Fee!Account, from, to, k)
  <2>1. IsFiniteSet(Fee!Account) /\ Fee!Account \in SUBSET Fee!Account BY FeeConstants
  <2> QED BY <1>3, <2>1, PaidMoves
<1>6. TotalOf(b, Fee!Account) = PayerFunds * Cardinality(Fee!Payer) BY <1>5 DEF Transferred, Moves, FeeShape
<1>7. r.bal = b /\ r.users = d.users /\ r.unclaimed = d.unclaimed /\ r.cumulative = d.cumulative /\ FeeShape(r)
  BY <1>3, <1>4, <1>6 DEF FeeShape, Paid
<1>8. FeePays(d, r, from, to, k) BY <1>3, <1>7 DEF FeePays
<1> QED BY <1>8 DEF r

\* What an operation of u leaves: the fees, the rewards and the billing accounts' tokens; a
\* billing account whose users it changes does not list u.
FeeOperated(d, r, u) ==
  /\ FeeShape(r)
  /\ r.bal[GasFees] = d.bal[GasFees]
  /\ r.unclaimed = d.unclaimed /\ r.cumulative = d.cumulative
  /\ \A b \in Billing : r.bal[b] >= d.bal[b] /\ (r.users[b] = d.users[b] \/ u \notin r.users[b])

\* An operation may do nothing.
LEMMA FeeNothingIsOperated ==
  ASSUME Fee!FeeAssumption, NEW d, FeeShape(d), NEW u
  PROVE  FeeOperated(d, d, u)
<1>1. \A b \in Billing : d.bal[b] \in Nat BY FeeConstants DEF FeeShape
<1> QED BY <1>1 DEF FeeOperated

\* What an operation may do besides the fee
LEMMA FeeOperateIs ==
  ASSUME Fee!FeeAssumption, FeeShape(feeDb), NEW u \in User, NEW op \in Fee!Op, Fee!Operate(u, op) # Failed
  PROVE  FeeOperated(feeDb, Fee!Operate(u, op), u)
<1> DEFINE r == Fee!Operate(u, op)
<1>1. CASE op \in [type : {"transfer"}, to : Fee!Payer, amount : FeeAmounts]
  <2>1. op.type = "transfer" /\ op.to \in Fee!Payer /\ op.amount \in Nat BY <1>1, FeeConstants
  <2>2. r = Fee!Transfer(feeDb, u, op.to, op.amount, feeTxs) BY <2>1 DEF Fee!Operate
  <2>3. u \in Fee!Account /\ u \notin Billing /\ u # GasFees /\ op.to \in Fee!Account /\ op.to # GasFees /\ GasFees \in Fee!Account
    BY <2>1, FeeConstants
  <2>4. FeePays(feeDb, Fee!Transfer(feeDb, u, op.to, op.amount, feeTxs), u, op.to, op.amount) BY <2>1, <2>2, <2>3, FeeTransferPays
  <2> HIDE DEF r
  <2>5. FeePays(feeDb, r, u, op.to, op.amount) BY <2>2, <2>4
  <2>6. Paid(Fee!Account, feeDb.bal, r.bal, u, op.to, op.amount) /\ FeeShape(r) BY <2>5 DEF FeePays
  <2>7. r.bal[GasFees] = feeDb.bal[GasFees] BY <2>3, <2>6 DEF Paid
  <2>8. ASSUME NEW b \in Billing PROVE r.bal[b] >= feeDb.bal[b]
    <3>1. b \in Fee!Account /\ b # u BY <2>3, FeeConstants
    <3>2. feeDb.bal[b] \in Nat BY <3>1 DEF FeeShape
    <3>3. b # op.to => r.bal[b] = feeDb.bal[b] BY <2>6, <3>1 DEF Paid
    <3>4. b = op.to => r.bal[b] = feeDb.bal[b] + op.amount BY <2>6 DEF Paid
    <3> QED BY <2>1, <3>2, <3>3, <3>4
  <2>9. FeeOperated(feeDb, r, u) BY <2>5, <2>6, <2>7, <2>8 DEF FeeOperated, FeePays
  <2> QED BY <2>9 DEF r
<1>2. CASE op \in [type : {"leave"}, billing : Billing]
  <2>1. op.type = "leave" /\ op.billing \in Billing BY <1>2
  <2> DEFINE m == [feeDb.users EXCEPT ![op.billing] = @ \ {u}]
  <2>2. r = [feeDb EXCEPT !.users = m] BY <2>1 DEF Fee!Operate, FeeShape
  <2>3. /\ m \in [Billing -> SUBSET User]
        /\ \A b \in Billing : m[b] = feeDb.users[b] \/ u \notin m[b]
    BY <2>1 DEF FeeShape
  <2> HIDE DEF m, r
  <2>4. /\ FeeShape(r) /\ r.bal = feeDb.bal /\ r.unclaimed = feeDb.unclaimed /\ r.cumulative = feeDb.cumulative
        /\ r.users = m
    BY <2>2, <2>3 DEF FeeShape
  <2>5. \A b \in Billing : feeDb.bal[b] \in Nat BY FeeConstants DEF FeeShape
  <2>6. FeeOperated(feeDb, r, u) BY <2>3, <2>4, <2>5 DEF FeeOperated
  <2> QED BY <2>6 DEF r
<1> QED BY <1>1, <1>2 DEF Fee!Op

\* A fee is collected from one payer.
FeeTaken(d, r, from, fee) ==
  /\ FeeShape(r)
  /\ r.bal[GasFees] = d.bal[GasFees] + fee
  /\ r.unclaimed = d.unclaimed /\ r.cumulative = d.cumulative /\ r.users = d.users
  /\ \A b \in Billing : b # from => r.bal[b] = d.bal[b]

\* Collecting a fee moves it to the account of gas fees.
LEMMA FeeCollectedIs ==
  ASSUME Fee!FeeAssumption, NEW d, FeeShape(d), NEW from \in Fee!Payer, NEW fee \in Nat, Fee!Collected(d, from, fee) # Failed
  PROVE  FeeTaken(d, Fee!Collected(d, from, fee), from, fee)
<1> DEFINE r == Fee!Collected(d, from, fee)
<1>1. from \in Fee!Account /\ from # GasFees /\ GasFees \in Fee!Account BY FeeConstants
<1>2. CASE fee > 0
  <2> DEFINE t == Fee!Transfer(d, from, GasFees, fee, <<"fee", feeTxs>>)
  <2>1. r = t BY <1>2 DEF Fee!Collected
  <2>2. t # Failed BY <2>1
  <2>3. FeePays(d, t, from, GasFees, fee) BY <1>1, <2>2, FeeTransferPays
  <2> HIDE DEF t, r
  <2>4. FeePays(d, r, from, GasFees, fee) BY <2>1, <2>3
  <2>5. Paid(Fee!Account, d.bal, r.bal, from, GasFees, fee) BY <2>4 DEF FeePays
  <2>6. \A b \in Billing : b # from => r.bal[b] = d.bal[b]
    <3>1. \A b \in Billing : b \in Fee!Account /\ b # GasFees BY FeeConstants
    <3> QED BY <2>5, <3>1 DEF Paid
  <2>7. r.bal[GasFees] = d.bal[GasFees] + fee BY <2>5 DEF Paid
  <2>8. FeeTaken(d, r, from, fee) BY <2>4, <2>6, <2>7 DEF FeeTaken, FeePays
  <2> QED BY <2>8 DEF r
<1>3. CASE fee = 0
  <2>1. r = d BY <1>3 DEF Fee!Collected
  <2> HIDE DEF r
  <2>2. d.bal[GasFees] \in Nat BY <1>1 DEF FeeShape
  <2>3. FeeTaken(d, r, from, fee) BY <1>3, <2>1, <2>2 DEF FeeTaken
  <2> QED BY <2>3 DEF r
<1> QED BY <1>2, <1>3

\* What a transaction that is charged does: it collects no more than it is charged, and
\* takes from billing accounts only for users they still list.
FeeChargedFor(d, r, fee) ==
  /\ FeeShape(r) /\ fee \in Nat
  /\ r.bal[GasFees] <= d.bal[GasFees] + fee
  /\ r.unclaimed = d.unclaimed /\ r.cumulative = d.cumulative
FeeBilled(d, r) == \A b \in Billing : r.bal[b] < d.bal[b] => r.users[b] = d.users[b]

\* A fee is taken from the sender, or from a billing account that lists him after the operation.
LEMMA FeeChargedIs ==
  ASSUME Fee!FeeAssumption, FeeShape(feeDb), NEW u \in User, NEW billing, NEW op \in Fee!Op, NEW gas \in Gas,
         Fee!Charged(u, billing, Fee!Operate(u, op), gas).db # Failed
  PROVE  /\ FeeChargedFor(feeDb, Fee!Charged(u, billing, Fee!Operate(u, op), gas).db, Fee!Charged(u, billing, Fee!Operate(u, op), gas).fee)
         /\ FeeBilled(feeDb, Fee!Charged(u, billing, Fee!Operate(u, op), gas).db)
<1> DEFINE result == Fee!Operate(u, op)
           d == Fee!After(feeDb, result)
           from == Fee!BilledTo(d, u, billing)
           wanted == Fee!CostOf(gas.bandwidth + IF result = Failed THEN 0 ELSE gas.state)
           low == d.bal[from] < wanted
           fee == IF low THEN Fee!FeeOfThePoor(feeDb.bal[from], gas) ELSE wanted
           r == IF low THEN Fee!Collected(feeDb, from, fee) ELSE IF result = Failed THEN feeDb ELSE Fee!Collected(d, from, fee)
           c == Fee!Charged(u, billing, result, gas)
<1>1. c.db = r /\ c.fee = fee /\ r # Failed BY DEF Fee!Charged
<1>2. FeeOperated(feeDb, d, u)
  <2>1. CASE result = Failed
    <3>1. d = feeDb BY <2>1 DEF Fee!After
    <3> HIDE DEF d
    <3> QED BY <3>1, FeeNothingIsOperated
  <2>2. CASE result # Failed
    <3>1. d = result /\ FeeOperated(feeDb, Fee!Operate(u, op), u) BY <2>2, FeeOperateIs DEF Fee!After
    <3> QED BY <3>1
  <2> QED BY <2>1, <2>2
<1>3. FeeShape(d) BY <1>2 DEF FeeOperated
<1>4. result = Failed => d = feeDb BY DEF Fee!After
<1> HIDE DEF d, result
<1>5. from \in Fee!Payer /\ (from \in Billing => u \in d.users[from])
  <2>1. u \in Fee!Payer /\ u \notin Billing /\ \A b \in Billing : b \in Fee!Payer BY FeeConstants
  <2> QED BY <2>1 DEF Fee!BilledTo
<1>6. from \in Fee!Account /\ GasFees \in Fee!Account BY <1>5, FeeConstants
<1>7. wanted \in Nat /\ Fee!CostOf(gas.bandwidth) \in Nat
  <2>1. Price \in Nat /\ gas.bandwidth \in Nat /\ gas.state \in Nat BY FeeConstants
  <2>2. PICK g \in Nat : g = gas.bandwidth + IF result = Failed THEN 0 ELSE gas.state BY <2>1
  <2>3. Price * g \in Nat /\ Price * gas.bandwidth \in Nat BY <2>1, <2>2
  <2> QED BY <2>2, <2>3 DEF Fee!CostOf
<1>8. Fee!FeeOfThePoor(feeDb.bal[from], gas) \in Nat
  <2>1. feeDb.bal[from] \in Nat BY <1>6 DEF FeeShape
  <2>2. PICK m \in Nat : m = Fee!CostOf(feeDb.bal[from])
    <3>1. Price * feeDb.bal[from] \in Nat BY <2>1, FeeConstants
    <3> QED BY <3>1 DEF Fee!CostOf
  <2>3. m \div Coin \in Nat BY <2>2, FeeConstants
  <2>4. PICK x \in Nat : x = Fee!CostOf(feeDb.bal[from]) \div Coin BY <2>2, <2>3
  <2>5. PICK y \in Nat : y = Fee!CostOf(gas.bandwidth) BY <1>7
  <2>6. \E z \in {x, y} : \A w \in {x, y} : z <= w
    <3>1. CASE x <= y BY <3>1
    <3>2. CASE y <= x BY <3>2
    <3> QED BY <3>1, <3>2
  <2>7. Fee!Min({x, y}) \in {x, y} BY <2>6 DEF Fee!Min
  <2>8. Fee!Min({x, y}) \in Nat BY <2>7
  <2> QED BY <2>4, <2>5, <2>8 DEF Fee!FeeOfThePoor
<1>9. fee \in Nat BY <1>7, <1>8
<1>10. feeDb.bal[GasFees] \in Nat BY <1>6 DEF FeeShape
<1> HIDE DEF from, wanted, fee
<1>11. CASE low
  <2>1. r = Fee!Collected(feeDb, from, fee) BY <1>11
  <2>2. Fee!Collected(feeDb, from, fee) # Failed BY <1>1, <2>1
  <2>3. FeeTaken(feeDb, Fee!Collected(feeDb, from, fee), from, fee) BY <1>5, <1>9, <2>2, FeeCollectedIs
  <2> HIDE DEF r
  <2>4. FeeTaken(feeDb, r, from, fee) BY <2>1, <2>3
  <2>5. FeeChargedFor(feeDb, r, fee)
    <3>1. FeeShape(r) /\ r.bal[GasFees] = feeDb.bal[GasFees] + fee /\ r.unclaimed = feeDb.unclaimed /\ r.cumulative = feeDb.cumulative
      BY <2>4 DEF FeeTaken
    <3>2. r.bal[GasFees] <= feeDb.bal[GasFees] + fee BY <1>9, <1>10, <3>1
    <3> QED BY <1>9, <3>1, <3>2 DEF FeeChargedFor
  <2>6. FeeBilled(feeDb, r) BY <2>4 DEF FeeTaken, FeeBilled
  <2> QED BY <1>1, <2>5, <2>6 DEF result
<1>12. CASE ~low /\ result = Failed
  <2>1. r = feeDb BY <1>12
  <2> HIDE DEF r
  <2>2. r.bal[GasFees] <= feeDb.bal[GasFees] + fee BY <1>9, <1>10, <2>1
  <2>3. FeeChargedFor(feeDb, r, fee) BY <1>9, <2>1, <2>2 DEF FeeChargedFor
  <2>4. FeeBilled(feeDb, r) BY <2>1 DEF FeeBilled
  <2> QED BY <1>1, <2>3, <2>4 DEF result
<1>13. CASE ~low /\ result # Failed
  <2>1. r = Fee!Collected(d, from, fee) BY <1>13
  <2>2. Fee!Collected(d, from, fee) # Failed BY <1>1, <2>1
  <2>3. FeeTaken(d, Fee!Collected(d, from, fee), from, fee) BY <1>3, <1>5, <1>9, <2>2, FeeCollectedIs
  <2> HIDE DEF r
  <2>4. FeeTaken(d, r, from, fee) BY <2>1, <2>3
  <2>5. FeeChargedFor(feeDb, r, fee)
    <3>1. FeeShape(r) /\ r.bal[GasFees] = d.bal[GasFees] + fee /\ r.unclaimed = d.unclaimed /\ r.cumulative = d.cumulative
      BY <2>4 DEF FeeTaken
    <3>2. d.bal[GasFees] = feeDb.bal[GasFees] /\ d.unclaimed = feeDb.unclaimed /\ d.cumulative = feeDb.cumulative
      BY <1>2 DEF FeeOperated
    <3>3. r.bal[GasFees] <= feeDb.bal[GasFees] + fee BY <1>9, <1>10, <3>1, <3>2
    <3> QED BY <1>9, <3>1, <3>2, <3>3 DEF FeeChargedFor
  <2>6. FeeBilled(feeDb, r)
    <3> SUFFICES ASSUME NEW b \in Billing, r.bal[b] < feeDb.bal[b] PROVE r.users[b] = feeDb.users[b] BY DEF FeeBilled
    <3>1. d.bal[b] >= feeDb.bal[b] /\ (d.users[b] = feeDb.users[b] \/ u \notin d.users[b]) BY <1>2 DEF FeeOperated
    <3>2. r.users = d.users /\ (b # from => r.bal[b] = d.bal[b]) BY <2>4 DEF FeeTaken
    <3>3. d.bal[b] \in Nat /\ feeDb.bal[b] \in Nat BY <1>3, FeeConstants DEF FeeShape
    <3>4. b = from BY <3>1, <3>2, <3>3
    <3>5. u \in d.users[b] BY <1>5, <3>4
    <3> QED BY <3>1, <3>2, <3>5
  <2> QED BY <1>1, <2>5, <2>6 DEF result
<1> QED BY <1>11, <1>12, <1>13

-----------------------------------------------------------------------------
\* The rewards of a block are given one vote after the other.
FeeItself(c, x) == x
FeeGainOf(c, n) == Fee!FeeShare(c.votes, n, c.cost) + RewardRate * c.votes[n].stake
FeeRewardStep(c, n, d) == Fee!Rewarded(d, c.votes[n].validator, FeeGainOf(c, n))
FeeRewards == INSTANCE FoldTheorems WITH Op <- FeeRewardStep, Value <- FeeItself, Pick <- AnyOf

\* The distribution is a fold over the votes.
LEMMA FeeDistributedIsFold ==
  \A d : Fee!Distributed(d) = FeeRewards!Fold(feeLast, d, DOMAIN feeLast.votes)
BY Zenon DEF Fee!Distributed, Fee!FoldSet, Fee!MapThenFoldSet, FeeRewards!Fold, FeeRewards!FoldOf, FeeRewards!IsFold,
   FeeRewardStep, FeeGainOf, FeeItself, AnyOf

\* One reward
FeeRewardGiven(d, r, v, gain) ==
  /\ FeeShape(r) /\ r.bal = d.bal /\ r.users = d.users
  /\ r.unclaimed[v] = d.unclaimed[v] + gain /\ r.cumulative[v] = d.cumulative[v] + gain
  /\ \A x \in Validator : x # v => r.unclaimed[x] = d.unclaimed[x] /\ r.cumulative[x] = d.cumulative[x]

\* A reward adds to what one validator may claim.
LEMMA FeeRewardedIs ==
  ASSUME NEW d, FeeShape(d), NEW v \in Validator, NEW gain \in Nat
  PROVE  FeeRewardGiven(d, Fee!Rewarded(d, v, gain), v, gain)
<1> DEFINE r == Fee!Rewarded(d, v, gain)
           m == [d.unclaimed EXCEPT ![v] = @ + gain]
           n == [d.cumulative EXCEPT ![v] = @ + gain]
<1>1. r = [d EXCEPT !.unclaimed = m, !.cumulative = n] BY DEF Fee!Rewarded, FeeShape
<1>2. /\ m \in [Validator -> Nat] /\ n \in [Validator -> Nat]
      /\ m[v] = d.unclaimed[v] + gain /\ n[v] = d.cumulative[v] + gain
      /\ \A x \in Validator : x # v => m[x] = d.unclaimed[x] /\ n[x] = d.cumulative[x]
  BY DEF FeeShape
<1> HIDE DEF m, n, r
<1>3. FeeRewardGiven(d, r, v, gain) BY <1>1, <1>2 DEF FeeShape, FeeRewardGiven
<1> QED BY <1>3 DEF r

\* What is cumulative and not unclaimed, of a validator
FeeGrown(d, r, gains, T) ==
  /\ FeeShape(r) /\ r.bal = d.bal /\ r.users = d.users
  /\ Moves(TotalOf(d.cumulative, Validator), TotalOf(r.cumulative, Validator), 0, TotalOf(gains, T))
  /\ \A x \in Validator : r.cumulative[x] - r.unclaimed[x] = d.cumulative[x] - d.unclaimed[x]

\* No vote, no reward
LEMMA FeeGrownByNothing ==
  ASSUME Fee!FeeAssumption, NEW d, FeeShape(d), NEW gains
  PROVE  FeeGrown(d, d, gains, {})
<1>1. TotalOf(gains, {}) = 0 BY TotalOfNone
<1>2. TotalOf(d.cumulative, Validator) \in Int
  <2>1. \A x \in Validator : d.cumulative[x] \in Int BY DEF FeeShape
  <2> QED BY <2>1, FeeConstants, TotalIsInt
<1> QED BY <1>1, <1>2 DEF FeeGrown, Moves

\* One vote more adds its gain.
LEMMA FeeGrownByOne ==
  ASSUME Fee!FeeAssumption, NEW d, FeeShape(d), NEW r, NEW gains, NEW T, IsFiniteSet(T), NEW n \in T,
         \A i \in T : gains[i] \in Nat, FeeGrown(d, r, gains, T \ {n}),
         NEW v \in Validator
  PROVE  FeeGrown(d, Fee!Rewarded(r, v, gains[n]), gains, T)
<1> DEFINE e == Fee!Rewarded(r, v, gains[n])
           U == T \ {n}
           c == TotalOf(d.cumulative, Validator)
           f == TotalOf(r.cumulative, Validator)
           h == TotalOf(e.cumulative, Validator)
<1>1. gains[n] \in Nat /\ FeeShape(r) BY DEF FeeGrown
<1>2. FeeRewardGiven(r, e, v, gains[n]) BY <1>1, FeeRewardedIs
<1>3. IsFiniteSet(U) /\ \A i \in U : gains[i] \in Nat BY FS_Subset
<1> HIDE DEF e
<1>4. FeeShape(e) BY <1>2 DEF FeeRewardGiven
<1>5. /\ \A x \in Validator : /\ d.cumulative[x] \in Nat /\ r.cumulative[x] \in Nat /\ e.cumulative[x] \in Nat
                              /\ d.unclaimed[x] \in Nat /\ r.unclaimed[x] \in Nat /\ e.unclaimed[x] \in Nat
  BY <1>1, <1>4 DEF FeeShape
<1>6. Moves(f, h, r.cumulative[v], e.cumulative[v])
  <2>1. \A x \in Validator : r.cumulative[x] \in Int /\ e.cumulative[x] \in Int BY <1>5
  <2>2. \A x \in Validator \ {v} : e.cumulative[x] = r.cumulative[x] BY <1>2 DEF FeeRewardGiven
  <2>3. IsFiniteSet(Validator) BY FeeConstants
  <2> QED BY <2>1, <2>2, <2>3, TotalShifts
<1>7. c \in Int /\ f \in Int
  <2>1. \A x \in Validator : r.cumulative[x] \in Int /\ d.cumulative[x] \in Int BY <1>5
  <2>2. IsFiniteSet(Validator) BY FeeConstants
  <2> QED BY <2>1, <2>2, TotalIsInt
<1>8. TotalOf(gains, U) \in Nat
  <2> HIDE DEF U
  <2> QED BY <1>3, TotalIsNat
<1>9. TotalOf(gains, T) = gains[n] + TotalOf(gains, U)
  <2>1. \A i \in T : gains[i] \in Int OBVIOUS
  <2> QED BY <2>1, TotalTakesOut
<1>10. Moves(c, f, 0, TotalOf(gains, U)) BY DEF FeeGrown
<1> HIDE DEF c, f, h, U
<1>11. e.cumulative[v] = r.cumulative[v] + gains[n] BY <1>2 DEF FeeRewardGiven
<1>12. Moves(c, h, 0, TotalOf(gains, T))
  <2>1. PICK g \in Nat : g = gains[n] BY <1>1
  <2>2. PICK w \in Nat : w = TotalOf(gains, U) BY <1>8
  <2>3. PICK y \in Nat : y = r.cumulative[v] BY <1>5
  <2>4. f = c + w - 0 BY <1>10, <2>2 DEF Moves
  <2>5. h = f + (y + g) - y BY <1>6, <1>11, <2>1, <2>3 DEF Moves
  <2>6. h = c + (g + w) - 0 BY <1>7, <2>4, <2>5
  <2> QED BY <1>9, <2>1, <2>2, <2>6 DEF Moves
<1>13. \A x \in Validator : e.cumulative[x] - e.unclaimed[x] = d.cumulative[x] - d.unclaimed[x]
  <2> TAKE x \in Validator
  <2>1. r.cumulative[x] - r.unclaimed[x] = d.cumulative[x] - d.unclaimed[x] BY DEF FeeGrown
  <2>2. e.cumulative[x] - e.unclaimed[x] = r.cumulative[x] - r.unclaimed[x]
    <3>1. CASE x = v BY <1>1, <1>2, <1>5, <3>1 DEF FeeRewardGiven
    <3>2. CASE x # v BY <1>2, <3>2 DEF FeeRewardGiven
    <3> QED BY <3>1, <3>2
  <2> QED BY <2>1, <2>2
<1>14. e.bal = d.bal /\ e.users = d.users BY <1>2 DEF FeeRewardGiven, FeeGrown
<1>15. FeeGrown(d, e, gains, T) BY <1>4, <1>12, <1>13, <1>14 DEF FeeGrown, c, h
<1> QED BY <1>15 DEF e

\* The databases that are reached in between
FeeDbs(d) ==
  {[bal |-> d.bal, sent |-> d.sent, users |-> d.users, unclaimed |-> x, cumulative |-> y] :
     x \in [Validator -> Nat], y \in [Validator -> Nat]}

\* Every vote gets its gain (distributeFee and the rewards of consensus).
LEMMA FeeGivesAll ==
  ASSUME Fee!FeeAssumption, NEW k \in Nat, FeeVotesAre(feeLast.votes, k), feeLast.cost \in Nat, FeeShape(feeDb)
  PROVE  FeeGrown(feeDb, Fee!Distributed(feeDb), FeeGainsOf(feeLast.votes, feeLast.cost), 1..k)
<1> DEFINE D == 1..k
           gains == FeeGainsOf(feeLast.votes, feeLast.cost)
           R == {p \in (SUBSET D) \X FeeDbs(feeDb) : FeeGrown(feeDb, p[2], gains, p[1])}
<1>1. IsFiniteSet(D) BY FS_Interval
<1>2. DOMAIN feeLast.votes = D /\ \A n \in D : feeLast.votes[n].validator \in Validator BY DEF FeeVotesAre
<1>3. \A n \in D : gains[n] \in Nat
  <2>1. PICK t \in Nat : t = feeLast.cost OBVIOUS
  <2>2. \A n \in 1..k : FeeGainsOf(feeLast.votes, t)[n] \in Nat BY FeeGainsAddUp
  <2> QED BY <2>1, <2>2
<1>4. \A n \in D : gains[n] = FeeGainOf(feeLast, n) BY <1>2 DEF FeeGainsOf, FeeGainOf
<1>5. \A r : FeeShape(r) /\ r.bal = feeDb.bal /\ r.users = feeDb.users /\ r.sent = feeDb.sent => r \in FeeDbs(feeDb)
  <2> SUFFICES ASSUME NEW r, FeeShape(r), r.bal = feeDb.bal, r.users = feeDb.users, r.sent = feeDb.sent PROVE r \in FeeDbs(feeDb) OBVIOUS
  <2>1. /\ r = [bal |-> feeDb.bal, sent |-> feeDb.sent, users |-> feeDb.users, unclaimed |-> r.unclaimed, cumulative |-> r.cumulative]
        /\ r.unclaimed \in [Validator -> Nat] /\ r.cumulative \in [Validator -> Nat]
    BY DEF FeeShape
  <2> QED BY <2>1 DEF FeeDbs
<1>6. \A r \in FeeDbs(feeDb) : r.sent = feeDb.sent BY DEF FeeDbs
<1>7. FeeRewards!IsFiniteSet(D) BY <1>1, Zenon DEF IsFiniteSet, FeeRewards!IsFiniteSet
<1>8. FeeRewards!Picks(D) BY DEF FeeRewards!Picks, AnyOf
<1> HIDE DEF D, gains
<1>9. <<{}, feeDb>> \in R
  <2>1. FeeGrown(feeDb, feeDb, gains, {}) BY FeeGrownByNothing
  <2>2. feeDb \in FeeDbs(feeDb) BY <1>5
  <2> QED BY <2>1, <2>2
<1>10. ASSUME NEW T \in SUBSET D, NEW r, T # {}, <<T \ {AnyOf(T)}, r>> \in R
       PROVE  <<T, FeeRewardStep(feeLast, FeeItself(feeLast, AnyOf(T)), r)>> \in R
  <2> DEFINE n == AnyOf(T)
             v == feeLast.votes[n].validator
             e == Fee!Rewarded(r, v, gains[n])
  <2>1. n \in T /\ n \in D BY <1>10 DEF AnyOf
  <2>2. FeeGrown(feeDb, r, gains, T \ {n}) /\ r.sent = feeDb.sent BY <1>6, <1>10
  <2>3. v \in Validator BY <1>2, <2>1
  <2>4. FeeRewardStep(feeLast, FeeItself(feeLast, n), r) = e BY <1>4, <2>1 DEF FeeRewardStep, FeeItself
  <2>5. IsFiniteSet(T) /\ \A i \in T : gains[i] \in Nat BY <1>1, <1>3, FS_Subset
  <2> HIDE DEF n, v
  <2>6. FeeGrown(feeDb, e, gains, T) BY <2>1, <2>2, <2>3, <2>5, FeeGrownByOne
  <2>7. e.sent = feeDb.sent
    <3>1. FeeShape(r) BY <2>2 DEF FeeGrown
    <3> QED BY <2>2, <3>1 DEF Fee!Rewarded, FeeShape
  <2> HIDE DEF e
  <2>8. FeeShape(e) /\ e.bal = feeDb.bal /\ e.users = feeDb.users BY <2>6 DEF FeeGrown
  <2>9. e \in FeeDbs(feeDb) BY <1>5, <2>7, <2>8
  <2>10. <<T, e>> \in R BY <2>6, <2>9
  <2> QED BY <2>4, <2>10 DEF n
<1> HIDE DEF R
<1>11. <<D, FeeRewards!Fold(feeLast, feeDb, D)>> \in R BY <1>7, <1>8, <1>9, <1>10, FeeRewards!FoldInduction
<1>12. FeeGrown(feeDb, FeeRewards!Fold(feeLast, feeDb, D), gains, D) BY <1>11 DEF R
<1> QED BY <1>2, <1>12, FeeDistributedIsFold DEF D, gains

\* No votes give nothing.
LEMMA FeeGivesNothing ==
  ASSUME Fee!FeeAssumption, feeLast.votes = <<>>, FeeShape(feeDb)
  PROVE  Fee!Distributed(feeDb) = feeDb /\ Fee!RewardsOf(feeLast.votes) = 0
<1>1. DOMAIN feeLast.votes = {} OBVIOUS
<1>2. Fee!Distributed(feeDb) = feeDb BY <1>1, FeeDistributedIsFold, FeeRewards!FoldEmpty
<1>3. Fee!RewardsOf(feeLast.votes) = 0 BY <1>1, FeeTotalIsSum, TotalOfNone DEF Fee!RewardsOf
<1> QED BY <1>2, <1>3

-----------------------------------------------------------------------------
\* What the history of the fees says of a database
FeeKept(d, p, c) ==
  /\ FeeShape(d)
  /\ p = [charged |-> p.charged, distributed |-> p.distributed, rewards |-> p.rewards, claimed |-> p.claimed]
  /\ p.charged \in Nat /\ p.distributed \in Nat /\ p.rewards \in Nat /\ c \in Nat
  /\ p.claimed \in [Validator -> Nat]
  /\ d.bal[GasFees] + TotalOf(p.claimed, Validator) <= p.charged + c
  /\ TotalOf(d.cumulative, Validator) = RewardShare * p.distributed + p.rewards
  /\ \A v \in Validator : d.cumulative[v] = d.unclaimed[v] + RewardShare * p.claimed[v]

\* The finished block has votes, or is the one before the first.
FeeLastIs(l) ==
  /\ l.cost \in Nat
  /\ l.votes \in Votes \/ (l.votes = <<>> /\ l.cost = 0)

\* The inductive invariant
FeeIInv == FeeKept(feeDb, feePaid, feeCost) /\ FeeLastIs(feeLast)

\* Sums of natural numbers
LEMMA FeeClaimedIsNat ==
  ASSUME Fee!FeeAssumption, NEW d, NEW p, NEW c, FeeKept(d, p, c)
  PROVE  TotalOf(p.claimed, Validator) \in Nat /\ d.bal[GasFees] \in Nat
<1>1. IsFiniteSet(Validator) /\ GasFees \in Fee!Account BY FeeConstants
<1>2. \A v \in Validator : p.claimed[v] \in Nat BY DEF FeeKept
<1>3. TotalOf(p.claimed, Validator) \in Nat BY <1>1, <1>2, TotalIsNat
<1> QED BY <1>1, <1>3 DEF FeeKept, FeeShape

\* A transaction keeps the invariant.
LEMMA FeeExecuteTxKeeps ==
  ASSUME Fee!FeeAssumption, FeeIInv,
         NEW u \in User, NEW billing, NEW op \in Fee!Op, NEW gas \in Gas, Fee!ExecuteTx(u, billing, op, gas)
  PROVE  FeeIInv' /\ FeeBilled(feeDb, feeDb')
<1> DEFINE c == Fee!Charged(u, billing, Fee!Operate(u, op), gas)
<1>1. c.db # Failed /\ feeDb' = c.db /\ feeCost' = feeCost + c.fee /\ feeLast' = feeLast /\ feePaid' = feePaid BY DEF Fee!ExecuteTx
<1>2. FeeShape(feeDb) /\ FeeKept(feeDb, feePaid, feeCost) /\ feeCost \in Nat BY DEF FeeIInv, FeeKept
<1>3. FeeChargedFor(feeDb, c.db, c.fee) /\ FeeBilled(feeDb, c.db) BY <1>1, <1>2, FeeChargedIs
<1>4. TotalOf(feePaid.claimed, Validator) \in Nat /\ feeDb.bal[GasFees] \in Nat BY <1>2, FeeClaimedIsNat
<1> HIDE DEF c
<1>5. FeeShape(c.db) /\ c.fee \in Nat /\ c.db.bal[GasFees] <= feeDb.bal[GasFees] + c.fee
      /\ c.db.unclaimed = feeDb.unclaimed /\ c.db.cumulative = feeDb.cumulative
  BY <1>3 DEF FeeChargedFor
<1>6. c.db.bal[GasFees] \in Nat BY <1>5, FeeConstants DEF FeeShape
<1>7. c.db.bal[GasFees] + TotalOf(feePaid.claimed, Validator) <= feePaid.charged + (feeCost + c.fee)
  <2>1. feePaid.charged \in Nat /\ feeDb.bal[GasFees] + TotalOf(feePaid.claimed, Validator) <= feePaid.charged + feeCost
    BY <1>2 DEF FeeKept
  <2> QED BY <1>2, <1>4, <1>5, <1>6, <2>1
<1>8. FeeKept(c.db, feePaid, feeCost + c.fee) BY <1>2, <1>5, <1>7 DEF FeeKept
<1> QED BY <1>1, <1>3, <1>8 DEF FeeIInv

\* A block keeps the invariant: its rewards are those of the block before.
LEMMA FeeNextBlockKeeps ==
  ASSUME Fee!FeeAssumption, FeeIInv, NEW votes \in Votes, Fee!NextBlock(votes)
  PROVE  FeeIInv' /\ FeeBilled(feeDb, feeDb')
<1> DEFINE r == Fee!Distributed(feeDb)
           more == Fee!RewardsOf(feeLast.votes)
           p == [feePaid EXCEPT !.charged = @ + feeCost, !.distributed = @ + feeLast.cost, !.rewards = @ + more]
           was == TotalOf(feeDb.cumulative, Validator)
           is == TotalOf(r.cumulative, Validator)
<1>1. feeDb' = r /\ feeLast' = [cost |-> feeCost, votes |-> votes] /\ feePaid' = p /\ feeCost' = 0 BY DEF Fee!NextBlock
<1>2. FeeShape(feeDb) /\ FeeKept(feeDb, feePaid, feeCost) /\ feeCost \in Nat /\ feeLast.cost \in Nat BY DEF FeeIInv, FeeKept, FeeLastIs
<1>3. RewardShare \in Nat BY FeeConstants
<1>4. /\ FeeShape(r) /\ r.bal = feeDb.bal /\ r.users = feeDb.users /\ more \in Nat
      /\ is = was + (feeLast.cost * RewardShare + more)
      /\ \A x \in Validator : r.cumulative[x] - r.unclaimed[x] = feeDb.cumulative[x] - feeDb.unclaimed[x]
  <2>1. CASE feeLast.votes \in Votes
    <3>1. PICK k \in Nat : FeeVotesAre(feeLast.votes, k) BY <2>1, FeeVotesHave
    <3>2. FeeGrown(feeDb, r, FeeGainsOf(feeLast.votes, feeLast.cost), 1..k) BY <1>2, <3>1, FeeGivesAll
    <3>3. more \in Nat /\ TotalOf(FeeGainsOf(feeLast.votes, feeLast.cost), 1..k) = feeLast.cost * RewardShare + more
      <4>1. PICK t \in Nat : t = feeLast.cost BY <1>2
      <4>2. Fee!RewardsOf(feeLast.votes) \in Nat /\ TotalOf(FeeGainsOf(feeLast.votes, t), 1..k) = t * RewardShare + Fee!RewardsOf(feeLast.votes)
        BY <3>1, FeeGainsAddUp
      <4> QED BY <4>1, <4>2
    <3>4. was \in Int
      <4>1. \A x \in Validator : feeDb.cumulative[x] \in Int BY <1>2 DEF FeeShape
      <4> QED BY <4>1, FeeConstants, TotalIsInt
    <3> HIDE DEF r, more, was, is
    <3>5. Moves(was, is, 0, feeLast.cost * RewardShare + more) BY <3>2, <3>3 DEF FeeGrown, was, is
    <3>6. PICK t \in Nat : t = feeLast.cost * RewardShare
      <4>1. feeLast.cost * RewardShare \in Nat BY <1>2, <1>3
      <4> QED BY <4>1
    <3>7. is = was + (t + more) BY <3>3, <3>4, <3>5, <3>6 DEF Moves
    <3> QED BY <3>2, <3>3, <3>6, <3>7 DEF FeeGrown
  <2>2. CASE feeLast.votes = <<>> /\ feeLast.cost = 0
    <3>1. r = feeDb /\ more = 0 BY <1>2, <2>2, FeeGivesNothing
    <3>2. was \in Int
      <4>1. \A x \in Validator : feeDb.cumulative[x] \in Int BY <1>2 DEF FeeShape
      <4> QED BY <4>1, FeeConstants, TotalIsInt
    <3>3. is = was BY <3>1
    <3> HIDE DEF r, more, was, is
    <3>4. feeLast.cost * RewardShare = 0 BY <1>3, <2>2
    <3> QED BY <1>2, <3>1, <3>2, <3>3, <3>4
  <2> QED BY <2>1, <2>2 DEF FeeIInv, FeeLastIs
<1> HIDE DEF r, more
<1>5. /\ p = [charged |-> p.charged, distributed |-> p.distributed, rewards |-> p.rewards, claimed |-> p.claimed]
      /\ p.charged = feePaid.charged + feeCost /\ p.distributed = feePaid.distributed + feeLast.cost /\ p.rewards = feePaid.rewards + more
      /\ p.claimed = feePaid.claimed
  <2>1. feePaid = [charged |-> feePaid.charged, distributed |-> feePaid.distributed, rewards |-> feePaid.rewards, claimed |-> feePaid.claimed]
    BY <1>2 DEF FeeKept
  <2> DEFINE a == feePaid.charged + feeCost
             b == feePaid.distributed + feeLast.cost
             c == feePaid.rewards + more
  <2>2. p = [charged |-> a, distributed |-> b, rewards |-> c, claimed |-> feePaid.claimed]
    <3>1. p = [feePaid EXCEPT !.charged = a, !.distributed = b, !.rewards = c] OBVIOUS
    <3> HIDE DEF a, b, c, p
    <3> QED BY <2>1, <3>1
  <2> HIDE DEF a, b, c, p
  <2>3. /\ p = [charged |-> p.charged, distributed |-> p.distributed, rewards |-> p.rewards, claimed |-> p.claimed]
        /\ p.charged = a /\ p.distributed = b /\ p.rewards = c /\ p.claimed = feePaid.claimed
    BY <2>2
  <2> QED BY <2>3 DEF a, b, c
<1> HIDE DEF p
<1>6. is = RewardShare * p.distributed + p.rewards
  <2>1. feePaid.distributed \in Nat /\ feePaid.rewards \in Nat /\ was = RewardShare * feePaid.distributed + feePaid.rewards
    BY <1>2 DEF FeeKept
  <2>2. PICK x \in Nat, y \in Nat : x = feePaid.distributed /\ y = feeLast.cost BY <1>2, <2>1
  <2>3. RewardShare * (x + y) = RewardShare * x + y * RewardShare /\ RewardShare * x \in Nat /\ y * RewardShare \in Nat BY <1>3
  <2> HIDE DEF was, is
  <2> QED BY <1>4, <1>5, <2>1, <2>2, <2>3
<1>7. \A v \in Validator : r.cumulative[v] = r.unclaimed[v] + RewardShare * p.claimed[v]
  <2> TAKE v \in Validator
  <2>1. feeDb.cumulative[v] = feeDb.unclaimed[v] + RewardShare * feePaid.claimed[v] /\ feePaid.claimed[v] \in Nat BY <1>2 DEF FeeKept
  <2>2. feeDb.cumulative[v] \in Nat /\ feeDb.unclaimed[v] \in Nat /\ r.cumulative[v] \in Nat /\ r.unclaimed[v] \in Nat
    BY <1>2, <1>4 DEF FeeShape
  <2>3. r.cumulative[v] - r.unclaimed[v] = feeDb.cumulative[v] - feeDb.unclaimed[v] BY <1>4
  <2>4. PICK z \in Nat : z = RewardShare * feePaid.claimed[v]
    <3>1. RewardShare * feePaid.claimed[v] \in Nat BY <1>3, <2>1
    <3> QED BY <3>1
  <2>5. r.cumulative[v] = r.unclaimed[v] + z BY <2>1, <2>2, <2>3, <2>4
  <2> QED BY <1>5, <2>4, <2>5
<1>8. FeeKept(r, p, 0)
  <2>1. feePaid.charged \in Nat /\ feePaid.distributed \in Nat /\ feePaid.rewards \in Nat /\ feePaid.claimed \in [Validator -> Nat]
    BY <1>2 DEF FeeKept
  <2>2. feeDb.bal[GasFees] + TotalOf(feePaid.claimed, Validator) <= feePaid.charged + feeCost BY <1>2 DEF FeeKept
  <2>3. p.charged \in Nat /\ p.distributed \in Nat /\ p.rewards \in Nat /\ p.charged + 0 = feePaid.charged + feeCost
    BY <1>2, <1>4, <1>5, <2>1
  <2> QED BY <1>4, <1>5, <1>6, <1>7, <2>1, <2>2, <2>3 DEF FeeKept, is
<1>9. FeeLastIs([cost |-> feeCost, votes |-> votes]) BY <1>2 DEF FeeLastIs
<1>10. FeeBilled(feeDb, r) BY <1>4 DEF FeeBilled
<1> QED BY <1>1, <1>8, <1>9, <1>10 DEF FeeIInv

\* _claimReward keeps the invariant: what is claimed was distributed.
LEMMA FeeClaimRewardKeeps ==
  ASSUME Fee!FeeAssumption, FeeIInv, NEW v \in Validator, NEW amount \in FeeAmounts, Fee!ClaimReward(v, amount)
  PROVE  FeeIInv' /\ FeeBilled(feeDb, feeDb')
<1> DEFINE t == Fee!Transfer(feeDb, GasFees, v, amount, <<"claim", feeTxs>>)
           r == Fee!Taken(t, v, amount)
           m == [feePaid.claimed EXCEPT ![v] = @ + amount]
           p == [feePaid EXCEPT !.claimed = m]
           was == TotalOf(feePaid.claimed, Validator)
           is == TotalOf(m, Validator)
<1>1. amount * RewardShare <= feeDb.unclaimed[v] /\ t # Failed /\ feeDb' = r /\ feePaid' = [feePaid EXCEPT !.claimed[v] = @ + amount]
      /\ feeCost' = feeCost /\ feeLast' = feeLast
  BY DEF Fee!ClaimReward
<1>2. FeeKept(feeDb, feePaid, feeCost) /\ FeeShape(feeDb) /\ feeCost \in Nat BY DEF FeeIInv, FeeKept
<1>3. amount \in Nat /\ RewardShare \in Nat /\ v \in Fee!Account /\ v # GasFees /\ GasFees \in Fee!Account /\ IsFiniteSet(Validator)
  BY FeeConstants
<1>4. FeePays(feeDb, t, GasFees, v, amount) BY <1>1, <1>2, <1>3, FeeTransferPays
<1> HIDE DEF t
<1>5. /\ FeeShape(t) /\ Paid(Fee!Account, feeDb.bal, t.bal, GasFees, v, amount)
      /\ t.users = feeDb.users /\ t.unclaimed = feeDb.unclaimed /\ t.cumulative = feeDb.cumulative
  BY <1>4 DEF FeePays
<1> DEFINE n == [t.unclaimed EXCEPT ![v] = @ - amount * RewardShare]
<1>6. PICK k \in Nat : k = amount * RewardShare
  <2>1. amount * RewardShare \in Nat BY <1>3
  <2> QED BY <2>1
<1>7. /\ n \in [Validator -> Nat] /\ n[v] = feeDb.unclaimed[v] - k
      /\ \A x \in Validator : x # v => n[x] = feeDb.unclaimed[x]
  <2>1. t.unclaimed \in [Validator -> Nat] /\ k <= t.unclaimed[v] BY <1>1, <1>5, <1>6 DEF FeeShape
  <2>2. t.unclaimed[v] - k \in Nat BY <1>6, <2>1
  <2> QED BY <1>5, <1>6, <2>1, <2>2
<1>8. r = [t EXCEPT !.unclaimed = n] BY <1>5 DEF Fee!Taken, FeeShape
<1> HIDE DEF n, r
<1>9. FeeShape(r) /\ r.bal = t.bal /\ r.users = feeDb.users /\ r.unclaimed = n /\ r.cumulative = feeDb.cumulative
  BY <1>5, <1>7, <1>8 DEF FeeShape
<1>10. /\ m \in [Validator -> Nat] /\ m[v] = feePaid.claimed[v] + amount
       /\ \A x \in Validator : x # v => m[x] = feePaid.claimed[x]
       /\ feePaid.claimed \in [Validator -> Nat]
  BY <1>2, <1>3 DEF FeeKept
<1>11. feePaid' = p BY <1>1, <1>2 DEF FeeKept
<1> HIDE DEF m
<1>12. /\ p = [charged |-> p.charged, distributed |-> p.distributed, rewards |-> p.rewards, claimed |-> p.claimed]
       /\ p.charged = feePaid.charged /\ p.distributed = feePaid.distributed /\ p.rewards = feePaid.rewards /\ p.claimed = m
  BY <1>2 DEF FeeKept
<1> HIDE DEF p
<1>13. is = was + amount /\ was \in Nat
  <2>1. \A x \in Validator : feePaid.claimed[x] \in Int /\ m[x] \in Int BY <1>10
  <2>2. \A x \in Validator \ {v} : m[x] = feePaid.claimed[x] BY <1>10
  <2>3. Moves(was, is, feePaid.claimed[v], m[v]) BY <1>3, <2>1, <2>2, TotalShifts
  <2>4. was \in Nat BY <1>2, FeeClaimedIsNat
  <2>5. feePaid.claimed[v] \in Nat BY <1>10
  <2> HIDE DEF was, is
  <2> QED BY <1>3, <1>10, <2>3, <2>4, <2>5 DEF Moves
<1>14. r.bal[GasFees] + is <= feePaid.charged + feeCost
  <2>1. t.bal[GasFees] = feeDb.bal[GasFees] - amount BY <1>5 DEF Paid
  <2>2. feeDb.bal[GasFees] \in Nat BY <1>2, <1>3 DEF FeeShape
  <2>3. feeDb.bal[GasFees] + was <= feePaid.charged + feeCost /\ feePaid.charged \in Nat BY <1>2 DEF FeeKept
  <2> HIDE DEF was, is
  <2> QED BY <1>2, <1>3, <1>9, <1>13, <2>1, <2>2, <2>3
<1>15. \A x \in Validator : r.cumulative[x] = r.unclaimed[x] + RewardShare * m[x]
  <2> TAKE x \in Validator
  <2>1. feeDb.cumulative[x] = feeDb.unclaimed[x] + RewardShare * feePaid.claimed[x] /\ feePaid.claimed[x] \in Nat BY <1>2 DEF FeeKept
  <2>2. CASE x # v BY <1>7, <1>9, <1>10, <2>1, <2>2
  <2>3. CASE x = v
    <3>1. PICK c \in Nat, d \in Nat : c = feePaid.claimed[v] /\ d = feeDb.unclaimed[v] BY <1>2, <2>1, <2>3 DEF FeeShape
    <3>2. RewardShare * (c + amount) = RewardShare * c + amount * RewardShare /\ RewardShare * c \in Nat BY <1>3
    <3> QED BY <1>6, <1>7, <1>9, <1>10, <2>1, <2>3, <3>1, <3>2
  <2> QED BY <2>2, <2>3
<1>16. FeeKept(r, p, feeCost) BY <1>2, <1>9, <1>10, <1>12, <1>14, <1>15 DEF FeeKept
<1>17. FeeBilled(feeDb, r) BY <1>9 DEF FeeBilled
<1> QED BY <1>1, <1>11, <1>16, <1>17 DEF FeeIInv

\* Every step keeps the invariant, and bills those who are listed.
LEMMA FeeStepHolds ==
  ASSUME Fee!FeeAssumption, FeeIInv, [Fee!Next]_Fee!vars
  PROVE  FeeIInv' /\ FeeBilled(feeDb, feeDb')
<1>1. ASSUME NEW u \in User, NEW b \in Billing \cup {GasFees}, NEW op \in Fee!Op, NEW gas \in Gas, Fee!ExecuteTx(u, b, op, gas)
      PROVE  FeeIInv' /\ FeeBilled(feeDb, feeDb')
  BY <1>1, FeeExecuteTxKeeps
<1>2. ASSUME NEW votes \in Votes, Fee!NextBlock(votes) PROVE FeeIInv' /\ FeeBilled(feeDb, feeDb') BY <1>2, FeeNextBlockKeeps
<1>3. ASSUME NEW v \in Validator, NEW amount \in FeeAmounts, Fee!ClaimReward(v, amount) PROVE FeeIInv' /\ FeeBilled(feeDb, feeDb')
  BY <1>3, FeeClaimRewardKeeps
<1>4. ASSUME UNCHANGED Fee!vars PROVE FeeIInv' /\ FeeBilled(feeDb, feeDb')
  <2>1. feeDb' = feeDb /\ feeCost' = feeCost /\ feeLast' = feeLast /\ feePaid' = feePaid BY <1>4 DEF Fee!vars
  <2>2. FeeIInv' BY <2>1 DEF FeeIInv
  <2>3. FeeBilled(feeDb, feeDb') BY <2>1 DEF FeeBilled
  <2> QED BY <2>2, <2>3
<1> QED BY <1>1, <1>2, <1>3, <1>4 DEF Fee!Next

\* Nothing is collected at first.
LEMMA FeeInitHolds ==
  ASSUME Fee!FeeAssumption, Fee!Init
  PROVE  FeeIInv
<1> DEFINE b == [a \in Fee!Account |-> IF a \in Fee!Payer THEN PayerFunds ELSE 0]
           z == [v \in Validator |-> 0]
           l == [y \in Billing |-> User]
<1>1. /\ feeDb = [bal |-> b, sent |-> {}, users |-> l, unclaimed |-> z, cumulative |-> z]
      /\ feeCost = 0 /\ feeLast = [cost |-> 0, votes |-> <<>>]
      /\ feePaid = [charged |-> 0, distributed |-> 0, rewards |-> 0, claimed |-> z]
  BY DEF Fee!Init
<1>2. /\ PayerFunds \in Nat /\ IsFiniteSet(Fee!Account) /\ IsFiniteSet(Fee!Payer) /\ Fee!Payer \in SUBSET Fee!Account
      /\ IsFiniteSet(Validator) /\ GasFees \in Fee!Account /\ GasFees \notin Fee!Payer /\ RewardShare \in Nat
  BY FeeConstants
<1>3. /\ b \in [Fee!Account -> Nat] /\ (\A x \in Fee!Payer : b[x] = PayerFunds) /\ b[GasFees] = 0
      /\ \A x \in Fee!Account \ Fee!Payer : b[x] = 0
      /\ \A x \in Fee!Account : b[x] \in Int
  BY <1>2
<1>4. z \in [Validator -> Nat] /\ (\A v \in Validator : z[v] = 0) /\ l \in [Billing -> SUBSET User] OBVIOUS
<1> HIDE DEF b, z, l
<1>5. TotalOf(b, Fee!Account) = TotalOf(b, Fee!Payer) BY <1>2, <1>3, TotalOfPart
<1>6. TotalOf(b, Fee!Payer) = PayerFunds * Cardinality(Fee!Payer)
  <2>1. PayerFunds \in Int BY <1>2
  <2> QED BY <1>2, <1>3, <2>1, TotalOfConstant
<1>7. TotalOf(z, Validator) = 0 BY <1>2, <1>4, TotalOfZeros
<1>8. FeeShape(feeDb) BY <1>1, <1>3, <1>4, <1>5, <1>6 DEF FeeShape
<1>9. RewardShare * 0 = 0 BY <1>2
<1>10. \A v \in Validator : feeDb.cumulative[v] = feeDb.unclaimed[v] + RewardShare * feePaid.claimed[v] BY <1>1, <1>4, <1>9
<1>11. FeeKept(feeDb, feePaid, feeCost) BY <1>1, <1>3, <1>4, <1>7, <1>8, <1>9, <1>10 DEF FeeKept
<1> QED BY <1>1, <1>11 DEF FeeIInv, FeeLastIs

\* The invariant gives what the runs check.
LEMMA FeeInvariantSays ==
  ASSUME Fee!FeeAssumption, FeeIInv
  PROVE  Fee!TypeOK /\ Fee!RewardsAddUp /\ Fee!NeverTooMuch
<1>1. FeeKept(feeDb, feePaid, feeCost) BY DEF FeeIInv
<1>2. Fee!TypeOK
  <2>1. FeeShape(feeDb) BY <1>1 DEF FeeKept
  <2>2. Fee!Total(feeDb.bal, Fee!Account) = PayerFunds * Fee!Cardinality(Fee!Payer) BY <2>1, FeeTotalIsSum, FeePlain DEF FeeShape
  <2> QED BY <2>1, <2>2 DEF Fee!TypeOK, FeeShape
<1>3. Fee!RewardsAddUp
  <2>1. Fee!Total(feeDb.cumulative, Validator) = TotalOf(feeDb.cumulative, Validator) BY FeeTotalIsSum
  <2> QED BY <1>1, <2>1 DEF Fee!RewardsAddUp, FeeKept
<1>4. Fee!NeverTooMuch
  <2>1. Fee!Total(feePaid.claimed, Validator) = TotalOf(feePaid.claimed, Validator) BY FeeTotalIsSum
  <2> QED BY <1>1, <2>1 DEF Fee!NeverTooMuch, Fee!CollectedFees, Fee!Claimed, FeeKept
<1> QED BY <1>2, <1>3, <1>4

-----------------------------------------------------------------------------
(* Budgets: what a transaction of one operation may make of the state, on  *)
(* a node that computes hashes.  Transactions of a list of operations fail *)
(* by their operations only, whatever the budgets, and without hashes a    *)
(* cache is never renewed.                                                 *)

\* The instance has its own name for it.
LEMMA BudPlain == \A S : Budget!IsFiniteSet(S) <=> IsFiniteSet(S)
BY Zenon DEF IsFiniteSet, Budget!IsFiniteSet

\* The sums of the module are the sums of the kit.
LEMMA BudSumIsSum == \A f, S : Budget!SumOf(f, S) = TotalOf(f, S)
BY Zenon DEF Budget!SumOf, TotalOf, Budget!MapThenSumSet, Budget!MapThenFoldSet, Sums!Fold, Sums!FoldOf, Sums!IsFold, Plus, ValueAt, AnyOf

\* The fold over a list of operations
BudDoneLast(c, x, y) == Budget!Executed(y, x)
BudLatest(S) == Budget!Max(S)
BudRuns == INSTANCE FoldTheorems WITH Op <- BudDoneLast, Value <- ValueAt, Pick <- BudLatest

\* A list of operations is a fold over its positions.
LEMMA BudRunIsFold == \A d, ops : Budget!ExecutedAll(d, ops) = BudRuns!Fold(ops, d, DOMAIN ops)
BY Zenon DEF Budget!ExecutedAll, Budget!FoldLeft, Budget!MapThenFoldSet, BudRuns!Fold, BudRuns!FoldOf, BudRuns!IsFold, BudDoneLast, ValueAt, BudLatest

\* A list of one operation executes it.
LEMMA BudRunsOne ==
  ASSUME NEW d, NEW ops, DOMAIN ops = {1}
  PROVE  Budget!ExecutedAll(d, ops) = Budget!Executed(d, ops[1])
<1>1. IsFiniteSet({1}) BY FS_Singleton
<1>2. BudRuns!IsFiniteSet({1}) BY <1>1, Zenon DEF IsFiniteSet, BudRuns!IsFiniteSet
<1>3. BudLatest({1}) = 1 BY DEF BudLatest, Budget!Max
<1>4. BudRuns!Picks({1}) BY <1>3 DEF BudRuns!Picks
<1> DEFINE S == {1}
<1>5. S # {} /\ S \ {1} = {} OBVIOUS
<1> HIDE DEF S
<1>6. BudRuns!Fold(ops, d, S) = BudDoneLast(ops, ValueAt(ops, BudLatest(S)), BudRuns!Fold(ops, d, S \ {BudLatest(S)}))
  BY <1>2, <1>4, <1>5, BudRuns!FoldStep DEF S
<1>7. BudRuns!Fold(ops, d, {}) = d BY BudRuns!FoldEmpty
<1>8. BudRuns!Fold(ops, d, S) = Budget!Executed(d, ops[1]) BY <1>3, <1>5, <1>6, <1>7 DEF BudDoneLast, ValueAt, S
<1> QED BY <1>8, BudRunIsFold DEF S

-----------------------------------------------------------------------------
\* The databases
BudDb == [apps : [App -> Nat], service : Nat, stake : [App -> Nat], nonce : [User -> 0..MaxNonce]]

\* A cache is empty or that of some usage and some stakes.
BudEmpty == [usageHash |-> None, usage |-> None, stakeHash |-> None, staked |-> None, free |-> None]
BudCacheOf(apps, stake) ==
  LET staked == {a \in App : stake[a] > 0}
  IN  [usageHash |-> apps, usage |-> apps, stakeHash |-> stake, staked |-> staked,
       free |-> Budget!SumOf(apps, App \ staked)]
BudConsistent(c) == c = BudEmpty \/ \E apps, stake \in [App -> Nat] : c = BudCacheOf(apps, stake)

BudFits(d) == Budget!FitsTree(d) /\ Budget!FitsAsAWhole(d)

BudIInv == budgetDb \in BudDb /\ BudConsistent(budgetCache) /\ BudFits(budgetDb)

\* A cache that is renewed is that of the database.
LEMMA BudRenewedIs ==
  ASSUME Budget!BudgetAssumption, NEW c, BudConsistent(c), NEW d \in BudDb
  PROVE  Budget!Renewed(c, d) = BudCacheOf(d.apps, d.stake)
<1>1. d.apps \in [App -> Nat] /\ d.stake \in [App -> Nat] BY DEF BudDb
<1>2. Budget!Hash(d.apps) = d.apps /\ Budget!Hash(d.stake) = d.stake BY DEF Budget!Hash
<1>3. CASE c = BudEmpty
  <2>1. c.usageHash = None /\ c.stakeHash = None BY <1>3 DEF BudEmpty
  <2>2. d.apps # None /\ d.stake # None BY <1>1 DEF Budget!BudgetAssumption
  <2> QED BY <1>2, <2>1, <2>2 DEF Budget!Renewed, BudCacheOf
<1>4. ASSUME NEW apps \in [App -> Nat], NEW stake \in [App -> Nat], c = BudCacheOf(apps, stake)
      PROVE  Budget!Renewed(c, d) = BudCacheOf(d.apps, d.stake)
  <2> DEFINE staked == {a \in App : stake[a] > 0}
  <2>1. /\ c.usageHash = apps /\ c.usage = apps /\ c.stakeHash = stake /\ c.staked = staked
        /\ c.free = Budget!SumOf(apps, App \ staked)
    BY <1>4 DEF BudCacheOf
  <2> QED BY <1>2, <2>1 DEF Budget!Renewed, BudCacheOf
<1> QED BY <1>3, <1>4 DEF BudConsistent

\* Its usage is that of the free tier.
LEMMA BudFreeIsFree ==
  ASSUME Budget!BudgetAssumption, NEW d \in BudDb
  PROVE  BudCacheOf(d.apps, d.stake).free = Budget!FreeTier(d)
<1>1. App \ {a \in App : d.stake[a] > 0} = {a \in App : d.stake[a] = 0}
  BY DEF BudDb
<1> QED BY <1>1 DEF BudCacheOf, Budget!FreeTier

-----------------------------------------------------------------------------
\* The apps a step lets grow
BudGrows(d, r) == {a \in App : r.apps[a] > d.apps[a]}

\* An operation changes the bytes of the app it names only.
LEMMA BudExecutedIs ==
  ASSUME Budget!BudgetAssumption, NEW d \in BudDb, NEW op \in Budget!Op
  PROVE  /\ Budget!Executed(d, op) \in BudDb /\ Budget!Executed(d, op).nonce = d.nonce
         /\ BudGrows(d, Budget!Executed(d, op)) \subseteq IF op.type = "app" THEN {op.app} ELSE {}
<1> DEFINE r == Budget!Executed(d, op)
<1>0. /\ d.apps \in [App -> Nat] /\ d.stake \in [App -> Nat] /\ d.service \in Nat
      /\ d = [apps |-> d.apps, service |-> d.service, stake |-> d.stake, nonce |-> d.nonce]
      /\ d.nonce \in [User -> 0..MaxNonce]
      /\ \A a \in App : ~(d.apps[a] > d.apps[a])
  BY DEF BudDb
<1> DEFINE AppOp == [type : {"app"}, app : App, bytes : Sizes]
           ServiceOp == [type : {"service"}, bytes : Sizes]
           StakeOp == [type : {"stake"}, app : App, amount : StakeAmounts]
<1>a. Sizes \subseteq Nat /\ StakeAmounts \subseteq Nat BY DEF Budget!BudgetAssumption
<1>1. CASE op \in AppOp
  <2>1. op.type = "app" /\ op.app \in App /\ op.bytes \in Nat BY <1>a, <1>1
  <2> DEFINE m == [d.apps EXCEPT ![op.app] = op.bytes]
  <2>2. r = [d EXCEPT !.apps = m] BY <1>0, <2>1 DEF Budget!Executed
  <2>3. m \in [App -> Nat] /\ \A a \in App : a # op.app => m[a] = d.apps[a] BY <1>0, <2>1
  <2> HIDE DEF m, r
  <2>4. r \in BudDb /\ r.nonce = d.nonce /\ r.apps = m BY <1>0, <2>2, <2>3 DEF BudDb
  <2>5. BudGrows(d, r) \subseteq {op.app} BY <1>0, <2>3, <2>4 DEF BudGrows
  <2> QED BY <2>1, <2>4, <2>5 DEF r
<1>2. CASE op \in ServiceOp
  <2>1. op.type = "service" /\ op.bytes \in Nat BY <1>a, <1>2
  <2>2. r = [d EXCEPT !.service = op.bytes] BY <2>1 DEF Budget!Executed
  <2> HIDE DEF r
  <2>4. r \in BudDb /\ r.nonce = d.nonce /\ r.apps = d.apps BY <1>0, <2>1, <2>2 DEF BudDb
  <2>5. BudGrows(d, r) = {} BY <1>0, <2>4 DEF BudGrows
  <2> QED BY <2>1, <2>4, <2>5 DEF r
<1>3. CASE op \in StakeOp
  <2>1. op.type = "stake" /\ op.app \in App /\ op.amount \in Nat BY <1>a, <1>3
  <2> DEFINE m == [d.stake EXCEPT ![op.app] = op.amount]
  <2>2. r = [d EXCEPT !.stake = m] BY <1>0, <2>1 DEF Budget!Executed
  <2>3. m \in [App -> Nat] BY <1>0, <2>1
  <2> HIDE DEF m, r
  <2>4. r \in BudDb /\ r.nonce = d.nonce /\ r.apps = d.apps BY <1>0, <2>2, <2>3 DEF BudDb
  <2>5. BudGrows(d, r) = {} BY <1>0, <2>4 DEF BudGrows
  <2> QED BY <2>1, <2>4, <2>5 DEF r
<1>4. CASE op = [type |-> "denied"]
  <2>0. op.type = "denied" BY <1>4
  <2>1. r = d BY <2>0 DEF Budget!Executed
  <2> HIDE DEF r
  <2>2. BudGrows(d, r) = {} BY <1>0, <2>1 DEF BudGrows
  <2> QED BY <2>0, <2>1, <2>2 DEF r
<1> QED BY <1>1, <1>2, <1>3, <1>4 DEF Budget!Op

\* What the check of a database says
LEMMA BudCheckedIs ==
  ASSUME Budget!BudgetAssumption, NEW c, BudConsistent(c), NEW d \in BudDb, NEW tx
  PROVE  /\ BudConsistent(Budget!Checked(d, c, tx).cache)
         /\ Budget!Checked(d, c, tx).code = "SUCCESS" =>
              BudFits(d) /\ Budget!FitsByApp(d, Budget!FreeTier(d), Budget!AppsOf(tx.ops))
<1>1. Budget!Renewed(c, d) = BudCacheOf(d.apps, d.stake) BY BudRenewedIs
<1>2. Budget!Renewed(c, d).free = Budget!FreeTier(d) BY <1>1, BudFreeIsFree
<1>3. BudConsistent(Budget!Renewed(c, d))
  <2>1. d.apps \in [App -> Nat] /\ d.stake \in [App -> Nat] BY DEF BudDb
  <2> QED BY <1>1, <2>1 DEF BudConsistent
<1> QED BY <1>2, <1>3 DEF Budget!Checked, BudFits

\* What a step does: an app grows into its room, and an effect uses a nonce.
BudRoomFor(d, r) == \A a \in App : r.apps[a] > d.apps[a] => Budget!FitsByApp(r, Budget!FreeTier(r), {a})
BudUsesNonce(d, r) == r # d => \E u \in User : r.nonce[u] = d.nonce[u] + 1

\* A transaction keeps the invariant, grows into its room and uses its nonce.
LEMMA BudExecuteKeeps ==
  ASSUME Budget!BudgetAssumption, BudIInv, NEW u \in User, NEW tx \in Budget!Tx, Budget!ExecuteTx(u, tx)
  PROVE  BudIInv' /\ BudRoomFor(budgetDb, budgetDb') /\ BudUsesNonce(budgetDb, budgetDb')
<1> DEFINE d == Budget!ExecutedAll(budgetDb, tx.ops)
           checked == IF Budget!DeniedIn(tx.ops) THEN [code |-> "DENIED", cache |-> budgetCache]
                      ELSE Budget!Checked(d, budgetCache, tx)
           r == Budget!WithNonce(d, u, tx)
<1>1. /\ budgetDb.nonce[u] < MaxNonce
      /\ budgetDb' = IF Budget!IsFailed(tx, checked.code) THEN budgetDb ELSE IF checked.code = "SUCCESS" THEN r ELSE d
      /\ budgetCache' = checked.cache
  BY DEF Budget!ExecuteTx
<1>2. ~tx.list /\ tx.ops \in [1..1 -> Budget!Op]
  <2>1. ~(1 > 1) OBVIOUS
  <2>2. tx \in [list : {FALSE}, ops : [1..1 -> Budget!Op]] BY <2>1 DEF Budget!Tx
  <2>3. tx.list = FALSE BY <2>2
  <2>4. ~tx.list BY <2>3, Zenon
  <2> QED BY <2>2, <2>4
<1>3. PICK op \in Budget!Op : op = tx.ops[1] BY <1>2
<1>4. DOMAIN tx.ops = {1} BY <1>2
<1>5. d = Budget!Executed(budgetDb, op) BY <1>3, <1>4, BudRunsOne
<1>6. budgetDb \in BudDb /\ BudConsistent(budgetCache) /\ BudFits(budgetDb) BY DEF BudIInv
<1>7. /\ d \in BudDb /\ d.nonce = budgetDb.nonce
      /\ BudGrows(budgetDb, d) \subseteq IF op.type = "app" THEN {op.app} ELSE {}
  BY <1>5, <1>6, BudExecutedIs
<1> HIDE DEF d
<1>8. BudConsistent(checked.cache) /\ (checked.code = "SUCCESS" => BudFits(d) /\ Budget!FitsByApp(d, Budget!FreeTier(d), Budget!AppsOf(tx.ops)))
  <2>1. CASE Budget!DeniedIn(tx.ops) BY <1>6, <2>1
  <2>2. CASE ~Budget!DeniedIn(tx.ops) BY <1>6, <1>7, <2>2, BudCheckedIs
  <2> QED BY <2>1, <2>2
<1> HIDE DEF checked
<1>9. CASE checked.code # "SUCCESS"
  <2>1. budgetDb' = budgetDb BY <1>1, <1>2, <1>9 DEF Budget!IsFailed
  <2>2. \A a \in App : ~(budgetDb.apps[a] > budgetDb.apps[a]) BY <1>6 DEF BudDb
  <2> QED BY <1>1, <1>6, <1>8, <2>1, <2>2 DEF BudIInv, BudRoomFor, BudUsesNonce
<1>10. CASE checked.code = "SUCCESS"
  <2> DEFINE n == [d.nonce EXCEPT ![u] = @ + 1]
  <2>1. budgetDb' = r BY <1>1, <1>2, <1>10 DEF Budget!IsFailed
  <2>2. /\ d.apps \in [App -> Nat] /\ d.stake \in [App -> Nat] /\ d.service \in Nat
        /\ d = [apps |-> d.apps, service |-> d.service, stake |-> d.stake, nonce |-> d.nonce]
        /\ d.nonce \in [User -> 0..MaxNonce]
    BY <1>7 DEF BudDb
  <2>3. r = [d EXCEPT !.nonce = n] BY <2>2 DEF Budget!WithNonce
  <2>4. n \in [User -> 0..MaxNonce] /\ n[u] = budgetDb.nonce[u] + 1
    <3>1. MaxNonce \in Nat BY DEF Budget!BudgetAssumption
    <3>2. d.nonce[u] + 1 \in 0..MaxNonce BY <1>1, <1>7, <2>2, <3>1
    <3> QED BY <1>7, <2>2, <3>2
  <2> HIDE DEF n, r
  <2>5. r \in BudDb /\ r.apps = d.apps /\ r.stake = d.stake /\ r.service = d.service /\ r.nonce = n
    BY <2>2, <2>3, <2>4 DEF BudDb
  <2>6. BudFits(r) BY <1>8, <1>10, <2>5 DEF BudFits, Budget!FitsTree, Budget!FitsAsAWhole
  <2>7. \A A : Budget!FitsByApp(d, Budget!FreeTier(d), A) => Budget!FitsByApp(r, Budget!FreeTier(r), A)
    <3>1. Budget!FreeTier(r) = Budget!FreeTier(d) BY <2>5 DEF Budget!FreeTier
    <3> QED BY <2>5, <3>1 DEF Budget!FitsByApp
  <2>8. BudRoomFor(budgetDb, r)
    <3> SUFFICES ASSUME NEW a \in App, r.apps[a] > budgetDb.apps[a] PROVE Budget!FitsByApp(r, Budget!FreeTier(r), {a}) BY DEF BudRoomFor
    <3>1. a \in BudGrows(budgetDb, d) BY <2>5 DEF BudGrows
    <3>2. op.type = "app" /\ op.app = a BY <1>7, <3>1
    <3>3. a \in Budget!AppsOf(tx.ops) BY <1>3, <1>4, <3>2 DEF Budget!AppsOf
    <3>4. Budget!FitsByApp(d, Budget!FreeTier(d), {a}) BY <1>8, <1>10, <3>3 DEF Budget!FitsByApp
    <3> QED BY <2>7, <3>4
  <2>9. BudUsesNonce(budgetDb, r) BY <2>4, <2>5 DEF BudUsesNonce
  <2> QED BY <1>1, <1>8, <2>1, <2>5, <2>6, <2>8, <2>9 DEF BudIInv
<1> QED BY <1>9, <1>10

\* A step keeps the invariant, grows into room and uses a nonce.
LEMMA BudStepHolds ==
  ASSUME Budget!BudgetAssumption, BudIInv, [Budget!Next]_Budget!vars
  PROVE  BudIInv' /\ BudRoomFor(budgetDb, budgetDb') /\ BudUsesNonce(budgetDb, budgetDb')
<1>1. ASSUME NEW u \in User, NEW tx \in Budget!Tx, Budget!ExecuteTx(u, tx) PROVE BudIInv' /\ BudRoomFor(budgetDb, budgetDb') /\ BudUsesNonce(budgetDb, budgetDb')
  BY <1>1, BudExecuteKeeps
<1>2. \A a \in App : ~(budgetDb.apps[a] > budgetDb.apps[a]) BY DEF BudIInv, BudDb
<1>3. CASE Budget!AskFreeTier
  <2>1. budgetCache' = Budget!Renewed(budgetCache, budgetDb) /\ budgetDb' = budgetDb BY <1>3 DEF Budget!AskFreeTier
  <2>2. budgetCache' = BudCacheOf(budgetDb.apps, budgetDb.stake) BY <2>1, BudRenewedIs DEF BudIInv
  <2>3. budgetDb.apps \in [App -> Nat] /\ budgetDb.stake \in [App -> Nat] BY DEF BudIInv, BudDb
  <2>4. BudConsistent(budgetCache') BY <2>2, <2>3 DEF BudConsistent
  <2> QED BY <1>2, <2>1, <2>4 DEF BudIInv, BudRoomFor, BudUsesNonce
<1>4. CASE UNCHANGED Budget!vars BY <1>2, <1>4 DEF BudIInv, BudRoomFor, BudUsesNonce, Budget!vars
<1> QED BY <1>1, <1>3, <1>4 DEF Budget!Next

\* Nothing is used at first.
LEMMA BudInitHolds ==
  ASSUME Budget!BudgetAssumption, Budget!Init
  PROVE  BudIInv
<1> DEFINE z == [a \in App |-> 0]
<1>1. budgetDb = [apps |-> z, service |-> 0, stake |-> z, nonce |-> [u \in User |-> 0]] /\ budgetCache = BudEmpty
  BY DEF Budget!Init, BudEmpty
<1>2. TreeLimit \in Nat /\ ServiceBudget \in Nat /\ AppsBudget \in Nat /\ MaxNonce \in Nat /\ IsFiniteSet(App)
  BY BudPlain DEF Budget!BudgetAssumption
<1>3. Budget!SumOf(z, App) = 0
  <2>1. \A a \in App : z[a] = 0 OBVIOUS
  <2> HIDE DEF z
  <2> QED BY <1>2, <2>1, BudSumIsSum, TotalOfZeros
<1>4. z \in [App -> Nat] /\ [u \in User |-> 0] \in [User -> 0..MaxNonce] BY <1>2
<1> HIDE DEF z
<1>5. budgetDb \in BudDb BY <1>1, <1>4 DEF BudDb
<1>6. BudFits(budgetDb) BY <1>1, <1>2, <1>3 DEF BudFits, Budget!FitsTree, Budget!FitsAsAWhole
<1> QED BY <1>1, <1>5, <1>6 DEF BudIInv, BudConsistent

\* The invariant gives what the runs check.
LEMMA BudInvariantSays ==
  ASSUME Budget!BudgetAssumption, BudIInv
  PROVE  Budget!TypeOK /\ Budget!BudgetsKept
<1>1. budgetDb.nonce \in [User -> 0..MaxNonce] /\ \A a \in App : budgetDb.apps[a] \in Nat /\ budgetDb.stake[a] \in Nat
  BY DEF BudIInv, BudDb
<1>2. budgetCache.free # None => budgetCache.free = Budget!SumOf(budgetCache.usage, App \ budgetCache.staked)
  <2>1. CASE budgetCache = BudEmpty BY <2>1 DEF BudEmpty
  <2>2. ASSUME NEW apps \in [App -> Nat], NEW stake \in [App -> Nat], budgetCache = BudCacheOf(apps, stake)
        PROVE  budgetCache.free = Budget!SumOf(budgetCache.usage, App \ budgetCache.staked)
    BY <2>2 DEF BudCacheOf
  <2> QED BY <2>1, <2>2 DEF BudIInv, BudConsistent
<1>3. Budget!BudgetsKept BY DEF BudIInv, BudFits, Budget!BudgetsKept
<1> QED BY <1>1, <1>2, <1>3 DEF Budget!TypeOK


-----------------------------------------------------------------------------
(* The parts together: a step is a step of one part, and the invariant of  *)
(* each part is kept by its steps and by those of the others.              *)

BooksInv == StkIInv /\ BriIInv /\ PayIInv /\ FeeIInv /\ BudIInv

\* Every part starts where it would start by itself.
LEMMA BooksStart == BooksInit => BooksInv
<1> SUFFICES ASSUME BooksInit PROVE BooksInv OBVIOUS
<1>1. StkIInv BY StakesAreAssumed, StkInitHolds DEF BooksInit
<1>2. BriIInv BY BridgeIsAssumed, BriInitHolds DEF BooksInit
<1>3. PayIInv BY PaymentsAreAssumed, PayInitHolds DEF BooksInit
<1>4. FeeIInv BY FeesAreAssumed, FeeInitHolds DEF BooksInit
<1>5. BudIInv BY BudgetsAreAssumed, BudInitHolds DEF BooksInit
<1> QED BY <1>1, <1>2, <1>3, <1>4, <1>5 DEF BooksInv

\* A step is a step of each part, or nothing to it.
LEMMA OneBookSteps ==
  ASSUME [BooksNext]_booksVars
  PROVE  /\ [Stakes!Next]_Stakes!vars
         /\ [Bridge!Next]_Bridge!vars
         /\ [Pay!Next]_Pay!vars
         /\ [Fee!Next]_Fee!vars
         /\ [Budget!Next]_Budget!vars
<1>1. UNCHANGED stakeVars => UNCHANGED Stakes!vars BY DEF stakeVars, Stakes!vars
<1>2. UNCHANGED bridgeVars => UNCHANGED Bridge!vars BY DEF bridgeVars, Bridge!vars
<1>3. UNCHANGED payVars => UNCHANGED Pay!vars BY DEF payVars, Pay!vars
<1>4. UNCHANGED feeVars => UNCHANGED Fee!vars BY DEF feeVars, Fee!vars
<1>5. UNCHANGED budgetVars => UNCHANGED Budget!vars BY DEF budgetVars, Budget!vars
<1>6. UNCHANGED booksVars => UNCHANGED <<stakeVars, bridgeVars, payVars, feeVars, budgetVars>>
  BY DEF booksVars
<1> QED BY <1>1, <1>2, <1>3, <1>4, <1>5, <1>6 DEF BooksNext, BooksOnly

\* No step of any part breaks the invariant.
LEMMA BooksStep == BooksInv /\ [BooksNext]_booksVars => BooksInv'
<1> SUFFICES ASSUME BooksInv, [BooksNext]_booksVars PROVE BooksInv' OBVIOUS
<1>1. StkIInv' BY OneBookSteps, StakesAreAssumed, StkStepHolds DEF BooksInv
<1>2. BriIInv' BY OneBookSteps, BridgeIsAssumed, BriStepHolds DEF BooksInv
<1>3. PayIInv' BY OneBookSteps, PaymentsAreAssumed, PayStepHolds DEF BooksInv
<1>4. FeeIInv' BY OneBookSteps, FeesAreAssumed, FeeStepHolds DEF BooksInv
<1>5. BudIInv' BY OneBookSteps, BudgetsAreAssumed, BudStepHolds DEF BooksInv
<1> QED BY <1>1, <1>2, <1>3, <1>4, <1>5 DEF BooksInv

\* The invariant of every part holds in every behaviour of the books, whichever part
\* takes the steps.
THEOREM BooksInvariance == BooksSpec => []BooksInv
BY BooksStart, BooksStep, PTL DEF BooksSpec

\* Balances are natural numbers and their sum stays what it was, ids of requests are used
\* once, and the cached usage of the free tier is that of the cached usages
\* (db/functions.js, db/index.js).
THEOREM TypesTheorem == BooksSpec => []TypeOK
<1>1. ASSUME BooksInv PROVE TypeOK
  <2>1. Stakes!TypeOK BY <1>1, StakesAreAssumed, StkInvariantSays DEF BooksInv
  <2>2. Bridge!TypeOK BY <1>1, BridgeIsAssumed, BriInvariantSays DEF BooksInv
  <2>3. Pay!TypeOK BY <1>1, PaymentsAreAssumed, PayInvariantSays DEF BooksInv
  <2>4. Fee!TypeOK BY <1>1, FeesAreAssumed, FeeInvariantSays DEF BooksInv
  <2>5. Budget!TypeOK BY <1>1, BudgetsAreAssumed, BudInvariantSays DEF BooksInv
  <2> QED BY <2>1, <2>2, <2>3, <2>4, <2>5 DEF TypeOK
<1> QED BY <1>1, BooksInvariance, PTL

\* The totals of stakes, the lock-ups for offenses, the pending amounts of the bridge and
\* its pools, and the rewards agree with what they sum up, for any amounts and however
\* many users (_stake, _unstake, handleOffenses; _openCheckout, _closeCheckout;
\* distributeFee, _claimReward).
THEOREM BalanceTheorem == BooksSpec => []BooksBalance
<1>1. ASSUME BooksInv PROVE BooksBalance
  <2>1. Stakes!Conserved /\ Stakes!StakesAddUp /\ Stakes!OffensesAreSummed
    BY <1>1, StakesAreAssumed, StkInvariantSays DEF BooksInv
  <2>2. Bridge!PendingIsOpen /\ Bridge!BooksBalance
    BY <1>1, BridgeIsAssumed, BriInvariantSays DEF BooksInv
  <2>3. Fee!RewardsAddUp BY <1>1, FeesAreAssumed, FeeInvariantSays DEF BooksInv
  <2> QED BY <2>1, <2>2, <2>3 DEF BooksBalance
<1> QED BY <1>1, BooksInvariance, PTL

\* The daily limit of check-outs and the budgets of the state are kept, and no more is
\* collected than the blocks charge (_openCheckout; collectFee; checkTreeHeightAndBytes,
\* checkStateGasBudgets).
THEOREM LimitsTheorem == BooksSpec => []LimitsAreKept
<1>1. ASSUME BooksInv PROVE LimitsAreKept
  <2>1. Bridge!DailyLimitKept BY <1>1, BridgeIsAssumed, BriInvariantSays DEF BooksInv
  <2>2. Fee!NeverTooMuch BY <1>1, FeesAreAssumed, FeeInvariantSays DEF BooksInv
  <2>3. Budget!BudgetsKept BY <1>1, BudgetsAreAssumed, BudInvariantSays DEF BooksInv
  <2> QED BY <2>1, <2>2, <2>3 DEF LimitsAreKept
<1> QED BY <1>1, BooksInvariance, PTL

\* No step takes staked tokens before the end of a lock-up that was agreed to, releases an
\* escrow in part, bills an account for a user it does not list any more, lets an app grow
\* without room, or has an effect without a nonce.
THEOREM StepsTheorem == BooksSpec => StepsAreCovered
<1>1. ASSUME BooksInv, [BooksNext]_booksVars
      PROVE  [\A a \in Stakes!Stakes :
                stakeDb'.bal[a] < stakeDb.bal[a] => stakePromised[a] <= stakeClock]_Stakes!vars
  BY <1>1, OneBookSteps, StakesAreAssumed, StkStepHolds DEF BooksInv
<1>2. ASSUME BooksInv, [BooksNext]_booksVars
      PROVE  [\A e \in Escrow : payDb'.bal[e] < payDb.bal[e] =>
                /\ payDb'.bal[e] = 0
                /\ Pay!Total(payDb'.bal, {e.source, e.target})
                     = Pay!Total(payDb.bal, {e.source, e.target}) + payDb.bal[e]]_Pay!vars
  <2>1. PayWhole(payDb.bal, payDb'.bal) BY <1>2, OneBookSteps, PaymentsAreAssumed, PayStepHolds DEF BooksInv
  <2> QED BY <1>2, <2>1, PaymentsAreAssumed, PayWholeSays DEF BooksInv
<1>3. ASSUME BooksInv, [BooksNext]_booksVars
      PROVE  [\A b \in Billing : feeDb'.bal[b] < feeDb.bal[b] => feeDb'.users[b] = feeDb.users[b]]_Fee!vars
  BY <1>3, OneBookSteps, FeesAreAssumed, FeeStepHolds DEF BooksInv, FeeBilled
<1>4. ASSUME BooksInv, [BooksNext]_booksVars
      PROVE  /\ [\A a \in App : budgetDb'.apps[a] > budgetDb.apps[a] =>
                   Budget!FitsByApp(budgetDb', Budget!FreeTier(budgetDb'), {a})]_Budget!vars
             /\ [budgetDb' # budgetDb => \E u \in User : budgetDb'.nonce[u] = budgetDb.nonce[u] + 1]_Budget!vars
  BY <1>4, OneBookSteps, BudgetsAreAssumed, BudStepHolds DEF BooksInv, BudRoomFor, BudUsesNonce
<1> QED BY <1>1, <1>2, <1>3, <1>4, BooksInvariance, PTL
  DEF BooksSpec, StepsAreCovered, Stakes!LockupsAreKept, Pay!ReleasesAreWhole, Fee!BillingAgrees,
      Budget!GrowthHasRoom, Budget!EffectsUseNonce
=============================================================================
