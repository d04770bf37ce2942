-------------------------- MODULE Services_proofs --------------------------
(***************************************************************************)
(* The proofs about Services: for any sets of channels, filters, peers and *)
(* calls and any limits, the transaction pool is clean, the filters of     *)
(* clients agree, what a node has of                                       *)
(* the chain is whole, the last final block and the reports of a shard     *)
(* never go back, and each part keeps its types.  Each part has an         *)
(* inductive invariant of its own, stated on its instance; the last        *)
(* section puts them together.                                             *)
(***************************************************************************)
EXTENDS Services, FiniteSetTheorems, WellFoundedInduction, TLAPS


-----------------------------------------------------------------------------
(* Sums of the values of a function, as folds.                             *)

AnyOf(S) == CHOOSE x \in S : TRUE
Plus(c, x, y) == x + y
ValueAt(c, x) == c[x]

Sums == INSTANCE FoldTheorems WITH Op <- Plus, Value <- ValueAt, Pick <- AnyOf

Total(c, S) == Sums!Fold(c, 0, S)

\* The instance has its own name for IsFiniteSet.
LEMMA SumsOverFinite ==
  \A S : IsFiniteSet(S) => Sums!IsFiniteSet(S) /\ Sums!Picks(S)
BY DEF IsFiniteSet, Sums!IsFiniteSet, Sums!Picks, AnyOf

\* A sum of natural numbers is one, and a sum of integers is one.
LEMMA TotalIsNat ==
  ASSUME NEW S, IsFiniteSet(S), NEW c, \A x \in S : c[x] \in Nat
  PROVE  Total(c, S) \in Nat
<1> DEFINE I == Nat
<1>1. Sums!IsFiniteSet(S) /\ Sums!Picks(S) /\ 0 \in I BY SumsOverFinite
<1>2. Sums!Keeps(c, S, I) BY DEF Plus, ValueAt, Sums!Keeps
<1> HIDE DEF I
<1>3. Sums!Fold(c, 0, S) \in I BY <1>1, <1>2, Sums!FoldKeeps
<1> QED BY <1>3 DEF I, Total

\* A sum of integers is an integer.
LEMMA TotalIsInt ==
  ASSUME NEW S, IsFiniteSet(S), NEW c, \A x \in S : c[x] \in Int
  PROVE  Total(c, S) \in Int
<1> DEFINE I == Int
<1>1. Sums!IsFiniteSet(S) /\ Sums!Picks(S) /\ 0 \in I BY SumsOverFinite
<1>2. Sums!Keeps(c, S, I) BY DEF Plus, ValueAt, Sums!Keeps
<1> HIDE DEF I
<1>3. Sums!Fold(c, 0, S) \in I BY <1>1, <1>2, Sums!FoldKeeps
<1> QED BY <1>3 DEF I, Total

\* The sum over no element is zero.
LEMMA TotalOfNone == ASSUME NEW c PROVE Total(c, {}) = 0
BY Sums!FoldEmpty DEF Total

\* One element can be added last.
LEMMA TotalTakesOut ==
  ASSUME NEW S, IsFiniteSet(S), NEW c, \A x \in S : c[x] \in Int, NEW z \in S
  PROVE  Total(c, S) = c[z] + Total(c, S \ {z})
<1> DEFINE I == Int
<1>1. Sums!IsFiniteSet(S) /\ Sums!Picks(S) /\ 0 \in I BY SumsOverFinite
<1>2. Sums!Keeps(c, S, I) BY DEF Plus, ValueAt, Sums!Keeps
<1>3. Sums!Commutes(c, S, I) BY DEF Plus, ValueAt, Sums!Commutes
<1> HIDE DEF I
<1>4. Sums!Fold(c, 0, S) = Plus(c, ValueAt(c, z), Sums!Fold(c, 0, S \ {z}))
  BY <1>1, <1>2, <1>3, Sums!FoldAnyLast
<1> QED BY <1>4 DEF Plus, ValueAt, Total

\* The sum of differences is the difference of the sums.
LEMMA TotalOfDifferences ==
  ASSUME NEW S, IsFiniteSet(S), NEW c, NEW d, NEW e,
         \A x \in S : c[x] \in Int /\ d[x] \in Int /\ e[x] = c[x] - d[x]
  PROVE  Total(e, S) = Total(c, S) - Total(d, S)
<1> DEFINE R == {t \in Int \X Int \X Int : t[3] = t[1] - t[2]}
<1>1. Sums!IsFiniteSet(S) /\ Sums!Picks(S) /\ <<0, 0, 0>> \in R BY SumsOverFinite
<1>2. ASSUME NEW x \in S, NEW u, NEW v, NEW w, <<u, v, w>> \in R
      PROVE  <<Plus(c, ValueAt(c, x), u), Plus(d, ValueAt(d, x), v), Plus(e, ValueAt(e, x), w)>> \in R
  BY <1>2 DEF Plus, ValueAt
<1> HIDE DEF R
<1>3. <<Sums!Fold(c, 0, S), Sums!Fold(d, 0, S), Sums!Fold(e, 0, S)>> \in R
  BY <1>1, <1>2, Sums!FoldsRelate
<1> QED BY <1>3 DEF R, Total

\* A sum of zeros is zero.
LEMMA TotalOfZeros ==
  ASSUME NEW S, IsFiniteSet(S), NEW c, \A x \in S : c[x] = 0
  PROVE  Total(c, S) = 0
<1>1. \A x \in S : c[x] \in Int /\ c[x] = c[x] - c[x] OBVIOUS
<1>2. Total(c, S) = Total(c, S) - Total(c, S) /\ Total(c, S) \in Int
  BY <1>1, TotalOfDifferences, TotalIsInt
<1> QED BY <1>2

\* What is equal everywhere has equal sums.
LEMMA TotalsAgree ==
  ASSUME NEW S, IsFiniteSet(S), NEW c, NEW d, \A x \in S : c[x] \in Int /\ d[x] = c[x]
  PROVE  Total(c, S) = Total(d, S)
<1> DEFINE e == [x \in S |-> 0]
<1>1. \A x \in S : d[x] \in Int /\ e[x] \in Int /\ d[x] = c[x] - e[x] OBVIOUS
<1>2. \A x \in S : e[x] = 0 OBVIOUS
<1> HIDE DEF e
<1>3. Total(d, S) = Total(c, S) - Total(e, S) BY <1>1, TotalOfDifferences
<1>4. Total(e, S) = 0 BY <1>2, TotalOfZeros
<1>5. Total(c, S) \in Int BY TotalIsInt
<1> QED BY <1>3, <1>4, <1>5

\* Only one value changes.
LEMMA TotalChanges ==
  ASSUME NEW S, IsFiniteSet(S), NEW c, NEW d, NEW z \in S,
         \A x \in S : c[x] \in Int /\ d[x] \in Int, \A x \in S \ {z} : d[x] = c[x]
  PROVE  Total(d, S) = Total(c, S) + d[z] - c[z]
<1> DEFINE T == S \ {z}
<1>1. IsFiniteSet(T) /\ (\A x \in T : c[x] \in Int /\ d[x] = c[x]) BY FS_Subset
<1>2. Total(c, T) = Total(d, T) /\ Total(c, T) \in Int
  <2> HIDE DEF T
  <2> QED BY <1>1, TotalsAgree, TotalIsInt
<1>3. Total(c, S) = c[z] + Total(c, T) /\ Total(d, S) = d[z] + Total(d, T) BY TotalTakesOut
<1> QED BY <1>2, <1>3

\* A sum of natural numbers is no less than one of them.
LEMMA TotalIsLargest ==
  ASSUME NEW S, IsFiniteSet(S), NEW c, \A x \in S : c[x] \in Nat, NEW z \in S
  PROVE  Total(c, S) >= c[z]
<1>1. Total(c, S) = c[z] + Total(c, S \ {z}) BY TotalTakesOut
<1>2. Total(c, S \ {z}) \in Nat
  <2>1. IsFiniteSet(S \ {z}) /\ \A x \in S \ {z} : c[x] \in Nat BY FS_Subset
  <2> QED BY <2>1, TotalIsNat
<1> QED BY <1>1, <1>2

-----------------------------------------------------------------------------
(* How many elements of a sequence are in a set.                           *)

Places(s, K) == {i \in DOMAIN s : s[i] \in K}
Count(s, K) == Cardinality(Places(s, K))

\* How many members of a sequence are of a kind is a natural number.
LEMMA CountIsNat ==
  ASSUME NEW S, NEW s \in Seq(S), NEW K
  PROVE  Count(s, K) \in Nat /\ IsFiniteSet(Places(s, K))
<1>1. IsFiniteSet(1 .. Len(s)) /\ Places(s, K) \subseteq 1 .. Len(s) BY FS_Interval DEF Places
<1> QED BY <1>1, FS_Subset, FS_CardinalityType DEF Count

\* The empty sequence has none of a kind.
LEMMA CountOfNone == ASSUME NEW K PROVE Count(<<>>, K) = 0
<1>1. Places(<<>>, K) = {} BY DEF Places
<1> QED BY <1>1, FS_EmptySet DEF Count

\* Appending adds one to the count, or nothing.
LEMMA CountOfAppend ==
  ASSUME NEW S, NEW s \in Seq(S), NEW e \in S, NEW K
  PROVE  Count(Append(s, e), K) = Count(s, K) + (IF e \in K THEN 1 ELSE 0)
<1>1. CASE e \in K
  <2>1. Places(Append(s, e), K) = Places(s, K) \cup {Len(s) + 1} BY <1>1 DEF Places
  <2>2. Len(s) + 1 \notin Places(s, K) BY DEF Places
  <2> QED BY <1>1, <2>1, <2>2, CountIsNat, FS_AddElement DEF Count
<1>2. CASE e \notin K
  <2>1. Places(Append(s, e), K) = Places(s, K) BY <1>2 DEF Places
  <2> QED BY <1>2, <2>1, CountIsNat DEF Count
<1> QED BY <1>1, <1>2

\* Taking the head subtracts one from the count, or nothing.
LEMMA CountOfTail ==
  ASSUME NEW S, NEW s \in Seq(S), s # <<>>, NEW K
  PROVE  Count(s, K) = Count(Tail(s), K) + (IF Head(s) \in K THEN 1 ELSE 0)
<1>0. PICK t : t = Tail(s) OBVIOUS
<1> DEFINE P == Places(t, K)
           f == [i \in P |-> i + 1]
           T == {i + 1 : i \in P}
<1>1. /\ t \in Seq(S) /\ Len(s) = Len(t) + 1 /\ Len(t) \in Nat /\ Head(s) = s[1]
      /\ \A i \in 1 .. Len(t) : t[i] = s[i + 1]
      /\ DOMAIN s = 1 .. Len(s) /\ DOMAIN t = 1 .. Len(t)
  BY <1>0
<1>2. IsFiniteSet(P) /\ Cardinality(P) \in Nat BY <1>1, CountIsNat DEF Count
<1>3. \A i \in P : i \in Int BY <1>1 DEF Places
<1>4. IsFiniteSet(T) /\ Cardinality(T) = Cardinality(P)
  <2> HIDE DEF P
  <2>1. f \in Surjection(P, T) BY DEF Surjection
  <2>2. f \in Injection(P, T) BY <1>3, <2>1 DEF Injection, Surjection, IsInjective
  <2> HIDE DEF f, T
  <2> QED BY <1>2, <2>1, <2>2, FS_Surjection
<1>5. 1 \notin T BY <1>1 DEF Places
<1>6. CASE s[1] \in K
  <2>1. Places(s, K) = T \cup {1}
    <3>1. ASSUME NEW i \in DOMAIN s, s[i] \in K, i # 1 PROVE i \in T
      <4>1. i - 1 \in 1 .. Len(t) /\ i = (i - 1) + 1 BY <1>1, <3>1
      <4>2. t[i - 1] = s[(i - 1) + 1] BY <1>1, <4>1
      <4> QED BY <1>1, <3>1, <4>1, <4>2 DEF Places
    <3>2. T \cup {1} \subseteq Places(s, K) BY <1>1, <1>6 DEF Places
    <3> HIDE DEF T
    <3> QED BY <3>1, <3>2 DEF Places
  <2> HIDE DEF T, P
  <2>2. Cardinality(T \cup {1}) = Cardinality(T) + 1 BY <1>4, <1>5, FS_AddElement
  <2> QED BY <1>0, <1>1, <1>2, <1>4, <1>6, <2>1, <2>2 DEF Count, P
<1>7. CASE s[1] \notin K
  <2>1. Places(s, K) = T
    <3>1. ASSUME NEW i \in DOMAIN s, s[i] \in K PROVE i \in T
      <4>1. i # 1 BY <1>7, <3>1
      <4>2. i - 1 \in 1 .. Len(t) /\ i = (i - 1) + 1 BY <1>1, <3>1, <4>1
      <4>3. t[i - 1] = s[(i - 1) + 1] BY <1>1, <4>2
      <4> QED BY <1>1, <3>1, <4>2, <4>3 DEF Places
    <3>2. T \subseteq Places(s, K) BY <1>1 DEF Places
    <3> HIDE DEF T
    <3> QED BY <3>1, <3>2 DEF Places
  <2> HIDE DEF T, P
  <2> QED BY <1>0, <1>1, <1>2, <1>4, <1>7, <2>1 DEF Count, P
<1> QED BY <1>1, <1>6, <1>7

\* Every element is counted when all of them may be.
LEMMA CountOfAll == ASSUME NEW S, NEW s \in Seq(S) PROVE Count(s, S) = Len(s)
<1>1. Places(s, S) = 1 .. Len(s) BY DEF Places
<1>2. PICK n \in Nat : n = Len(s) OBVIOUS
<1>3. Cardinality(1 .. n) = n
  <2>1. Cardinality(1 .. n) = IF 1 > n THEN 0 ELSE n - 1 + 1 BY FS_Interval
  <2> QED BY <2>1
<1> QED BY <1>1, <1>2, <1>3 DEF Count

-----------------------------------------------------------------------------
(* How many messages of a set K are in the queues of all of D.             *)

CountAll(q, D, K) == Total([p \in D |-> Count(q[p], K)], D)

\* A sum of which one summand changes
Moves(before, after, from, to) == after = before + to - from

\* The count over several queues is a natural number.
LEMMA CountAllIsNat ==
  ASSUME NEW D, IsFiniteSet(D), NEW S, NEW q \in [D -> Seq(S)], NEW K
  PROVE  CountAll(q, D, K) \in Nat
<1> DEFINE c == [p \in D |-> Count(q[p], K)]
<1>1. \A p \in D : c[p] \in Nat BY CountIsNat
<1> HIDE DEF c
<1>2. Total(c, D) \in Nat BY <1>1, TotalIsNat
<1> QED BY <1>2 DEF c, CountAll

\* One queue becomes another one.
LEMMA CountAllChanges ==
  ASSUME NEW D, IsFiniteSet(D), NEW S, NEW q \in [D -> Seq(S)], NEW r \in [D -> Seq(S)], NEW K,
         NEW p \in D, \A x \in D \ {p} : r[x] = q[x]
  PROVE  Moves(CountAll(q, D, K), CountAll(r, D, K), Count(q[p], K), Count(r[p], K))
<1> DEFINE c == [x \in D |-> Count(q[x], K)]
           d == [x \in D |-> Count(r[x], K)]
<1>1. \A x \in D : c[x] \in Int /\ d[x] \in Int
  <2> SUFFICES ASSUME NEW x \in D PROVE Count(q[x], K) \in Nat /\ Count(r[x], K) \in Nat
    OBVIOUS
  <2>1. q[x] \in Seq(S) /\ r[x] \in Seq(S) OBVIOUS
  <2> QED BY <2>1, CountIsNat
<1>2. \A x \in D \ {p} : d[x] = c[x] OBVIOUS
<1>3. d[p] = Count(r[p], K) /\ c[p] = Count(q[p], K) OBVIOUS
<1>4. CountAll(r, D, K) = Total(d, D) /\ CountAll(q, D, K) = Total(c, D) BY DEF CountAll
<1> HIDE DEF c, d
<1>5. Total(d, D) = Total(c, D) + d[p] - c[p] BY <1>1, <1>2, TotalChanges
<1> QED BY <1>3, <1>4, <1>5 DEF Moves

\* Appending to one queue changes the count over all by what is appended.
LEMMA CountAllOfAppend ==
  ASSUME NEW D, IsFiniteSet(D), NEW S, NEW q \in [D -> Seq(S)], NEW K, NEW p \in D, NEW e \in S,
         NEW r \in [D -> Seq(S)], r[p] = Append(q[p], e), \A x \in D \ {p} : r[x] = q[x]
  PROVE  /\ e \in K => Moves(CountAll(q, D, K), CountAll(r, D, K), 0, 1)
         /\ e \notin K => Moves(CountAll(q, D, K), CountAll(r, D, K), 0, 0)
<1>1. q[p] \in Seq(S) OBVIOUS
<1>4. Count(r[p], K) = Count(q[p], K) + (IF e \in K THEN 1 ELSE 0) BY <1>1, CountOfAppend
<1>5. Count(q[p], K) \in Nat /\ CountAll(q, D, K) \in Nat BY <1>1, CountIsNat, CountAllIsNat
<1>6. Moves(CountAll(q, D, K), CountAll(r, D, K), Count(q[p], K), Count(r[p], K))
  BY CountAllChanges
<1> QED BY <1>4, <1>5, <1>6 DEF Moves

\* Taking the head of one queue changes the count over all by that head.
LEMMA CountAllOfTail ==
  ASSUME NEW D, IsFiniteSet(D), NEW S, NEW q \in [D -> Seq(S)], NEW K, NEW p \in D, q[p] # <<>>,
         NEW r \in [D -> Seq(S)], r[p] = Tail(q[p]), \A x \in D \ {p} : r[x] = q[x]
  PROVE  /\ Head(q[p]) \in K => Moves(CountAll(q, D, K), CountAll(r, D, K), 1, 0)
         /\ Head(q[p]) \notin K => Moves(CountAll(q, D, K), CountAll(r, D, K), 0, 0)
<1>1. q[p] \in Seq(S) /\ Tail(q[p]) \in Seq(S) OBVIOUS
<1>4. Count(q[p], K) = Count(r[p], K) + (IF Head(q[p]) \in K THEN 1 ELSE 0)
  BY <1>1, CountOfTail
<1>5. Count(r[p], K) \in Nat /\ CountAll(q, D, K) \in Nat BY <1>1, CountIsNat, CountAllIsNat
<1>6. Moves(CountAll(q, D, K), CountAll(r, D, K), Count(q[p], K), Count(r[p], K))
  BY CountAllChanges
<1> QED BY <1>4, <1>5, <1>6 DEF Moves

\* The messages of a closed socket are lost.
LEMMA CountAllOfClosed ==
  ASSUME NEW D, IsFiniteSet(D), NEW S, NEW q \in [D -> Seq(S)], NEW K, NEW p \in D,
         NEW r \in [D -> Seq(S)], r[p] = <<>>, \A x \in D \ {p} : r[x] = q[x]
  PROVE  CountAll(r, D, K) <= CountAll(q, D, K)
<1>1. q[p] \in Seq(S) OBVIOUS
<1>4. Count(q[p], K) \in Nat /\ CountAll(q, D, K) \in Nat BY <1>1, CountIsNat, CountAllIsNat
<1>5. Moves(CountAll(q, D, K), CountAll(r, D, K), Count(q[p], K), Count(r[p], K))
  BY CountAllChanges
<1> QED BY <1>4, <1>5, CountOfNone DEF Moves

\* No queue has a message.
LEMMA CountAllOfNone ==
  ASSUME NEW D, IsFiniteSet(D), NEW q, NEW K, \A p \in D : q[p] = <<>>
  PROVE  CountAll(q, D, K) = 0
<1> DEFINE c == [p \in D |-> Count(q[p], K)]
<1>1. \A p \in D : c[p] = 0 BY CountOfNone
<1> HIDE DEF c
<1>2. Total(c, D) = 0 BY <1>1, TotalOfZeros
<1> QED BY <1>2 DEF c, CountAll

\* The messages in two families of queues together.
LEMMA CountsTogether ==
  ASSUME NEW D, IsFiniteSet(D), NEW S, NEW T, NEW q \in [D -> Seq(S)], NEW r \in [D -> Seq(T)],
         NEW K, NEW L, NEW c, \A p \in D : c[p] = Count(q[p], K) + Count(r[p], L)
  PROVE  Moves(CountAll(q, D, K), Total(c, D), 0, CountAll(r, D, L))
<1> DEFINE d == [p \in D |-> Count(r[p], L)]
           e == [p \in D |-> Count(q[p], K)]
<1>1. \A p \in D : c[p] \in Int /\ d[p] \in Int /\ e[p] = c[p] - d[p]
  <2> SUFFICES ASSUME NEW p \in D
               PROVE  c[p] \in Int /\ Count(r[p], L) \in Int /\ Count(q[p], K) = c[p] - Count(r[p], L)
    OBVIOUS
  <2>1. q[p] \in Seq(S) /\ r[p] \in Seq(T) OBVIOUS
  <2>2. Count(q[p], K) \in Nat /\ Count(r[p], L) \in Nat BY <2>1, CountIsNat
  <2> QED BY <2>2
<1>2. CountAll(q, D, K) = Total(e, D) /\ CountAll(r, D, L) = Total(d, D) BY DEF CountAll
<1> HIDE DEF d, e
<1>3. Total(e, D) = Total(c, D) - Total(d, D) BY <1>1, TotalOfDifferences
<1>4. Total(c, D) \in Int /\ Total(d, D) \in Int BY <1>1, TotalIsInt
<1>5. Total(d, D) \in Int BY <1>1, TotalIsInt
<1> QED BY <1>2, <1>3, <1>4, <1>5 DEF Moves

-----------------------------------------------------------------------------
\* Among subsets of a finite set there is a smallest one.
LEMMA SmallestSubset ==
  ASSUME NEW S, IsFiniteSet(S), NEW M \in SUBSET SUBSET S, M # {}
  PROVE  \E T \in M : \A U \in M : U \subseteq T => U = T
BY SumsOverFinite, Sums!Smallest

\* An element that is the least in no pair, for a relation without circles.
LEMMA MaximalExists ==
  ASSUME NEW S, IsFiniteSet(S), S # {}, NEW Above, Above \in [S -> SUBSET S],
         \A x \in S : \A y \in Above[x] : y \notin Above[y] /\ Above[y] \subseteq Above[x]
  PROVE  \E m \in S : Above[m] = {}
<1> DEFINE M == {Above[m] : m \in S}
<1>1. PICK T \in M : \A U \in M : U \subseteq T => U = T
  <2>1. M \in SUBSET SUBSET S /\ M # {} OBVIOUS
  <2> HIDE DEF M
  <2> QED BY <2>1, SmallestSubset
<1>2. PICK m \in S : T = Above[m] BY <1>1
<1>3. ASSUME NEW x \in Above[m] PROVE FALSE
  <2>1. x \in S /\ x \notin Above[x] /\ Above[x] \subseteq Above[m] OBVIOUS
  <2>2. Above[x] \in M BY <2>1
  <2> QED BY <1>1, <1>2, <2>1, <2>2
<1> QED BY <1>2, <1>3

\* A finite set of numbers has a largest one.
LEMMA LargestExists ==
  ASSUME NEW S, IsFiniteSet(S), S # {}, S \subseteq Int
  PROVE  \E m \in S : \A x \in S : m >= x
<1> DEFINE Above == [m \in S |-> {x \in S : x > m}]
<1>1. Above \in [S -> SUBSET S] OBVIOUS
<1>2. ASSUME NEW x \in S, NEW y \in Above[x]
      PROVE  y \notin Above[y] /\ Above[y] \subseteq Above[x]
  <2>1. x \in Int /\ y \in Int /\ y \in S /\ y > x OBVIOUS
  <2>2. ASSUME NEW z \in S, z > y PROVE z > x
    <3>1. z \in Int OBVIOUS
    <3> QED BY <2>1, <2>2, <3>1
  <2>3. y \notin Above[y]
    <3>1. ~(y > y) BY <2>1
    <3> QED BY <2>1, <3>1
  <2>4. ASSUME NEW z \in Above[y] PROVE z \in Above[x]
    <3>1. z \in S /\ z > y BY <2>1, <2>4
    <3> QED BY <2>2, <3>1
  <2> QED BY <2>3, <2>4
<1>3. \E m \in S : Above[m] = {}
  <2> HIDE DEF Above
  <2> QED BY <1>1, <1>2, MaximalExists
<1> QED BY <1>3
\* An event node has its node in the tree, and the filters that watch its path.
EventsTreeOK ==
  /\ \A p \in DOMAIN handEvents : p \in handNodes /\ p \in Pattern
  /\ \A p \in DOMAIN handEvents : \A f \in handEvents[p] : f \in DOMAIN handParsed /\ handParsed[f] = p

\* A socket is open as long as the node holds its channel, or was terminated.
EventsChannelsOK ==
  /\ \A c \in Channel : handSocket[c] = "open" => c \in handChannels
  /\ \A c \in handChannels : handSocket[c] \in {"open", "terminated"}

EventsHaveChannels == \A f \in DOMAIN handFilters : f[1] \in handChannels

\* A timeout that runs is the one that is noted for the filter.
EventsTimersOK ==
  \A t \in handTimers : /\ t[1] \in DOMAIN handFilters
                    /\ handFilters[t[1]].serial = t[2]
                    /\ handCallback[t[1]] = t[2]

EventsIInv ==
  /\ Events!TypeOK /\ EventsTreeOK /\ EventsChannelsOK /\ EventsHaveChannels
  /\ Events!IndexesAgree /\ EventsTimersOK /\ Events!ToldIsCurrent

-----------------------------------------------------------------------------
\* The shape of what a filter is registered for, and of ids.
LEMMA EventsConfigs ==
  ASSUME NEW k \in Events!Config
  PROVE  /\ k[1] \in Events!EventType
         /\ k[1] = "VALUE_CHANGED" => k[2] \in Pattern
         /\ k[1] = "TX_STATE_CHANGED" => k[2] \in WatchedTx
BY DEF Events!Config, Events!EventType

\* A filter is a channel and an id.
LEMMA EventsIds ==
  ASSUME Events!EventHandlerAssumption
  PROVE  /\ \A f \in EventFilter : f[1] \in Channel
         /\ \A c \in Channel, id \in ClientFilterId : <<c, id>> \in EventFilter /\ <<c, id>>[1] = c
BY DEF Events!EventHandlerAssumption

\* A path leads to itself.
LEMMA EventsLastWay ==
  ASSUME Events!EventHandlerAssumption, NEW p \in Pattern
  PROVE  p \in Events!WaysTo(p)
<1>1. p \in Seq(Events!Range(p)) /\ p # <<>>
  BY DEF Events!EventHandlerAssumption, Events!PathsAreAssumed
<1>2. Len(p) \in 0..Len(p) /\ SubSeq(p, 1, Len(p)) = p
  BY <1>1
<1>3. p \in Events!Prefixes(p)
  BY <1>2 DEF Events!Prefixes
<1> QED BY <1>1, <1>3 DEF Events!WaysTo

-----------------------------------------------------------------------------
(* The tree                                                                *)

\* registerEventFilterId of a filter that is not there.
LEMMA EventsTreeRegisters ==
  ASSUME Events!EventHandlerAssumption, EventsTreeOK, NEW f, NEW p \in Pattern,
         f \notin DOMAIN handParsed, Events!RegisterEventFilterId(f, p)
  PROVE  EventsTreeOK'
<1>1. p \in handNodes'
  BY EventsLastWay DEF Events!RegisterEventFilterId
<1>2. /\ DOMAIN handEvents' = DOMAIN handEvents \cup {p}
      /\ \A q \in DOMAIN handEvents : q # p => handEvents'[q] = handEvents[q]
      /\ handEvents'[p] \subseteq {f} \cup (IF p \in DOMAIN handEvents THEN handEvents[p] ELSE {})
  BY DEF Events!RegisterEventFilterId
<1>3. /\ DOMAIN handParsed' = DOMAIN handParsed \cup {f} /\ handParsed'[f] = p
      /\ \A g \in DOMAIN handParsed : handParsed'[g] = handParsed[g]
  BY DEF Events!RegisterEventFilterId
<1>4. handNodes \subseteq handNodes' BY DEF Events!RegisterEventFilterId
<1> QED BY <1>1, <1>2, <1>3, <1>4 DEF EventsTreeOK

\* deregisterEventFilterId takes the event nodes of its filters away.
LEMMA EventsTreeDeregisters ==
  ASSUME Events!EventHandlerAssumption, EventsTreeOK, NEW S, S \subseteq DOMAIN handParsed,
         Events!DeregisterEventFilterIds(S)
  PROVE  EventsTreeOK'
<1> DEFINE visited == handNodes \cap UNION {Events!WaysTo(handParsed[f]) : f \in S}
<1>1. /\ DOMAIN handEvents' = DOMAIN handEvents \ visited
      /\ \A q \in DOMAIN handEvents' : handEvents'[q] = handEvents[q]
  BY DEF Events!DeregisterEventFilterIds, Events!EventsAfter, Events!Without
<1>2. /\ DOMAIN handParsed' = DOMAIN handParsed \ S
      /\ \A g \in DOMAIN handParsed' : handParsed'[g] = handParsed[g]
  BY DEF Events!DeregisterEventFilterIds, Events!Without
<1>3. \A q \in handNodes \ visited : q \in handNodes'
  BY DEF Events!DeregisterEventFilterIds, Events!NodesAfter
<1>4. ASSUME NEW q \in DOMAIN handEvents', NEW f \in handEvents'[q]
      PROVE  f \notin S
  <2>1. q \in handNodes /\ q \in Pattern /\ handParsed[f] = q /\ q \notin visited
    BY <1>1, <1>4 DEF EventsTreeOK
  <2>2. q \in Events!WaysTo(handParsed[f]) BY <2>1, EventsLastWay
  <2> QED BY <2>1, <2>2
<1> QED BY <1>1, <1>2, <1>3, <1>4 DEF EventsTreeOK

\* What matches a changed value is a filter registered for it.
LEMMA EventsMatching ==
  ASSUME EventsTreeOK
  PROVE  Events!MatchedIsRegistered
BY DEF EventsTreeOK, Events!MatchedIsRegistered, Events!MatchEventFilterPath

-----------------------------------------------------------------------------
(* Filters                                                                 *)

\* After registerFilter everything holds, of the new filter too.
LEMMA EventsRegistering ==
  ASSUME Events!EventHandlerAssumption, EventsIInv,
         NEW c \in Channel, NEW id \in ClientFilterId, NEW k \in Events!Config, Events!Register(c, id, k)
  PROVE  EventsIInv'
<1> DEFINE f == <<c, id>>
           n == handSerial + 1
<1>1. f \in EventFilter /\ f[1] = c /\ f \notin DOMAIN handFilters
  BY EventsIds DEF Events!Register
<1>2. n \in 1..MaxRegistrations /\ handSerial' = n
  BY DEF Events!Register, EventsIInv, Events!TypeOK, Events!EventHandlerAssumption
<1>3. /\ DOMAIN handFilters' = DOMAIN handFilters \cup {f}
      /\ handFilters'[f] = [config |-> k, serial |-> n]
      /\ \A g \in DOMAIN handFilters : handFilters'[g] = handFilters[g] /\ g # f
  BY <1>1 DEF Events!Register
<1>4. /\ k[1] \in Events!EventType
      /\ k[1] = "VALUE_CHANGED" => k[2] \in Pattern
      /\ k[1] = "TX_STATE_CHANGED" => k[2] \in WatchedTx
  BY EventsConfigs
<1>5. handFilters'[f].config = k /\ handFilters'[f].serial = n
  BY <1>3
<1> HIDE DEF f, n
<1>6. /\ handFilterIds' = [handFilterIds EXCEPT ![c] = @ \cup {f}]
      /\ handChannelOf' = handChannelOf \cup {f}
      /\ handOfType' = [handOfType EXCEPT ![k[1]] = @ \cup {f}]
      /\ handTold' = [handTold EXCEPT ![f] = Events!ToldAtFirst(k)]
      /\ UNCHANGED <<handChannels, handSocket, handIsAlive, handSilent, handTxState>>
  BY DEF Events!Register, f, n
<1>7. handOfTx' = [t \in WatchedTx |-> IF k[1] = "TX_STATE_CHANGED" /\ t = k[2] THEN handOfTx[t] \cup {f} ELSE handOfTx[t]]
  BY <1>4 DEF Events!Register, EventsIInv, Events!TypeOK, f
<1>8. Events!CanSend(c) /\ c \in handChannels
  BY DEF Events!Register, Events!CanSend, EventsIInv, EventsChannelsOK
<1>9. f \notin DOMAIN handParsed
  BY <1>1 DEF EventsIInv, Events!IndexesAgree, Events!With
<1>10. EventsTreeOK'
  <2>1. CASE k[1] = "VALUE_CHANGED"
    BY <1>4, <1>9, <2>1, EventsTreeRegisters DEF Events!Register, EventsIInv, f
  <2>2. CASE k[1] # "VALUE_CHANGED"
    BY <2>2 DEF Events!Register, EventsIInv, EventsTreeOK, Events!treeVars
  <2> QED BY <2>1, <2>2
<1>11. \A e \in Events!EventType : Events!With(e)' = IF e = k[1] THEN Events!With(e) \cup {f} ELSE Events!With(e)
  BY <1>3, <1>5 DEF Events!With
<1>12. handParsed' = [g \in Events!With("VALUE_CHANGED")' |-> handFilters'[g].config[2]]
  <2>1. handParsed = [g \in Events!With("VALUE_CHANGED") |-> handFilters[g].config[2]]
    BY DEF EventsIInv, Events!IndexesAgree
  <2>2. "VALUE_CHANGED" \in Events!EventType BY DEF Events!EventType
  <2>3. CASE k[1] = "VALUE_CHANGED"
    <3>1. handParsed' = [g \in DOMAIN handParsed \cup {f} |-> IF g = f THEN k[2] ELSE handParsed[g]]
      BY <2>3 DEF Events!Register, Events!RegisterEventFilterId, f
    <3> QED BY <1>3, <1>5, <1>11, <2>1, <2>2, <2>3, <3>1 DEF Events!With
  <2>4. CASE k[1] # "VALUE_CHANGED"
    <3>1. handParsed' = handParsed
      BY <2>4 DEF Events!Register, Events!treeVars
    <3> QED BY <1>3, <1>11, <2>1, <2>2, <2>4, <3>1 DEF Events!With
  <2> QED BY <2>3, <2>4
<1>13. Events!IndexesAgree'
  <2>1. handChannelOf' = DOMAIN handFilters'
    BY <1>3, <1>6 DEF EventsIInv, Events!IndexesAgree
  <2>2. \A d \in Channel : handFilterIds'[d] = {g \in DOMAIN handFilters' : g[1] = d}
    BY <1>1, <1>3, <1>6 DEF EventsIInv, Events!IndexesAgree, Events!TypeOK, f
  <2>3. \A e \in Events!EventType : handOfType'[e] = Events!With(e)'
    BY <1>4, <1>6, <1>11 DEF EventsIInv, Events!IndexesAgree, Events!TypeOK
  <2>4. ASSUME NEW t \in WatchedTx
        PROVE  handOfTx'[t] = {g \in Events!With("TX_STATE_CHANGED")' : handFilters'[g].config[2] = t}
    <3>1. "TX_STATE_CHANGED" \in Events!EventType BY DEF Events!EventType
    <3>2. handOfTx[t] = {g \in Events!With("TX_STATE_CHANGED") : handFilters[g].config[2] = t}
      BY DEF EventsIInv, Events!IndexesAgree
    <3> QED BY <1>3, <1>5, <1>7, <1>11, <3>1, <3>2 DEF Events!With
  <2> QED BY <2>1, <2>2, <2>3, <2>4, <1>12 DEF Events!IndexesAgree
<1>14. EventsHaveChannels'
  BY <1>1, <1>3, <1>6, <1>8 DEF EventsIInv, EventsHaveChannels, f
<1>15. EventsChannelsOK' BY <1>6 DEF EventsIInv, EventsChannelsOK
<1>16. \/ handTimers' = handTimers /\ handCallback' = handCallback
       \/ handTimers' = Events!TimersWith(f, n) /\ handCallback' = [handCallback EXCEPT ![f] = n]
  BY DEF Events!Register, f, n
<1>17. EventsTimersOK'
  <2>1. \A t \in handTimers : t[1] # f
    BY <1>1 DEF EventsIInv, EventsTimersOK, f
  <2>2. <<f, n>>[1] = f /\ <<f, n>>[2] = n OBVIOUS
  <2>3. handCallback \in [EventFilter -> 0..MaxRegistrations] BY DEF EventsIInv, Events!TypeOK
  <2>4. \A t \in handTimers : t \in EventFilter \X (1..MaxRegistrations)
    BY DEF EventsIInv, Events!TypeOK
  <2> QED BY <1>1, <1>3, <1>5, <1>16, <2>1, <2>2, <2>3, <2>4
          DEF EventsIInv, EventsTimersOK, Events!TimersWith, f
<1>18. Events!TypeOK'
  <2>1. handTold' \in [EventFilter -> Events!TxState \cup {"none", "event", "deleted", "closed"}]
    BY <1>1, <1>4, <1>6 DEF Events!ToldAtFirst, EventsIInv, Events!TypeOK, f
  <2>2. /\ handTimers' \subseteq EventFilter \X (1..MaxRegistrations)
        /\ handCallback' \in [EventFilter -> 0..MaxRegistrations]
    BY <1>1, <1>2, <1>16 DEF Events!TimersWith, EventsIInv, Events!TypeOK, f
  <2>3. /\ DOMAIN handFilters' \subseteq EventFilter
        /\ \A g \in DOMAIN handFilters' : /\ handFilters'[g].config \in Events!Config
                                       /\ handFilters'[g].serial \in 1..MaxRegistrations
    BY <1>1, <1>2, <1>3, <1>5 DEF EventsIInv, Events!TypeOK, f
  <2>4. /\ handFilterIds' \in [Channel -> SUBSET EventFilter]
        /\ handChannelOf' \subseteq EventFilter
        /\ handOfType' \in [Events!EventType -> SUBSET EventFilter]
        /\ handOfTx' \in [WatchedTx -> SUBSET EventFilter]
    BY <1>1, <1>6, <1>7 DEF EventsIInv, Events!TypeOK, f
  <2>5. handSerial' \in 0..MaxRegistrations
    BY <1>2
  <2> QED BY <1>6, <2>1, <2>2, <2>3, <2>4, <2>5 DEF EventsIInv, Events!TypeOK
<1>19. Events!ToldIsCurrent'
  <2> DEFINE W == Events!With("TX_STATE_CHANGED")
  <2>1. W' = IF k[1] = "TX_STATE_CHANGED" THEN W \cup {f} ELSE W
    BY <1>11 DEF Events!EventType
  <2>2. ASSUME NEW g \in W, g # f
        PROVE  /\ handTold'[g] = handTxState'[handFilters'[g].config[2]]
               /\ handTxState'[handFilters'[g].config[2]] = "none" => <<g, handFilters'[g].serial>> \in handTimers'
    <3>1. handFilters'[g] = handFilters[g] /\ handTold'[g] = handTold[g] /\ handTxState' = handTxState
      BY <1>3, <1>6, <2>2 DEF Events!With, EventsIInv, Events!TypeOK
    <3>2. \A m : <<g, m>> \in handTimers => <<g, m>> \in handTimers'
      BY <1>16, <2>2 DEF Events!TimersWith
    <3> QED BY <3>1, <3>2 DEF EventsIInv, Events!ToldIsCurrent
  <2>3. CASE k[1] = "TX_STATE_CHANGED"
    <3>1. handTold'[f] = handTxState[k[2]]
      BY <1>1, <1>6, <2>3 DEF Events!ToldAtFirst, EventsIInv, Events!TypeOK, f
    <3>2. handTxState[k[2]] = "none" => <<f, n>> \in handTimers'
      BY <2>3 DEF Events!Register, Events!TimersWith, f, n
    <3> QED BY <1>3, <1>5, <1>6, <2>1, <2>2, <3>1, <3>2 DEF Events!ToldIsCurrent
  <2>4. CASE k[1] # "TX_STATE_CHANGED"
    <3>1. W' = W /\ f \notin W
      BY <1>1, <2>1, <2>4 DEF Events!With, f
    <3> QED BY <2>2, <3>1 DEF Events!ToldIsCurrent
  <2> QED BY <2>3, <2>4
<1> QED BY <1>10, <1>13, <1>14, <1>15, <1>17, <1>18, <1>19 DEF EventsIInv

\* The filters of S are gone and all that is known of the others is as before.
EventsRemoved(S) ==
  /\ DOMAIN handFilters' = DOMAIN handFilters \ S
  /\ \A g \in DOMAIN handFilters' : handFilters'[g] = handFilters[g]
  /\ EventsTreeOK' /\ Events!IndexesAgree' /\ EventsTimersOK'
  /\ \A g \in DOMAIN handFilters' : \A m : <<g, m>> \in handTimers => <<g, m>> \in handTimers'
  /\ handFilterIds' \in [Channel -> SUBSET EventFilter]
  /\ handChannelOf' \subseteq EventFilter
  /\ handOfType' \in [Events!EventType -> SUBSET EventFilter]
  /\ handOfTx' \in [WatchedTx -> SUBSET EventFilter]
  /\ handTimers' \subseteq EventFilter \X (1..MaxRegistrations)
  /\ handCallback' \in [EventFilter -> 0..MaxRegistrations]

\* deregisterFilter takes each of the filters out of all that knows it, and leaves
\* the others as they are.
LEMMA EventsRemoving ==
  ASSUME Events!EventHandlerAssumption, EventsIInv, NEW S, S \subseteq DOMAIN handFilters, Events!Deregister(S)
  PROVE  EventsRemoved(S)
<1>1. /\ DOMAIN handFilters' = DOMAIN handFilters \ S
      /\ \A g \in DOMAIN handFilters' : handFilters'[g] = handFilters[g]
  BY DEF Events!Deregister, Events!Without
<1>2. /\ handFilterIds' = [c \in Channel |-> handFilterIds[c] \ S]
      /\ handChannelOf' = handChannelOf \ S
      /\ handOfType' = [e \in Events!EventType |-> handOfType[e] \ S]
      /\ handOfTx' = [t \in WatchedTx |-> handOfTx[t] \ S]
      /\ handTimers' = handTimers \ {<<f, handCallback[f]>> : f \in S}
      /\ handCallback' = [f \in EventFilter |-> IF f \in S THEN 0 ELSE handCallback[f]]
      /\ Events!DeregisterEventFilterIds(S \cap DOMAIN handParsed)
  BY DEF Events!Deregister, Events!OfTxAfter, Events!TimersAfter
<1>3. EventsTreeOK'
  BY <1>2, EventsTreeDeregisters DEF EventsIInv
<1>4. \A e \in Events!EventType : Events!With(e)' = Events!With(e) \ S
  BY <1>1 DEF Events!With
<1>5. handParsed' = [g \in Events!With("VALUE_CHANGED")' |-> handFilters'[g].config[2]]
  <2>1. handParsed = [g \in Events!With("VALUE_CHANGED") |-> handFilters[g].config[2]]
    BY DEF EventsIInv, Events!IndexesAgree
  <2>2. handParsed' = [g \in DOMAIN handParsed \ (S \cap DOMAIN handParsed) |-> handParsed[g]]
    BY <1>2 DEF Events!DeregisterEventFilterIds, Events!Without
  <2>3. Events!With("VALUE_CHANGED")' = Events!With("VALUE_CHANGED") \ S
    BY <1>4 DEF Events!EventType
  <2>4. \A g \in Events!With("VALUE_CHANGED")' : handFilters'[g] = handFilters[g]
    BY <1>1 DEF Events!With
  <2> QED BY <2>1, <2>2, <2>3, <2>4
<1>6. Events!IndexesAgree'
  <2>1. handChannelOf' = DOMAIN handFilters'
    BY <1>1, <1>2 DEF EventsIInv, Events!IndexesAgree
  <2>2. \A d \in Channel : handFilterIds'[d] = {g \in DOMAIN handFilters' : g[1] = d}
    BY <1>1, <1>2 DEF EventsIInv, Events!IndexesAgree
  <2>3. \A e \in Events!EventType : handOfType'[e] = Events!With(e)'
    BY <1>2, <1>4 DEF EventsIInv, Events!IndexesAgree
  <2>4. ASSUME NEW t \in WatchedTx
        PROVE  handOfTx'[t] = {g \in Events!With("TX_STATE_CHANGED")' : handFilters'[g].config[2] = t}
    <3>1. handOfTx[t] = {g \in Events!With("TX_STATE_CHANGED") : handFilters[g].config[2] = t}
      BY DEF EventsIInv, Events!IndexesAgree
    <3>2. "TX_STATE_CHANGED" \in Events!EventType BY DEF Events!EventType
    <3> QED BY <1>1, <1>2, <1>4, <3>1, <3>2 DEF Events!With
  <2> QED BY <1>5, <2>1, <2>2, <2>3, <2>4 DEF Events!IndexesAgree
<1>7. EventsTimersOK'
  <2> SUFFICES ASSUME NEW t \in handTimers'
               PROVE  /\ t[1] \in DOMAIN handFilters'
                      /\ handFilters'[t[1]].serial = t[2]
                      /\ handCallback'[t[1]] = t[2]
    BY DEF EventsTimersOK
  <2>1. t \in handTimers /\ t \in EventFilter \X (1..MaxRegistrations)
    BY <1>2 DEF EventsIInv, Events!TypeOK
  <2>2. t = <<t[1], t[2]>> /\ t[1] \in EventFilter
    BY <2>1
  <2>3. t[1] \in DOMAIN handFilters /\ handFilters[t[1]].serial = t[2] /\ handCallback[t[1]] = t[2]
    BY <2>1 DEF EventsIInv, EventsTimersOK
  <2>4. t[1] \notin S
    BY <1>2, <2>2, <2>3
  <2> QED BY <1>1, <1>2, <2>2, <2>3, <2>4
<1>8. \A g \in DOMAIN handFilters' : \A m : <<g, m>> \in handTimers => <<g, m>> \in handTimers'
  BY <1>1, <1>2
<1>9. /\ handFilterIds' \in [Channel -> SUBSET EventFilter]
      /\ handChannelOf' \subseteq EventFilter
      /\ handOfType' \in [Events!EventType -> SUBSET EventFilter]
      /\ handOfTx' \in [WatchedTx -> SUBSET EventFilter]
      /\ handTimers' \subseteq EventFilter \X (1..MaxRegistrations)
  BY <1>2 DEF EventsIInv, Events!TypeOK
<1>10. handCallback' \in [EventFilter -> 0..MaxRegistrations]
  BY <1>2 DEF EventsIInv, Events!TypeOK, Events!EventHandlerAssumption
<1> QED BY <1>1, <1>3, <1>6, <1>7, <1>8, <1>9, <1>10 DEF EventsRemoved

\* A filter that stays waits on or was told: only what is said of those that go,
\* and the transaction they were for, may change.
LEMMA EventsStaying ==
  ASSUME EventsIInv, DOMAIN handFilters' \subseteq DOMAIN handFilters,
         \A g \in DOMAIN handFilters' : handFilters'[g] = handFilters[g],
         \A g \in DOMAIN handFilters' : \A m : <<g, m>> \in handTimers => <<g, m>> \in handTimers',
         \A g \in Events!With("TX_STATE_CHANGED")' :
           handTold'[g] = handTold[g] /\ handTxState'[handFilters[g].config[2]] = handTxState[handFilters[g].config[2]]
  PROVE  Events!ToldIsCurrent'
<1> SUFFICES ASSUME NEW g \in Events!With("TX_STATE_CHANGED")'
             PROVE  /\ handTold'[g] = handTxState'[handFilters'[g].config[2]]
                    /\ handTxState'[handFilters'[g].config[2]] = "none" => <<g, handFilters'[g].serial>> \in handTimers'
  BY DEF Events!ToldIsCurrent
<1>1. g \in DOMAIN handFilters' /\ handFilters'[g] = handFilters[g] /\ g \in Events!With("TX_STATE_CHANGED")
  BY DEF Events!With
<1>2. /\ handTold[g] = handTxState[handFilters[g].config[2]]
      /\ handTxState[handFilters[g].config[2]] = "none" => <<g, handFilters[g].serial>> \in handTimers
  BY <1>1 DEF EventsIInv, Events!ToldIsCurrent
<1> QED BY <1>1, <1>2

-----------------------------------------------------------------------------
(* The steps                                                               *)

\* What has to do with the tree and the indexes only.
LEMMA EventsKeeping ==
  ASSUME EventsIInv, UNCHANGED <<Events!treeVars, handFilters, handFilterIds, handChannelOf, handOfType, handOfTx>>
  PROVE  EventsTreeOK' /\ Events!IndexesAgree'
<1>1. UNCHANGED <<handNodes, handEvents, handParsed>>
  BY DEF Events!treeVars
<1>2. EventsTreeOK' BY <1>1 DEF EventsIInv, EventsTreeOK
<1>3. \A e : Events!With(e)' = Events!With(e) BY DEF Events!With
<1>4. handParsed' = [f \in Events!With("VALUE_CHANGED")' |-> handFilters'[f].config[2]]
  BY <1>1, <1>3 DEF EventsIInv, Events!IndexesAgree
<1>5. \A t \in WatchedTx : handOfTx'[t] = {f \in Events!With("TX_STATE_CHANGED")' : handFilters'[f].config[2] = t}
  BY <1>3 DEF EventsIInv, Events!IndexesAgree
<1>6. \A e \in Events!EventType : handOfType'[e] = Events!With(e)'
  BY <1>3 DEF EventsIInv, Events!IndexesAgree
<1>7. /\ handChannelOf' = DOMAIN handFilters'
      /\ \A c \in Channel : handFilterIds'[c] = {f \in DOMAIN handFilters' : f[1] = c}
  BY DEF EventsIInv, Events!IndexesAgree
<1> QED BY <1>2, <1>4, <1>5, <1>6, <1>7 DEF Events!IndexesAgree

\* A filter goes when its client or its timeout says so.
LEMMA EventsOneGoes ==
  ASSUME Events!EventHandlerAssumption, EventsIInv, NEW f \in EventFilter,
         Events!Deregister({f} \cap DOMAIN handFilters),
         handTold' = [handTold EXCEPT ![f] = "deleted"],
         UNCHANGED <<handChannels, handSocket, handIsAlive, handSilent, handTxState, handSerial>>
  PROVE  EventsIInv'
<1> DEFINE S == {f} \cap DOMAIN handFilters
<1>1. Events!Deregister(S) /\ S \subseteq DOMAIN handFilters OBVIOUS
<1>2. f \notin DOMAIN handFilters \ S OBVIOUS
<1> HIDE DEF S
<1>3. EventsRemoved(S) BY <1>1, EventsRemoving
<1>4. Events!ToldIsCurrent'
  <2>1. \A g \in Events!With("TX_STATE_CHANGED")' : handTold'[g] = handTold[g]
    BY <1>2, <1>3 DEF Events!With, EventsRemoved, EventsIInv, Events!TypeOK
  <2> QED BY <1>3, <2>1, EventsStaying DEF EventsRemoved
<1>5. EventsChannelsOK' /\ EventsHaveChannels'
  BY <1>3 DEF EventsRemoved, EventsIInv, EventsChannelsOK, EventsHaveChannels
<1>6. Events!TypeOK'
  BY <1>3 DEF EventsRemoved, EventsIInv, Events!TypeOK
<1> QED BY <1>3, <1>4, <1>5, <1>6 DEF EventsRemoved, EventsIInv

\* A transaction changes its state: with an end state its filters go, otherwise
\* their clients are told, which have a channel.
LEMMA EventsEmitting ==
  ASSUME Events!EventHandlerAssumption, EventsIInv, NEW t \in WatchedTx, NEW after \in Reported,
         Events!EmitTxStateChanged(t, after)
  PROVE  EventsIInv'
<1>1. /\ handTxState' = [handTxState EXCEPT ![t] = after]
      /\ UNCHANGED <<handChannels, handSocket, handIsAlive, handSilent, handSerial>>
  BY DEF Events!EmitTxStateChanged
<1>2. after \in Events!TxState /\ after # "none"
  BY DEF Events!EventHandlerAssumption, Events!TxState, Events!EndState
<1>3. handOfTx[t] = {g \in Events!With("TX_STATE_CHANGED") : handFilters[g].config[2] = t}
  BY DEF EventsIInv, Events!IndexesAgree
<1>4. handOfTx[t] \subseteq DOMAIN handFilters
  BY <1>3 DEF Events!With
<1>5. handTxState' \in [WatchedTx -> Events!TxState \cup {"none"}]
  BY <1>1, <1>2 DEF EventsIInv, Events!TypeOK
<1>6. \A g \in Events!With("TX_STATE_CHANGED") : handFilters[g].config[2] \in WatchedTx
  BY EventsConfigs DEF Events!With, EventsIInv, Events!TypeOK
<1>7. \A g \in Events!With("TX_STATE_CHANGED") \ handOfTx[t] :
         handTxState'[handFilters[g].config[2]] = handTxState[handFilters[g].config[2]]
  BY <1>1, <1>3, <1>6 DEF EventsIInv, Events!TypeOK
<1>8. CASE after \in Events!EndState
  <2>1. /\ Events!Deregister(handOfTx[t])
        /\ handTold' = [f \in EventFilter |-> IF f \in handOfTx[t] THEN "deleted" ELSE handTold[f]]
    BY <1>8 DEF Events!EmitTxStateChanged
  <2>2. EventsRemoved(handOfTx[t])
    BY <1>4, <2>1, EventsRemoving
  <2>3. Events!ToldIsCurrent'
    <3>1. Events!With("TX_STATE_CHANGED")' = Events!With("TX_STATE_CHANGED") \ handOfTx[t]
      BY <2>2 DEF EventsRemoved, Events!With
    <3>2. Events!With("TX_STATE_CHANGED") \subseteq EventFilter
      BY DEF Events!With, EventsIInv, Events!TypeOK
    <3>3. \A g \in Events!With("TX_STATE_CHANGED")' :
             handTold'[g] = handTold[g] /\ handTxState'[handFilters[g].config[2]] = handTxState[handFilters[g].config[2]]
      BY <1>7, <2>1, <3>1, <3>2
    <3> QED BY <2>2, <3>3, EventsStaying DEF EventsRemoved
  <2>4. EventsChannelsOK' /\ EventsHaveChannels'
    BY <1>1, <2>2 DEF EventsRemoved, EventsIInv, EventsChannelsOK, EventsHaveChannels
  <2>5. handTold' \in [EventFilter -> Events!TxState \cup {"none", "event", "deleted", "closed"}]
    BY <2>1 DEF EventsIInv, Events!TypeOK
  <2>6. Events!TypeOK'
    BY <1>1, <1>5, <2>2, <2>5 DEF EventsRemoved, EventsIInv, Events!TypeOK
  <2> QED BY <2>2, <2>3, <2>4, <2>6 DEF EventsRemoved, EventsIInv
<1>9. CASE after \notin Events!EndState
  <2>1. /\ handTimers' = handTimers \ {<<f, handCallback[f]>> : f \in handOfTx[t]}
        /\ handTold' = Events!Transmitted(handOfTx[t], after)
        /\ UNCHANGED <<Events!treeVars, handFilters, handFilterIds, handChannelOf, handOfType, handOfTx, handCallback>>
    BY <1>9 DEF Events!EmitTxStateChanged
  <2>2. EventsTreeOK' /\ EventsChannelsOK' /\ EventsHaveChannels' /\ Events!IndexesAgree'
    BY <1>1, <2>1, EventsKeeping DEF EventsIInv, EventsChannelsOK, EventsHaveChannels
  <2>3. EventsTimersOK'
    BY <2>1 DEF EventsIInv, EventsTimersOK
  <2>4. handTold' \in [EventFilter -> Events!TxState \cup {"none", "event", "deleted", "closed"}]
    BY <1>2, <2>1 DEF Events!Transmitted, EventsIInv, Events!TypeOK
  <2>5. Events!TypeOK'
    BY <1>1, <1>5, <2>1, <2>4 DEF EventsIInv, Events!TypeOK
  <2>6. Events!ToldIsCurrent'
    <3> SUFFICES ASSUME NEW g \in Events!With("TX_STATE_CHANGED")
                 PROVE  /\ handTold'[g] = handTxState'[handFilters[g].config[2]]
                        /\ handTxState'[handFilters[g].config[2]] = "none" =>
                             <<g, handFilters[g].serial>> \in handTimers'
      BY <2>1 DEF Events!ToldIsCurrent, Events!With
    <3>1. g \in DOMAIN handFilters /\ g \in EventFilter
      BY DEF Events!With, EventsIInv, Events!TypeOK
    <3>2. /\ handTold[g] = handTxState[handFilters[g].config[2]]
          /\ handTxState[handFilters[g].config[2]] = "none" => <<g, handFilters[g].serial>> \in handTimers
      BY DEF EventsIInv, Events!ToldIsCurrent
    <3>3. CASE g \in handOfTx[t]
      <4>1. g \in handChannelOf /\ g[1] \in handChannels
        BY <3>1 DEF EventsIInv, Events!IndexesAgree, EventsHaveChannels
      <4>2. handTold'[g] = after
        BY <2>1, <3>1, <3>3, <4>1 DEF Events!Transmitted
      <4>3. handTxState'[handFilters[g].config[2]] = after
        BY <1>1, <1>3, <3>3 DEF EventsIInv, Events!TypeOK
      <4> QED BY <1>2, <4>2, <4>3
    <3>4. CASE g \notin handOfTx[t]
      <4>1. handTold'[g] = handTold[g]
        BY <2>1, <3>1, <3>4 DEF Events!Transmitted
      <4>2. \A m : <<g, m>> \in handTimers => <<g, m>> \in handTimers'
        BY <2>1, <3>4
      <4> QED BY <1>7, <3>2, <3>4, <4>1, <4>2
    <3> QED BY <3>3, <3>4
  <2> QED BY <2>2, <2>3, <2>5, <2>6 DEF EventsIInv
<1> QED BY <1>8, <1>9

\* closeChannel takes all filters of the channel along.
LEMMA EventsClosing ==
  ASSUME Events!EventHandlerAssumption, EventsIInv, NEW c \in Channel,
         NEW state \in {"closed", "terminated"}, Events!CloseChannel(c, state)
  PROVE  EventsIInv'
<1>1. /\ Events!Deregister(handFilterIds[c])
      /\ handChannels' = handChannels \ {c}
      /\ handSocket' = [handSocket EXCEPT ![c] = state]
      /\ handTold' = [f \in EventFilter |-> IF f \in handFilterIds[c] THEN "closed" ELSE handTold[f]]
      /\ UNCHANGED <<handIsAlive, handSilent, handTxState, handSerial>>
  BY DEF Events!CloseChannel
<1>2. handFilterIds[c] = {f \in DOMAIN handFilters : f[1] = c}
  BY DEF EventsIInv, Events!IndexesAgree
<1>3. EventsRemoved(handFilterIds[c])
  <2>1. handFilterIds[c] \subseteq DOMAIN handFilters BY <1>2
  <2> QED BY <1>1, <2>1, EventsRemoving
<1>4. Events!ToldIsCurrent'
  <2>1. \A g \in Events!With("TX_STATE_CHANGED")' : handTold'[g] = handTold[g]
    BY <1>1, <1>3 DEF EventsRemoved, Events!With, EventsIInv, Events!TypeOK
  <2> QED BY <1>1, <1>3, <2>1, EventsStaying DEF EventsRemoved
<1>5. EventsChannelsOK'
  BY <1>1 DEF EventsIInv, EventsChannelsOK, Events!TypeOK
<1>6. EventsHaveChannels'
  BY <1>1, <1>2, <1>3 DEF EventsRemoved, EventsIInv, EventsHaveChannels
<1>7. Events!TypeOK'
  <2>1. handTold' \in [EventFilter -> Events!TxState \cup {"none", "event", "deleted", "closed"}]
    BY <1>1 DEF EventsIInv, Events!TypeOK
  <2>2. handChannels' \subseteq Channel /\ handSocket' \in [Channel -> {"new", "open", "terminated", "closed"}]
    BY <1>1 DEF EventsIInv, Events!TypeOK
  <2> QED BY <1>1, <1>3, <2>1, <2>2 DEF EventsRemoved, EventsIInv, Events!TypeOK
<1> QED BY <1>3, <1>4, <1>5, <1>6, <1>7 DEF EventsRemoved, EventsIInv

\* Events that are sent tell nothing of a transaction.
LEMMA EventsSending ==
  ASSUME Events!EventHandlerAssumption, EventsIInv, NEW S, S \cap Events!With("TX_STATE_CHANGED") = {},
         handTold' = Events!Transmitted(S, "event"),
         UNCHANGED <<Events!treeVars, handChannels, handSocket, handIsAlive, handSilent, handFilters, handFilterIds, handChannelOf,
                     handOfType, handOfTx, handCallback, handTimers, handTxState, handSerial>>
  PROVE  EventsIInv'
<1>1. EventsTreeOK' /\ EventsChannelsOK' /\ EventsHaveChannels' /\ Events!IndexesAgree' /\ EventsTimersOK'
  BY EventsKeeping DEF EventsIInv, EventsChannelsOK, EventsHaveChannels, EventsTimersOK
<1>2. handTold' \in [EventFilter -> Events!TxState \cup {"none", "event", "deleted", "closed"}]
  BY DEF Events!Transmitted, EventsIInv, Events!TypeOK
<1>3. Events!TypeOK' BY <1>2 DEF EventsIInv, Events!TypeOK
<1>4. Events!With("TX_STATE_CHANGED")' = Events!With("TX_STATE_CHANGED")
  BY DEF Events!With
<1>5. Events!With("TX_STATE_CHANGED") \subseteq EventFilter
  BY DEF Events!With, EventsIInv, Events!TypeOK
<1>6. \A g \in Events!With("TX_STATE_CHANGED") : handTold'[g] = handTold[g]
  BY <1>5 DEF Events!Transmitted
<1>7. Events!ToldIsCurrent'
  BY <1>4, <1>6 DEF EventsIInv, Events!ToldIsCurrent
<1> QED BY <1>1, <1>3, <1>7 DEF EventsIInv

\* The steps of channels that touch no filter.
LEMMA EventsOnlyChannels ==
  ASSUME EventsIInv, EventsChannelsOK', handChannels \subseteq handChannels',
         handChannels' \subseteq Channel, handSilent' \subseteq Channel,
         handSocket' \in [Channel -> {"new", "open", "terminated", "closed"}],
         handIsAlive' \in [Channel -> BOOLEAN],
         UNCHANGED <<Events!treeVars, handFilters, handFilterIds, handChannelOf, handOfType, handOfTx,
                     handCallback, handTimers, handTxState, handTold, handSerial>>
  PROVE  EventsIInv'
<1>1. EventsTreeOK' /\ Events!IndexesAgree' BY EventsKeeping
<1>2. EventsHaveChannels' /\ EventsTimersOK'
  BY DEF EventsIInv, EventsHaveChannels, EventsTimersOK
<1>3. Events!ToldIsCurrent'
  <2>1. Events!With("TX_STATE_CHANGED")' = Events!With("TX_STATE_CHANGED") BY DEF Events!With
  <2> QED BY <2>1 DEF EventsIInv, Events!ToldIsCurrent
<1>4. Events!TypeOK' BY DEF EventsIInv, Events!TypeOK
<1> QED BY <1>1, <1>2, <1>3, <1>4 DEF EventsIInv

\* No channel, no filter and no transaction at first.
LEMMA EventsStarting == ASSUME Events!EventHandlerAssumption PROVE Events!Init => EventsIInv
<1> SUFFICES ASSUME Events!Init PROVE EventsIInv OBVIOUS
<1>1. \A e : Events!With(e) = {} BY DEF Events!Init, Events!With
<1>2. Events!TypeOK BY DEF Events!Init, Events!TypeOK, Events!EventHandlerAssumption
<1>3. EventsTreeOK /\ EventsChannelsOK /\ EventsHaveChannels /\ EventsTimersOK
  BY DEF Events!Init, Events!InitTree, EventsTreeOK, EventsChannelsOK, EventsHaveChannels, EventsTimersOK
<1>4. Events!ToldIsCurrent BY <1>1 DEF Events!ToldIsCurrent
<1>5. Events!IndexesAgree
  <2>1. DOMAIN handFilters = {} /\ handParsed = <<>> BY DEF Events!Init, Events!InitTree
  <2>2. handParsed = [f \in Events!With("VALUE_CHANGED") |-> handFilters[f].config[2]]
    BY <1>1, <2>1
  <2> QED BY <1>1, <2>1, <2>2 DEF Events!Init, Events!IndexesAgree
<1> QED BY <1>2, <1>3, <1>4, <1>5 DEF EventsIInv

\* Every step keeps the invariant.
LEMMA EventsSteps == ASSUME Events!EventHandlerAssumption PROVE EventsIInv /\ [Events!Next]_Events!vars => EventsIInv'
<1> SUFFICES ASSUME EventsIInv, [Events!Next]_Events!vars PROVE EventsIInv' OBVIOUS
<1>1. ASSUME NEW c \in Channel, Events!Connect(c) PROVE EventsIInv'
  <2>1. EventsChannelsOK'
    BY <1>1 DEF Events!Connect, EventsIInv, EventsChannelsOK, Events!TypeOK
  <2>2. /\ handChannels \subseteq handChannels' /\ handChannels' \subseteq Channel
        /\ handSocket' \in [Channel -> {"new", "open", "terminated", "closed"}]
    BY <1>1 DEF Events!Connect, EventsIInv, Events!TypeOK
  <2> QED BY <1>1, <2>1, <2>2, EventsOnlyChannels DEF Events!Connect, EventsIInv, Events!TypeOK
<1>2. ASSUME NEW c \in Channel, Events!SocketCloses(c) PROVE EventsIInv'
  BY <1>2, EventsClosing DEF Events!SocketCloses
<1>3. ASSUME NEW c \in Channel, Events!IdleCheck(c) PROVE EventsIInv'
  BY <1>3, EventsClosing DEF Events!IdleCheck
<1>4. ASSUME NEW c \in Channel, Events!FallsSilent(c) PROVE EventsIInv'
  BY <1>4, EventsOnlyChannels DEF Events!FallsSilent, EventsIInv, Events!TypeOK, EventsChannelsOK
<1>5. ASSUME NEW c \in Channel, Events!HandlePong(c) PROVE EventsIInv'
  BY <1>5, EventsOnlyChannels DEF Events!HandlePong, EventsIInv, Events!TypeOK, EventsChannelsOK
<1>6. ASSUME NEW c \in Channel, NEW id \in ClientFilterId, NEW k \in Events!Config, Events!Register(c, id, k)
      PROVE  EventsIInv'
  BY <1>6, EventsRegistering
<1>7. ASSUME NEW c \in Channel, NEW id \in ClientFilterId, Events!DeregisterByUser(c, id)
      PROVE  EventsIInv'
  <2>1. <<c, id>> \in EventFilter BY EventsIds
  <2> QED BY <1>7, <2>1, EventsOneGoes DEF Events!DeregisterByUser
<1>8. ASSUME NEW f \in EventFilter, NEW n \in 1..MaxRegistrations, Events!FilterTimesOut(f, n)
      PROVE  EventsIInv'
  BY <1>8, EventsOneGoes DEF Events!FilterTimesOut
<1>9. ASSUME NEW t \in WatchedTx, NEW after \in Reported, Events!EmitTxStateChanged(t, after)
      PROVE  EventsIInv'
  BY <1>9, EventsEmitting
<1>10. CASE Events!EmitBlockFinalized
  <2>1. handOfType["BLOCK_FINALIZED"] = Events!With("BLOCK_FINALIZED")
    BY DEF EventsIInv, Events!IndexesAgree, Events!EventType
  <2>2. handOfType["BLOCK_FINALIZED"] \cap Events!With("TX_STATE_CHANGED") = {}
    BY <2>1 DEF Events!With
  <2> QED BY <1>10, <2>2, EventsSending DEF Events!EmitBlockFinalized
<1>11. ASSUME NEW v \in ValuePath, Events!EmitValueChanged(v) PROVE EventsIInv'
  <2>1. Events!MatchEventFilterPath(v) \subseteq DOMAIN handParsed
    BY EventsMatching DEF EventsIInv, Events!MatchedIsRegistered
  <2>2. DOMAIN handParsed = Events!With("VALUE_CHANGED")
    BY DEF EventsIInv, Events!IndexesAgree
  <2>3. Events!MatchEventFilterPath(v) \cap Events!With("TX_STATE_CHANGED") = {}
    BY <2>1, <2>2 DEF Events!With
  <2> QED BY <1>11, <2>3, EventsSending DEF Events!EmitValueChanged
<1>12. CASE Events!Heartbeat
  <2>1. /\ handIsAlive' \in [Channel -> BOOLEAN]
        /\ handSocket' \in [Channel -> {"new", "open", "terminated", "closed"}]
    BY <1>12 DEF Events!Heartbeat, Events!AliveAfterPing, EventsIInv, Events!TypeOK
  <2>2. EventsChannelsOK'
    BY <1>12 DEF Events!Heartbeat, EventsIInv, EventsChannelsOK, Events!TypeOK
  <2> QED BY <1>12, <2>1, <2>2, EventsOnlyChannels DEF Events!Heartbeat, EventsIInv, Events!TypeOK
<1>13. CASE UNCHANGED Events!vars
  BY <1>13, EventsOnlyChannels DEF Events!vars, Events!handlerVars, EventsIInv, Events!TypeOK, EventsChannelsOK
<1> QED BY <1>1, <1>2, <1>3, <1>4, <1>5, <1>6, <1>7, <1>8, <1>9, <1>10, <1>11, <1>12, <1>13 DEF Events!Next

\* A timeout only ever removes the registration it was set for.
LEMMA EventsTimers == EventsIInv => Events!TimersAreCurrent
<1> SUFFICES ASSUME EventsIInv, NEW f \in EventFilter, NEW n \in 1..MaxRegistrations, <<f, n>> \in handTimers
             PROVE  f \in DOMAIN handFilters /\ handFilters[f].serial = n
  BY DEF Events!TimersAreCurrent
<1>1. <<f, n>>[1] = f /\ <<f, n>>[2] = n OBVIOUS
<1> QED BY <1>1 DEF EventsIInv, EventsTimersOK

-----------------------------------------------------------------------------
(* The tree keeps no empty node.                                           *)

EventsIsPath(p) == p \in Seq(Events!Range(p)) /\ p # <<>>

\* Every node leads to an event node, and every event node has a filter.
EventsTightOK ==
  /\ \A p \in handNodes : Events!WaysTo(p) \subseteq handNodes /\ \E q \in DOMAIN handEvents : p \in Events!WaysTo(q)
  /\ \A p \in DOMAIN handEvents : handEvents[p] # {}

\* The ways to a path are paths, and its beginnings.
LEMMA EventsWaysArePaths ==
  ASSUME NEW q, EventsIsPath(q), NEW p \in Events!WaysTo(q)
  PROVE  /\ EventsIsPath(p)
         /\ Events!WaysTo(p) \subseteq Events!WaysTo(q)
         /\ p = q \/ Events!IsStrictPrefix(p, q)
<1>1. PICK l \in 0 .. Len(q) : p = SubSeq(q, 1, l)
  BY DEF Events!WaysTo, Events!Prefixes
<1>2. q \in Seq(Events!Range(q)) /\ Len(q) \in Nat
  BY DEF EventsIsPath
<1>3. /\ p \in Seq(Events!Range(q)) /\ Len(p) = l /\ p # <<>>
      /\ \A i \in 1 .. l : p[i] = q[i]
  BY <1>1, <1>2 DEF Events!WaysTo
<1>4. p \in Seq(Events!Range(p))
  <2>1. \A i \in 1 .. Len(p) : p[i] \in Events!Range(p)
    BY <1>3 DEF Events!Range
  <2> QED BY <1>3, <2>1
<1>5. SubSeq(p, 1, Len(p)) = SubSeq(q, 1, Len(p))
  BY <1>1, <1>2, <1>3
<1>6. ASSUME NEW k \in 0 .. Len(p) PROVE SubSeq(p, 1, k) = SubSeq(q, 1, k)
  BY <1>1, <1>2, <1>3
<1>7. Events!Prefixes(p) \subseteq Events!Prefixes(q)
  BY <1>2, <1>3, <1>6 DEF Events!Prefixes
<1>8. Len(p) <= Len(q) BY <1>2, <1>3
<1> QED BY <1>3, <1>4, <1>5, <1>7, <1>8 DEF EventsIsPath, Events!WaysTo, Events!IsStrictPrefix, Events!IsPrefix

\* A beginning of a path is a way to it.
LEMMA EventsBeginningIsWay ==
  ASSUME NEW p, NEW r, EventsIsPath(p), EventsIsPath(r), p = r \/ Events!IsStrictPrefix(p, r)
  PROVE  p \in Events!WaysTo(r)
<1>1. /\ p \in Seq(Events!Range(p)) /\ r \in Seq(Events!Range(r)) /\ p # <<>>
      /\ Len(p) \in Nat /\ Len(r) \in Nat
  BY DEF EventsIsPath
<1>2. SubSeq(p, 1, Len(p)) = p
  BY <1>1
<1>3. Len(p) \in 0 .. Len(r) /\ p = SubSeq(r, 1, Len(p))
  BY <1>1, <1>2 DEF Events!IsStrictPrefix, Events!IsPrefix
<1> QED BY <1>1, <1>3 DEF Events!WaysTo, Events!Prefixes

\* What is in the tree are paths.
LEMMA EventsNodesArePaths ==
  ASSUME Events!EventHandlerAssumption, EventsTreeOK, EventsTightOK
  PROVE  /\ \A p \in Pattern : EventsIsPath(p) /\ p \in Events!WaysTo(p)
         /\ \A p \in handNodes : EventsIsPath(p)
<1>1. \A p \in Pattern : EventsIsPath(p)
  BY DEF Events!EventHandlerAssumption, Events!PathsAreAssumed, EventsIsPath
<1> QED BY <1>1, EventsLastWay, EventsWaysArePaths DEF EventsTreeOK, EventsTightOK

\* registerEventFilterId adds the event node at the end of what it adds.
LEMMA EventsTightRegisters ==
  ASSUME Events!EventHandlerAssumption, EventsTreeOK, EventsTightOK, NEW f, NEW p \in Pattern,
         Events!RegisterEventFilterId(f, p)
  PROVE  EventsTightOK'
<1>1. /\ handNodes' = handNodes \cup Events!WaysTo(p)
      /\ DOMAIN handEvents' = DOMAIN handEvents \cup {p}
      /\ f \in handEvents'[p]
      /\ \A q \in DOMAIN handEvents : q # p => handEvents'[q] = handEvents[q]
  BY DEF Events!RegisterEventFilterId
<1>2. \A u \in Events!WaysTo(p) : Events!WaysTo(u) \subseteq Events!WaysTo(p)
  BY EventsNodesArePaths, EventsWaysArePaths
<1> QED BY <1>1, <1>2 DEF EventsTightOK

\* deregisterEventFilterId takes a node away with the last event node below it.
LEMMA EventsTightDeregisters ==
  ASSUME Events!EventHandlerAssumption, EventsTreeOK, EventsTightOK,
         NEW S, \A f \in S : handParsed[f] \in Pattern, Events!DeregisterEventFilterIds(S)
  PROVE  EventsTightOK'
<1> DEFINE visited == handNodes \cap UNION {Events!WaysTo(handParsed[f]) : f \in S}
<1>1. /\ DOMAIN handEvents' = DOMAIN handEvents \ visited
      /\ \A q \in DOMAIN handEvents' : handEvents'[q] = handEvents[q]
  BY DEF Events!DeregisterEventFilterIds, Events!EventsAfter, Events!Without
<1>2. handNodes' = {q \in handNodes : \E r \in handNodes \ visited : q = r \/ Events!IsStrictPrefix(q, r)}
  BY DEF Events!DeregisterEventFilterIds, Events!NodesAfter
<1>3. ASSUME NEW v \in visited PROVE Events!WaysTo(v) \subseteq visited
  <2>1. PICK f \in S : v \in Events!WaysTo(handParsed[f]) OBVIOUS
  <2>2. Events!WaysTo(v) \subseteq Events!WaysTo(handParsed[f])
    BY <2>1, EventsNodesArePaths, EventsWaysArePaths
  <2>3. Events!WaysTo(v) \subseteq handNodes BY DEF EventsTightOK
  <2> QED BY <2>2, <2>3
<1> HIDE DEF visited
<1>4. ASSUME NEW p \in handNodes'
      PROVE  Events!WaysTo(p) \subseteq handNodes' /\ \E q \in DOMAIN handEvents' : p \in Events!WaysTo(q)
  <2>1. PICK r \in handNodes \ visited : p \in handNodes /\ (p = r \/ Events!IsStrictPrefix(p, r))
    BY <1>2
  <2>2. EventsIsPath(p) /\ EventsIsPath(r) /\ p \in Events!WaysTo(r)
    BY <2>1, EventsNodesArePaths, EventsBeginningIsWay
  <2>3. Events!WaysTo(p) \subseteq Events!WaysTo(r)
    BY <2>2, EventsWaysArePaths
  <2>4. \A u \in Events!WaysTo(p) : u \in handNodes /\ (u = r \/ Events!IsStrictPrefix(u, r))
    BY <2>1, <2>2, <2>3, EventsWaysArePaths DEF EventsTightOK
  <2>5. PICK q \in DOMAIN handEvents : r \in Events!WaysTo(q)
    BY <2>1 DEF EventsTightOK
  <2>6. q \in handNodes /\ q \notin visited /\ EventsIsPath(q)
    BY <1>3, <2>1, <2>5, EventsNodesArePaths DEF EventsTreeOK
  <2>7. Events!WaysTo(r) \subseteq Events!WaysTo(q)
    BY <2>5, <2>6, EventsWaysArePaths
  <2> QED BY <1>1, <1>2, <2>1, <2>2, <2>4, <2>6, <2>7
<1> QED BY <1>1, <1>4 DEF EventsTightOK

\* Filters that are removed take their nodes with them.
LEMMA EventsTightRemoves ==
  ASSUME Events!EventHandlerAssumption, EventsIInv, EventsTightOK, NEW S, Events!Deregister(S)
  PROVE  EventsTightOK'
<1>1. \A f \in DOMAIN handParsed : handParsed[f] \in Pattern
  BY EventsConfigs DEF EventsIInv, Events!IndexesAgree, Events!With, Events!TypeOK
<1> QED BY <1>1, EventsTightDeregisters DEF Events!Deregister, EventsIInv

\* Every step leaves the tree as it is, registers one path, or removes filters.
LEMMA EventsTightStarting == Events!Init => EventsTightOK
BY DEF Events!Init, Events!InitTree, EventsTightOK

\* Every step keeps the tree tight.
LEMMA EventsTightSteps ==
  ASSUME Events!EventHandlerAssumption PROVE EventsIInv /\ EventsTightOK /\ [Events!Next]_Events!vars => EventsTightOK'
<1> SUFFICES ASSUME EventsIInv, EventsTightOK, [Events!Next]_Events!vars PROVE EventsTightOK' OBVIOUS
<1>1. ASSUME UNCHANGED Events!treeVars PROVE EventsTightOK'
  BY <1>1 DEF Events!treeVars, EventsTightOK
<1>2. ASSUME NEW c \in Channel, NEW id \in ClientFilterId, NEW k \in Events!Config, Events!Register(c, id, k)
      PROVE  EventsTightOK'
  <2>1. CASE k[1] = "VALUE_CHANGED"
    <3>1. k[2] \in Pattern BY <2>1, EventsConfigs
    <3> QED BY <1>2, <2>1, <3>1, EventsTightRegisters DEF Events!Register, EventsIInv
  <2>2. CASE k[1] # "VALUE_CHANGED"
    BY <1>1, <1>2, <2>2 DEF Events!Register
  <2> QED BY <2>1, <2>2
<1>3. ASSUME NEW c \in Channel,
             Events!Connect(c) \/ Events!SocketCloses(c) \/ Events!IdleCheck(c) \/ Events!FallsSilent(c) \/ Events!HandlePong(c)
      PROVE  EventsTightOK'
  BY <1>1, <1>3, EventsTightRemoves
     DEF Events!Connect, Events!SocketCloses, Events!IdleCheck, Events!CloseChannel, Events!FallsSilent, Events!HandlePong
<1>4. ASSUME NEW c \in Channel, NEW id \in ClientFilterId, Events!DeregisterByUser(c, id)
      PROVE  EventsTightOK'
  BY <1>4, EventsTightRemoves DEF Events!DeregisterByUser
<1>5. ASSUME NEW f \in EventFilter, NEW n \in 1 .. MaxRegistrations, Events!FilterTimesOut(f, n)
      PROVE  EventsTightOK'
  BY <1>5, EventsTightRemoves DEF Events!FilterTimesOut
<1>6. ASSUME NEW t \in WatchedTx, NEW after \in Reported, Events!EmitTxStateChanged(t, after)
      PROVE  EventsTightOK'
  BY <1>1, <1>6, EventsTightRemoves DEF Events!EmitTxStateChanged
<1>7. CASE Events!EmitBlockFinalized \/ (\E v \in ValuePath : Events!EmitValueChanged(v)) \/ Events!Heartbeat
  BY <1>1, <1>7 DEF Events!EmitBlockFinalized, Events!EmitValueChanged, Events!Heartbeat
<1>8. CASE UNCHANGED Events!vars
  BY <1>1, <1>8 DEF Events!vars, Events!handlerVars
<1> QED BY <1>2, <1>3, <1>4, <1>5, <1>6, <1>7, <1>8 DEF Events!Next

\* What holds of the event handler: its indexes agree, filters have channels,
\* timeouts are current, clients were told, what matches is registered, and no empty
\* node stays in the tree.
LEMMA EventsAgreeing ==
  ASSUME Events!EventHandlerAssumption
  PROVE  EventsIInv /\ EventsTightOK => /\ Events!MatchedIsRegistered /\ Events!TreeIsTight /\ Events!IndexesAgree
                            /\ Events!FiltersHaveChannels /\ Events!TimersAreCurrent /\ Events!ToldIsCurrent
<1> SUFFICES ASSUME EventsIInv, EventsTightOK
             PROVE  /\ Events!MatchedIsRegistered /\ Events!TreeIsTight /\ Events!IndexesAgree
                    /\ Events!FiltersHaveChannels /\ Events!TimersAreCurrent /\ Events!ToldIsCurrent
  OBVIOUS
<1>1. \A p \in handNodes : \E q \in DOMAIN handEvents : q = p \/ Events!IsStrictPrefix(p, q)
  BY EventsNodesArePaths, EventsWaysArePaths DEF EventsIInv, EventsTreeOK, EventsTightOK
<1>2. Events!TreeIsTight BY <1>1 DEF EventsIInv, EventsTreeOK, EventsTightOK, Events!TreeIsTight
<1>3. Events!FiltersHaveChannels BY DEF EventsIInv, EventsHaveChannels, EventsChannelsOK, Events!FiltersHaveChannels
<1>4. Events!MatchedIsRegistered BY EventsMatching DEF EventsIInv
<1>5. Events!TimersAreCurrent BY EventsTimers
<1> QED BY <1>2, <1>3, <1>4, <1>5 DEF EventsIInv


-----------------------------------------------------------------------------
(* The sync of the chain: what is final only grows until a restart, what a *)
(* peer answers is at least what it had at the start, and an answer that   *)
(* is empty is to a request from above the last block of the peer.         *)

SyncAsked(l) == -1..l

SyncAnswers ==
  [from : 0..SyncMaxBlock + 1, to : -1..SyncMaxBlock, number : 0..SyncMaxBlock, tip : 0..SyncMaxBlock]

\* Every peer has the files from the genesis block on.
SyncAreWhole == \A p \in SyncPeer : SyncFirst[p] = 0

\* What an answer of p says to a node that has the blocks up to l
SyncAnswersOf(p, l) ==
  {r \in SyncAnswers :
     /\ r.number >= Syncing!FinalAfter(0, InitTip[p])
     /\ SyncAreWhole /\ Syncing!IsEmpty(r) => l >= r.number}

Syncs == {Syncing!NoPeer} \cup [peer : SyncPeer, lastBlockNumber : -2..SyncMaxBlock, fresh : BOOLEAN]

SyncWireOK ==
  /\ syncSync \in Syncs /\ syncOutbound \subseteq SyncPeer /\ syncAsleep \in Seq(SyncPeer)
  /\ syncReqs \in [SyncPeer -> Seq(SyncAsked(syncLast))]
  /\ syncResp \in [SyncPeer -> Seq(SyncAnswers)]
  /\ \A p \in SyncPeer : syncResp[p] \in Seq(SyncAnswersOf(p, syncLast))
  /\ syncTip \in [SyncPeer -> 0..SyncMaxBlock]
  /\ \A p \in SyncPeer : syncTip[p] >= InitTip[p]

\* A chain: the files and the block pool reach the last final block.
SyncChains ==
  {c \in [last : -1..SyncMaxBlock, notarized : -1..SyncMaxBlock, pool : -1..SyncMaxBlock,
          disk : -1..SyncMaxBlock] :
     c.last <= c.disk /\ c.last <= c.notarized /\ c.notarized <= c.pool}

SyncServingOK ==
  /\ syncState \in {"CHAIN_SYNCING", "SERVING"}
  /\ SyncAreWhole => Syncing!ServingIsSynced

SyncRequests == CountAll(syncReqs, SyncPeer, SyncAsked(SyncMaxBlock))
SyncReplies == CountAll(syncResp, SyncPeer, SyncAnswers)
SyncFewInFlight == SyncRequests + SyncReplies + Len(syncAsleep) <= MaxInFlight

SyncIInv == SyncWireOK /\ Syncing!Here \in SyncChains /\ SyncServingOK /\ SyncFewInFlight

-----------------------------------------------------------------------------
\* Max of a finite set of integers is its largest element.
LEMMA SyncLargestIs ==
  ASSUME NEW S, IsFiniteSet(S), S # {}, S \subseteq Int
  PROVE  Syncing!Max(S) \in S /\ \A x \in S : Syncing!Max(S) >= x
<1>1. \E m \in S : \A x \in S : m >= x BY LargestExists
<1> QED BY <1>1 DEF Syncing!Max

\* Max of two numbers (LastBlockNumber and the like).
LEMMA SyncLargerOf ==
  ASSUME NEW i \in Int, NEW j \in Int
  PROVE  Syncing!Max({i, j}) = IF i >= j THEN i ELSE j
<1>1. \E x \in {i, j} : \A y \in {i, j} : x >= y
  <2>1. CASE i >= j BY <2>1
  <2>2. CASE ~(i >= j) BY <2>2
  <2> QED BY <2>1, <2>2
<1>2. Syncing!Max({i, j}) \in {i, j} /\ \A y \in {i, j} : Syncing!Max({i, j}) >= y BY <1>1 DEF Syncing!Max
<1> QED BY <1>2

\* Min of two numbers.
LEMMA SyncSmallerOf ==
  ASSUME NEW i \in Int, NEW j \in Int
  PROVE  Syncing!Min({i, j}) = IF i <= j THEN i ELSE j
<1>1. \E x \in {i, j} : \A y \in {i, j} : x <= y
  <2>1. CASE i <= j BY <2>1
  <2>2. CASE ~(i <= j) BY <2>2
  <2> QED BY <2>1, <2>2
<1>2. Syncing!Min({i, j}) \in {i, j} /\ \A y \in {i, j} : Syncing!Min({i, j}) <= y BY <1>1 DEF Syncing!Min
<1> QED BY <1>2

\* Max of three numbers is one of them and no less than the others (mergeChainSegment).
LEMMA SyncLargestOfThree ==
  ASSUME NEW i \in Int, NEW j \in Int, NEW k \in Int
  PROVE  \E m \in {i, j, k} : /\ Syncing!Max({i, j, k}) = m
                              /\ m >= i /\ m >= j /\ m >= k
<1>1. IsFiniteSet({i, j, k})
  <2>1. IsFiniteSet({} \cup {i}) BY FS_EmptySet, FS_AddElement
  <2>2. IsFiniteSet(({} \cup {i}) \cup {j}) BY <2>1, FS_AddElement
  <2>3. IsFiniteSet((({} \cup {i}) \cup {j}) \cup {k}) BY <2>2, FS_AddElement
  <2>4. (({} \cup {i}) \cup {j}) \cup {k} = {i, j, k} OBVIOUS
  <2> QED BY <2>3, <2>4
<1>2. PICK S : S = {i, j, k} OBVIOUS
<1>3. Syncing!Max(S) \in S /\ \A x \in S : Syncing!Max(S) >= x BY <1>1, <1>2, SyncLargestIs
<1> QED BY <1>2, <1>3

\* Finality is below what is notarized, and it does not go back.
LEMMA SyncFinality ==
  ASSUME Syncing!ChainSyncAssumption, NEW n \in -1..SyncMaxBlock, NEW u \in Int
  PROVE  /\ Syncing!FinalAfter(n, u) \in -1..SyncMaxBlock
         /\ Syncing!FinalAfter(n, u) >= n
         /\ Syncing!FinalAfter(n, u) <= n \/ Syncing!FinalAfter(n, u) <= u - 1
<1> DEFINE S == {n} \cup {c - 1 : c \in {d \in Closing : d <= u}}
<1>1. SyncMaxBlock \in Nat /\ Closing \subseteq 2..SyncMaxBlock BY DEF Syncing!ChainSyncAssumption
<1>2. \A x \in S : x \in -1..SyncMaxBlock /\ (x = n \/ x <= u - 1) BY <1>1
<1>3. S \subseteq -1..SyncMaxBlock /\ S \subseteq Int /\ S # {} /\ n \in S BY <1>1, <1>2
<1>5. Syncing!FinalAfter(n, u) = Syncing!Max(S) BY DEF Syncing!FinalAfter
<1> HIDE DEF S
<1>4. IsFiniteSet(S)
  <2>1. -1 \in Int /\ SyncMaxBlock \in Int BY <1>1
  <2>2. IsFiniteSet(-1..SyncMaxBlock) BY <2>1, FS_Interval
  <2> QED BY <1>3, <2>2, FS_Subset
<1>6. Syncing!Max(S) \in S /\ \A x \in S : Syncing!Max(S) >= x BY <1>3, <1>4, SyncLargestIs
<1>7. Syncing!Max(S) \in -1..SyncMaxBlock /\ Syncing!Max(S) >= n /\ (Syncing!Max(S) = n \/ Syncing!Max(S) <= u - 1) BY <1>2, <1>3, <1>6
<1> QED BY <1>5, <1>7

\* The more blocks a chain has, the more of them are final (tryFinalizeChain).
LEMMA SyncMoreIsFinal ==
  ASSUME Syncing!ChainSyncAssumption, NEW n \in -1..SyncMaxBlock, NEW u \in Int, NEW w \in Int, u <= w
  PROVE  Syncing!FinalAfter(n, u) <= Syncing!FinalAfter(n, w)
<1> DEFINE S(x) == {n} \cup {c - 1 : c \in {d \in Closing : d <= x}}
<1>1. SyncMaxBlock \in Nat /\ Closing \subseteq 2..SyncMaxBlock BY DEF Syncing!ChainSyncAssumption
<1>2. S(u) \subseteq S(w) BY <1>1
<1>3. S(u) \subseteq -1..SyncMaxBlock /\ S(w) \subseteq -1..SyncMaxBlock /\ S(u) # {} /\ S(w) # {}
      /\ S(u) \subseteq Int /\ S(w) \subseteq Int
  BY <1>1
<1>5. Syncing!FinalAfter(n, u) = Syncing!Max(S(u)) /\ Syncing!FinalAfter(n, w) = Syncing!Max(S(w)) BY DEF Syncing!FinalAfter
<1> HIDE DEF S
<1>4. IsFiniteSet(S(u)) /\ IsFiniteSet(S(w))
  <2>1. -1 \in Int /\ SyncMaxBlock \in Int BY <1>1
  <2>2. IsFiniteSet(-1..SyncMaxBlock) BY <2>1, FS_Interval
  <2> QED BY <1>3, <2>2, FS_Subset
<1>6. Syncing!Max(S(u)) \in S(u) BY <1>3, <1>4, SyncLargestIs
<1>7. \A x \in S(w) : Syncing!Max(S(w)) >= x BY <1>3, <1>4, SyncLargestIs
<1> QED BY <1>2, <1>5, <1>6, <1>7

\* The chain with more blocks is a chain.
LEMMA SyncGrowing ==
  ASSUME Syncing!ChainSyncAssumption, Syncing!Here \in SyncChains, NEW n \in 0..SyncMaxBlock, NEW v \in -1..SyncMaxBlock,
         v <= n \/ v <= syncPool
  PROVE  Syncing!ChainAt(n, v) \in SyncChains /\ Syncing!ChainAt(n, v).last >= syncLast
<1>1. /\ syncLast \in -1..SyncMaxBlock /\ syncNotarized \in -1..SyncMaxBlock /\ syncPool \in -1..SyncMaxBlock
      /\ syncDisk \in -1..SyncMaxBlock /\ SyncMaxBlock \in Nat
      /\ syncLast <= syncDisk /\ syncLast <= syncNotarized /\ syncNotarized <= syncPool
  BY DEF Syncing!Here, SyncChains, Syncing!ChainSyncAssumption
<1>2. PICK a \in 0..SyncMaxBlock : a = Syncing!Max({syncLast, 0}) /\ a >= syncLast /\ (a = syncLast \/ a = 0)
  <2>1. Syncing!Max({syncLast, 0}) = IF syncLast >= 0 THEN syncLast ELSE 0 BY <1>1, SyncLargerOf
  <2> QED BY <1>1, <2>1
<1>3. PICK u \in -1..SyncMaxBlock : u = Syncing!Max({v, syncNotarized}) /\ (u = v \/ u = syncNotarized)
  <2>1. Syncing!Max({v, syncNotarized}) = IF v >= syncNotarized THEN v ELSE syncNotarized BY <1>1, SyncLargerOf
  <2> QED BY <1>1, <2>1
<1>4. PICK l \in -1..SyncMaxBlock : l = Syncing!FinalAfter(a, u) /\ l >= a /\ (l <= a \/ l <= u - 1)
  <2>1. a \in -1..SyncMaxBlock /\ u \in Int BY <1>1
  <2> QED BY <2>1, SyncFinality
<1>5. PICK k \in {v, syncNotarized, l} : /\ Syncing!Max({v, syncNotarized, l}) = k
                                     /\ k >= l
  <2>1. v \in Int /\ syncNotarized \in Int /\ l \in Int BY <1>1
  <2> QED BY <2>1, SyncLargestOfThree
<1>6. Syncing!Max({n, syncPool}) = IF n >= syncPool THEN n ELSE syncPool BY <1>1, SyncLargerOf
<1>7. Syncing!Max({syncDisk, l}) = IF syncDisk >= l THEN syncDisk ELSE l BY <1>1, SyncLargerOf
<1> DEFINE c == [last |-> l, notarized |-> k, pool |-> IF n >= syncPool THEN n ELSE syncPool,
                 disk |-> IF syncDisk >= l THEN syncDisk ELSE l]
<1>8. Syncing!ChainAt(n, v) = c BY <1>2, <1>3, <1>4, <1>5, <1>6, <1>7 DEF Syncing!ChainAt
<1>9. l <= (IF n >= syncPool THEN n ELSE syncPool)
  BY <1>1, <1>2, <1>3, <1>4
<1>10. c \in SyncChains /\ c.last >= syncLast BY <1>1, <1>2, <1>4, <1>5, <1>9 DEF SyncChains
<1> QED BY <1>8, <1>10

\* Catching up from an answer keeps the order of the numbers and never lowers the last
\* final block (handleChainSegment).
LEMMA SyncCatchingUp ==
  ASSUME Syncing!ChainSyncAssumption, NEW p \in SyncPeer, NEW c \in SyncChains, NEW r \in SyncAnswers
  PROVE  Syncing!CatchUp(p, c, r) \in SyncChains /\ Syncing!CatchUp(p, c, r).last >= c.last
<1>1. /\ c.last \in -1..SyncMaxBlock /\ c.notarized \in -1..SyncMaxBlock /\ c.pool \in -1..SyncMaxBlock
      /\ c.disk \in -1..SyncMaxBlock /\ SyncMaxBlock \in Nat /\ r.tip \in 0..SyncMaxBlock
      /\ c.last <= c.disk /\ c.last <= c.notarized /\ c.notarized <= c.pool
  BY DEF SyncChains, SyncAnswers, Syncing!ChainSyncAssumption
<1>2. CASE Syncing!CatchUp(p, c, r) = c BY <1>1, <1>2
<1>3. CASE p \notin SyncForeign /\ r.number <= c.pool /\ r.tip > r.number
  <2>1. PICK k \in 0..SyncMaxBlock : k = Syncing!Max({r.tip, c.notarized})
                                 /\ k = (IF r.tip >= c.notarized THEN r.tip ELSE c.notarized)
    <3>1. Syncing!Max({r.tip, c.notarized}) = IF r.tip >= c.notarized THEN r.tip ELSE c.notarized
      BY <1>1, SyncLargerOf
    <3> QED BY <1>1, <3>1
  <2>2. PICK l \in -1..SyncMaxBlock : l = Syncing!FinalAfter(c.last, k) /\ l >= c.last
                                  /\ (l <= c.last \/ l <= k - 1)
    <3>1. k \in Int BY <2>1
    <3> QED BY <1>1, <3>1, SyncFinality
  <2>3. Syncing!Max({r.tip, c.pool}) = IF r.tip >= c.pool THEN r.tip ELSE c.pool BY <1>1, SyncLargerOf
  <2>4. Syncing!Max({c.disk, l}) = IF c.disk >= l THEN c.disk ELSE l BY <1>1, SyncLargerOf
  <2> DEFINE d == [last |-> l, notarized |-> k, pool |-> IF r.tip >= c.pool THEN r.tip ELSE c.pool,
                   disk |-> IF c.disk >= l THEN c.disk ELSE l]
  <2>5. Syncing!CatchUp(p, c, r) = d BY <1>3, <2>1, <2>2, <2>3, <2>4 DEF Syncing!CatchUp
  <2>6. d \in SyncChains /\ d.last >= c.last
    <3>1. PICK x \in -1..SyncMaxBlock : x = (IF r.tip >= c.pool THEN r.tip ELSE c.pool) /\ x >= r.tip /\ x >= c.pool
      BY <1>1
    <3>2. PICK y \in -1..SyncMaxBlock : y = (IF c.disk >= l THEN c.disk ELSE l) /\ y >= l BY <1>1, <2>2
    <3>3. d = [last |-> l, notarized |-> k, pool |-> x, disk |-> y] BY <3>1, <3>2
    <3>4. k <= x /\ k \in -1..SyncMaxBlock BY <1>1, <2>1, <3>1
    <3>5. l <= k
      <4>1. PICK f \in Int : f = c.last BY <1>1
      <4>2. PICK g \in Int : g = c.notarized BY <1>1
      <4>3. f <= g BY <1>1, <4>1, <4>2
      <4>4. k >= g
        <5>1. PICK t \in Int : t = r.tip BY <1>1
        <5>2. k = IF t >= g THEN t ELSE g BY <2>1, <4>2, <5>1
        <5> QED BY <4>2, <5>1, <5>2
      <4>5. l <= f \/ l <= k - 1 BY <2>2, <4>1
      <4> HIDE DEF d
      <4>6. k \in Int /\ l \in Int BY <1>1
      <4> QED BY <4>1, <4>2, <4>3, <4>4, <4>5, <4>6
    <3> HIDE DEF d
    <3> QED BY <2>2, <3>2, <3>3, <3>4, <3>5 DEF SyncChains
  <2> QED BY <2>5, <2>6
<1> QED BY <1>2, <1>3 DEF Syncing!CatchUp
-----------------------------------------------------------------------------
\* What a queue is after a message was sent to one peer.
LEMMA SyncSending ==
  ASSUME NEW S, NEW q \in [SyncPeer -> Seq(S)], NEW p \in SyncPeer, NEW e \in S
  PROVE  /\ [q EXCEPT ![p] = Append(@, e)] \in [SyncPeer -> Seq(S)]
         /\ [q EXCEPT ![p] = Append(@, e)][p] = Append(q[p], e)
         /\ \A x \in SyncPeer \ {p} : [q EXCEPT ![p] = Append(@, e)][x] = q[x]
OBVIOUS

\* What a queue is after its first message was taken.
LEMMA SyncTaking ==
  ASSUME NEW S, NEW q \in [SyncPeer -> Seq(S)], NEW p \in SyncPeer, q[p] # <<>>
  PROVE  /\ Head(q[p]) \in S /\ Tail(q[p]) \in Seq(S)
         /\ [q EXCEPT ![p] = Tail(@)] \in [SyncPeer -> Seq(S)]
         /\ [q EXCEPT ![p] = Tail(@)][p] = Tail(q[p])
         /\ \A x \in SyncPeer \ {p} : [q EXCEPT ![p] = Tail(@)][x] = q[x]
<1>1. q[p] \in Seq(S) OBVIOUS
<1>2. Head(q[p]) \in S /\ Tail(q[p]) \in Seq(S) BY <1>1
<1> QED BY <1>2

\* What was asked and answered before stays so when more is final.
LEMMA SyncWidening ==
  ASSUME NEW n \in Int, NEW m \in Int, n <= m
  PROVE  /\ Seq(SyncAsked(n)) \subseteq Seq(SyncAsked(m))
         /\ \A p \in SyncPeer : Seq(SyncAnswersOf(p, n)) \subseteq Seq(SyncAnswersOf(p, m))
<1>1. SyncAsked(n) \subseteq SyncAsked(m) BY DEF SyncAsked
<1>2. \A p \in SyncPeer : SyncAnswersOf(p, n) \subseteq SyncAnswersOf(p, m)
  <2>1. \A r \in SyncAnswers : r.number \in Int BY DEF SyncAnswers
  <2> QED BY <2>1 DEF SyncAnswersOf
<1> QED BY <1>1, <1>2

\* The numbers of the chain, and the bounds
LEMMA SyncNumbers ==
  ASSUME Syncing!ChainSyncAssumption, Syncing!Here \in SyncChains
  PROVE  /\ syncLast \in -1..SyncMaxBlock /\ syncNotarized \in -1..SyncMaxBlock /\ syncPool \in -1..SyncMaxBlock
         /\ syncDisk \in -1..SyncMaxBlock /\ SyncMaxBlock \in Nat
         /\ syncLast <= syncDisk /\ syncLast <= syncNotarized /\ syncNotarized <= syncPool
         /\ \A p \in SyncPeer : InitTip[p] \in 0..SyncMaxBlock /\ SyncFirst[p] \in Nat
         /\ SegmentLength \in Nat \ {0} /\ MaxInFlight \in Nat \ {0} /\ IsFiniteSet(SyncPeer)
         /\ syncLast \in Int /\ 0 \in -1..SyncMaxBlock
BY DEF Syncing!Here, SyncChains, Syncing!ChainSyncAssumption, Syncing!IsFiniteSet, IsFiniteSet

\* A node that serves goes on doing so, with as much as it had.
LEMMA SyncStillServing ==
  ASSUME Syncing!ChainSyncAssumption, SyncServingOK, Syncing!Here \in SyncChains, Syncing!Here' \in SyncChains, syncLast' >= syncLast,
         syncState' = syncState
  PROVE  SyncServingOK'
<1>1. syncLast \in Int /\ syncLast' \in Int BY DEF Syncing!Here, SyncChains
<1>2. \A p \in SyncPeer : Syncing!FinalAfter(0, InitTip[p]) \in Int
  <2>1. \A p \in SyncPeer : InitTip[p] \in Int /\ 0 \in -1..SyncMaxBlock BY SyncNumbers
  <2> QED BY <2>1, SyncFinality
<1>3. Syncing!ServingIsSynced => Syncing!ServingIsSynced' BY <1>1, <1>2 DEF Syncing!ServingIsSynced
<1> QED BY <1>3 DEF SyncServingOK, SyncAreWhole

\* requestChainSegment asks one peer, for what is above the last block.
LEMMA SyncRequesting ==
  ASSUME Syncing!ChainSyncAssumption, syncOutbound \subseteq SyncPeer, NEW n \in -1..SyncMaxBlock,
         NEW s \in Syncs, NEW q \in [SyncPeer -> Seq(SyncAsked(n))], Syncing!Request(s, n, q)
  PROVE  /\ syncSync' \in Syncs /\ syncReqs' \in [SyncPeer -> Seq(SyncAsked(n))]
         /\ SyncRequests' \in Nat
         /\ SyncRequests' <= CountAll(q, SyncPeer, SyncAsked(SyncMaxBlock)) + 1
<1>1. SyncMaxBlock \in Nat /\ IsFiniteSet(SyncPeer) BY DEF Syncing!ChainSyncAssumption, Syncing!IsFiniteSet, IsFiniteSet
<1>2. Seq(SyncAsked(n)) \subseteq Seq(SyncAsked(SyncMaxBlock))
  <2>1. n \in Int /\ SyncMaxBlock \in Int /\ n <= SyncMaxBlock BY <1>1
  <2> QED BY <2>1, SyncWidening
<1>3. q \in [SyncPeer -> Seq(SyncAsked(SyncMaxBlock))] BY <1>2
<1>4. CountAll(q, SyncPeer, SyncAsked(SyncMaxBlock)) \in Nat BY <1>1, <1>3, CountAllIsNat
<1>5. SyncRequests' = CountAll(syncReqs', SyncPeer, SyncAsked(SyncMaxBlock)) BY DEF SyncRequests
<1>6. CASE syncSync' = s /\ syncReqs' = q BY <1>4, <1>5, <1>6
<1>7. ASSUME NEW t \in Syncing!Assignable(s)
      PROVE  t \in [peer : SyncPeer, lastBlockNumber : -2..SyncMaxBlock, fresh : BOOLEAN]
  <2>1. CASE s # Syncing!NoPeer /\ t = s BY <1>7, <2>1 DEF Syncs
  <2>2. CASE t \in {Syncing!ChainSyncPeer(p) : p \in syncOutbound \ {s.peer}}
    <3>1. PICK p \in SyncPeer : t = Syncing!ChainSyncPeer(p) BY <2>2
    <3>2. -2 \in -2..SyncMaxBlock BY <1>1
    <3> QED BY <3>1, <3>2 DEF Syncing!ChainSyncPeer, Syncs
  <2> QED BY <1>7, <2>1, <2>2 DEF Syncing!Assignable
<1>8. ASSUME NEW t \in Syncing!Assignable(s),
             IF t.lastBlockNumber >= n /\ t.fresh
             THEN syncSync' = t /\ syncReqs' = q
             ELSE /\ syncSync' = [t EXCEPT !.lastBlockNumber = n, !.fresh = TRUE]
                  /\ syncReqs' = [q EXCEPT ![t.peer] = Append(@, n)]
      PROVE  /\ syncSync' \in Syncs /\ syncReqs' \in [SyncPeer -> Seq(SyncAsked(n))]
             /\ SyncRequests' \in Nat
             /\ SyncRequests' <= CountAll(q, SyncPeer, SyncAsked(SyncMaxBlock)) + 1
  <2>1. PICK p \in SyncPeer : p = t.peer BY <1>7
  <2>2. t \in Syncs BY <1>7 DEF Syncs
  <2>3. CASE syncSync' = t /\ syncReqs' = q BY <1>4, <1>5, <2>2, <2>3
  <2>4. CASE /\ syncSync' = [t EXCEPT !.lastBlockNumber = n, !.fresh = TRUE]
             /\ syncReqs' = [q EXCEPT ![p] = Append(@, n)]
    <3>1. syncSync' \in Syncs
      <4>1. n \in -2..SyncMaxBlock BY <1>1
      <4>2. syncSync' = [peer |-> p, lastBlockNumber |-> n, fresh |-> TRUE] BY <1>7, <2>1, <2>4
      <4> QED BY <4>1, <4>2 DEF Syncs
    <3>2. n \in SyncAsked(n) /\ n \in SyncAsked(SyncMaxBlock) BY <1>1 DEF SyncAsked
    <3>3. PICK r : r = [q EXCEPT ![p] = Append(@, n)] OBVIOUS
    <3>4. /\ r \in [SyncPeer -> Seq(SyncAsked(n))] /\ r[p] = Append(q[p], n)
          /\ \A x \in SyncPeer \ {p} : r[x] = q[x]
      BY <3>2, <3>3, SyncSending
    <3>5. r \in [SyncPeer -> Seq(SyncAsked(SyncMaxBlock))] BY <1>2, <3>4
    <3>6. Moves(CountAll(q, SyncPeer, SyncAsked(SyncMaxBlock)), CountAll(r, SyncPeer, SyncAsked(SyncMaxBlock)), 0, 1)
      BY <1>1, <1>3, <3>2, <3>4, <3>5, CountAllOfAppend
    <3>7. syncReqs' = r BY <2>4, <3>3
    <3> QED BY <1>4, <1>5, <3>1, <3>4, <3>6, <3>7 DEF Moves
  <2> QED BY <1>8, <2>1, <2>3, <2>4
<1> QED BY <1>6, <1>8 DEF Syncing!Request

\* The answer to a request
LEMMA SyncAnswering ==
  ASSUME Syncing!ChainSyncAssumption, SyncWireOK, Syncing!Here \in SyncChains, NEW p \in SyncPeer, NEW n \in SyncAsked(syncLast)
  PROVE  [from |-> Syncing!BlockList(p, n + 1).from, to |-> Syncing!BlockList(p, n + 1).to,
          number |-> Syncing!PeerLast(p), tip |-> syncTip[p]] \in SyncAnswersOf(p, syncLast)
<1>1. PICK top \in -1..SyncMaxBlock : top = Syncing!PeerLast(p) /\ top >= Syncing!FinalAfter(0, InitTip[p])
                                  /\ top >= 0
  <2>1. /\ syncTip[p] \in 0..SyncMaxBlock /\ syncTip[p] >= InitTip[p] /\ InitTip[p] \in 0..SyncMaxBlock
        /\ syncTip[p] \in Int /\ InitTip[p] \in Int /\ 0 \in -1..SyncMaxBlock
    BY SyncNumbers DEF SyncWireOK
  <2>2. Syncing!FinalAfter(0, syncTip[p]) \in -1..SyncMaxBlock /\ Syncing!FinalAfter(0, syncTip[p]) >= 0 BY <2>1, SyncFinality
  <2>3. Syncing!FinalAfter(0, InitTip[p]) <= Syncing!FinalAfter(0, syncTip[p]) BY <2>1, SyncMoreIsFinal
  <2>4. Syncing!FinalAfter(0, InitTip[p]) \in -1..SyncMaxBlock BY <2>1, SyncFinality
  <2> QED BY <2>2, <2>3, <2>4 DEF Syncing!PeerLast
<1>2. /\ syncLast \in -1..SyncMaxBlock /\ SyncMaxBlock \in Nat /\ n \in -1..syncLast /\ SyncFirst[p] \in Nat
      /\ SegmentLength \in Nat \ {0}
  BY SyncNumbers DEF SyncAsked
<1>3. Syncing!Min({top, n + 1 + SegmentLength - 1})
      = IF top <= n + 1 + SegmentLength - 1 THEN top ELSE n + 1 + SegmentLength - 1
  <2>1. top \in Int /\ n + 1 + SegmentLength - 1 \in Int BY <1>1, <1>2
  <2> QED BY <2>1, SyncSmallerOf
<1>4. PICK least \in -1..SyncMaxBlock :
        /\ least = Syncing!Min({top, n + 1 + SegmentLength - 1})
        /\ least < n + 1 => top < n + 1
  BY <1>1, <1>2, <1>3
<1> DEFINE r == [from |-> Syncing!BlockList(p, n + 1).from, to |-> Syncing!BlockList(p, n + 1).to,
                 number |-> Syncing!PeerLast(p), tip |-> syncTip[p]]
<1>5. syncTip[p] \in 0..SyncMaxBlock BY DEF SyncWireOK
<1>6. ASSUME n + 1 = top + 1 PROVE r \in SyncAnswersOf(p, syncLast)
  <2>1. r = [from |-> top, to |-> top, number |-> top, tip |-> syncTip[p]]
    BY <1>1, <1>6 DEF Syncing!BlockList
  <2> HIDE DEF r
  <2> QED BY <1>1, <1>2, <1>5, <2>1 DEF SyncAnswersOf, SyncAnswers, Syncing!IsEmpty
<1>7. ASSUME n + 1 # top + 1 /\ n + 1 < SyncFirst[p] PROVE r \in SyncAnswersOf(p, syncLast)
  <2>1. r = [from |-> n + 1, to |-> n, number |-> top, tip |-> syncTip[p]]
    BY <1>1, <1>2, <1>7 DEF Syncing!BlockList
  <2>2. ~SyncAreWhole BY <1>2, <1>7 DEF SyncAreWhole
  <2> HIDE DEF r
  <2> QED BY <1>1, <1>2, <1>5, <2>1, <2>2 DEF SyncAnswersOf, SyncAnswers
<1>8. ASSUME n + 1 # top + 1 /\ ~(n + 1 < SyncFirst[p]) PROVE r \in SyncAnswersOf(p, syncLast)
  <2>1. r = [from |-> n + 1, to |-> least, number |-> top, tip |-> syncTip[p]]
    BY <1>1, <1>4, <1>8 DEF Syncing!BlockList
  <2> HIDE DEF r
  <2>2. r \in SyncAnswers BY <1>1, <1>2, <1>4, <1>5, <2>1 DEF SyncAnswers
  <2>3. Syncing!IsEmpty(r) => syncLast >= r.number BY <1>1, <1>2, <1>4, <1>8, <2>1 DEF Syncing!IsEmpty
  <2>4. r.number >= Syncing!FinalAfter(0, InitTip[p]) BY <1>1, <2>1
  <2> QED BY <2>2, <2>3, <2>4 DEF SyncAnswersOf
<1> QED BY <1>6, <1>7, <1>8

-----------------------------------------------------------------------------
\* The sync starts in its invariant (the constructor of the p2p client).
LEMMA SyncStarting == ASSUME Syncing!ChainSyncAssumption, Syncing!Init PROVE SyncIInv
<1>1. SyncMaxBlock \in Nat /\ IsFiniteSet(SyncPeer) /\ MaxInFlight \in Nat BY DEF Syncing!ChainSyncAssumption, Syncing!IsFiniteSet, IsFiniteSet
<1>2. Syncing!Here \in SyncChains
  <2>1. -1 \in -1..SyncMaxBlock BY <1>1
  <2>2. Syncing!Here = [last |-> -1, notarized |-> -1, pool |-> -1, disk |-> -1] BY DEF Syncing!Init, Syncing!Here
  <2> QED BY <2>1, <2>2 DEF SyncChains
<1>3. SyncWireOK
  <2>1. syncReqs \in [SyncPeer -> Seq(SyncAsked(syncLast))] /\ syncResp \in [SyncPeer -> Seq(SyncAnswers)]
        /\ (\A p \in SyncPeer : syncResp[p] \in Seq(SyncAnswersOf(p, syncLast))) /\ syncAsleep \in Seq(SyncPeer)
        /\ syncSync \in Syncs /\ syncOutbound \subseteq SyncPeer
    BY DEF Syncing!Init, Syncs
  <2>2. syncTip \in [SyncPeer -> 0..SyncMaxBlock] /\ \A p \in SyncPeer : syncTip[p] >= InitTip[p]
    BY <1>1 DEF Syncing!Init, Syncing!ChainSyncAssumption
  <2> QED BY <2>1, <2>2 DEF SyncWireOK
<1>4. SyncServingOK BY DEF Syncing!Init, SyncServingOK, Syncing!ServingIsSynced
<1>5. SyncFewInFlight
  <2>1. (\A p \in SyncPeer : syncReqs[p] = <<>>) /\ (\A p \in SyncPeer : syncResp[p] = <<>>) /\ syncAsleep = <<>>
    BY DEF Syncing!Init
  <2>2. SyncRequests = 0 /\ SyncReplies = 0 BY <1>1, <2>1, CountAllOfNone DEF SyncRequests, SyncReplies
  <2> QED BY <1>1, <2>1, <2>2 DEF SyncFewInFlight
<1> QED BY <1>2, <1>3, <1>4, <1>5 DEF SyncIInv

\* What the sums count
LEMMA SyncCounting ==
  ASSUME Syncing!ChainSyncAssumption, SyncWireOK, Syncing!Here \in SyncChains
  PROVE  /\ syncReqs \in [SyncPeer -> Seq(SyncAsked(SyncMaxBlock))]
         /\ SyncRequests \in Nat /\ SyncReplies \in Nat /\ Len(syncAsleep) \in Nat
         /\ Syncing!InFlight = SyncRequests + SyncReplies + Len(syncAsleep)
<1>1. IsFiniteSet(SyncPeer) /\ syncLast \in Int /\ SyncMaxBlock \in Int /\ syncLast <= SyncMaxBlock BY SyncNumbers
<1>2. syncReqs \in [SyncPeer -> Seq(SyncAsked(SyncMaxBlock))] BY <1>1, SyncWidening DEF SyncWireOK
<1>3. syncResp \in [SyncPeer -> Seq(SyncAnswers)] /\ Len(syncAsleep) \in Nat BY DEF SyncWireOK
<1>4. SyncRequests \in Nat BY <1>1, <1>2, CountAllIsNat DEF SyncRequests
<1>5. SyncReplies \in Nat BY <1>1, <1>3, CountAllIsNat DEF SyncReplies
<1> DEFINE c == [p \in SyncPeer |-> Len(syncReqs[p]) + Len(syncResp[p])]
<1>6. Syncing!FoldFunction(+, 0, c) = Total(c, DOMAIN c)
  BY Zenon DEF Syncing!FoldFunction, Syncing!FoldFunctionOnSet, Syncing!MapThenFoldSet, Total, Sums!Fold, Sums!FoldOf,
     Sums!IsFold, AnyOf, Plus, ValueAt
<1>7. \A p \in SyncPeer : c[p] = Count(syncReqs[p], SyncAsked(SyncMaxBlock)) + Count(syncResp[p], SyncAnswers)
  <2> SUFFICES ASSUME NEW p \in SyncPeer
               PROVE  /\ Len(syncReqs[p]) = Count(syncReqs[p], SyncAsked(SyncMaxBlock))
                      /\ Len(syncResp[p]) = Count(syncResp[p], SyncAnswers)
    OBVIOUS
  <2>1. syncReqs[p] \in Seq(SyncAsked(SyncMaxBlock)) /\ syncResp[p] \in Seq(SyncAnswers) BY <1>2, <1>3
  <2> QED BY <2>1, CountOfAll
<1>8. DOMAIN c = SyncPeer OBVIOUS
<1>9. Syncing!InFlight = Syncing!FoldFunction(+, 0, c) + Len(syncAsleep) BY DEF Syncing!InFlight
<1> HIDE DEF c
<1>10. Moves(CountAll(syncReqs, SyncPeer, SyncAsked(SyncMaxBlock)), Total(c, SyncPeer), 0, CountAll(syncResp, SyncPeer, SyncAnswers))
  BY <1>1, <1>2, <1>3, <1>7, CountsTogether
<1>11. Total(c, SyncPeer) = SyncRequests + SyncReplies
  BY <1>4, <1>5, <1>10 DEF Moves, SyncRequests, SyncReplies
<1> QED BY <1>2, <1>3, <1>4, <1>5, <1>6, <1>8, <1>9, <1>11

\* A step that leaves the chain alone
LEMMA SyncChainStays ==
  ASSUME Syncing!ChainSyncAssumption, SyncIInv, UNCHANGED <<syncState, syncLast, syncNotarized, syncPool, syncDisk>>
  PROVE  Syncing!Here' \in SyncChains /\ SyncServingOK' /\ syncLast' >= syncLast /\ syncLast' = syncLast
<1>1. Syncing!Here' = Syncing!Here BY DEF Syncing!Here
<1>2. syncLast \in Int BY SyncNumbers DEF SyncIInv
<1> QED BY <1>1, <1>2, SyncStillServing DEF SyncIInv

\* The requests and the sleeping handlers
LEMMA SyncRequester ==
  ASSUME Syncing!ChainSyncAssumption, SyncIInv, Syncing!Trigger \/ Syncing!BufferElapses \/ Syncing!Wake
  PROVE  SyncIInv' /\ syncLast' >= syncLast
<1>0. SyncWireOK /\ Syncing!Here \in SyncChains /\ SyncServingOK /\ SyncFewInFlight /\ syncOutbound \subseteq SyncPeer
      /\ syncReqs \in [SyncPeer -> Seq(SyncAsked(syncLast))] /\ syncLast \in -1..SyncMaxBlock
  BY SyncNumbers DEF SyncIInv, SyncWireOK
<1>1. /\ SyncRequests \in Nat /\ SyncReplies \in Nat /\ Len(syncAsleep) \in Nat /\ MaxInFlight \in Nat
      /\ Syncing!InFlight = SyncRequests + SyncReplies + Len(syncAsleep)
  BY <1>0, SyncCounting, SyncNumbers
<1>2. UNCHANGED <<syncState, syncLast, syncNotarized, syncPool, syncDisk, syncOutbound, syncResp, syncTip>>
  BY DEF Syncing!Trigger, Syncing!BufferElapses, Syncing!Wake, Syncing!chain, Syncing!net
<1>3. Syncing!Here' \in SyncChains /\ SyncServingOK' /\ syncLast' >= syncLast BY <1>2, SyncChainStays
<1>4. SyncReplies' = SyncReplies BY <1>2 DEF SyncReplies
<1>5. ASSUME syncSync' \in Syncs, syncReqs' \in [SyncPeer -> Seq(SyncAsked(syncLast))], syncAsleep' \in Seq(SyncPeer)
      PROVE  SyncWireOK'
  <2>1. SyncAsked(syncLast)' = SyncAsked(syncLast) /\ Syncs' = Syncs /\ SyncAnswers' = SyncAnswers
        /\ \A p \in SyncPeer : SyncAnswersOf(p, syncLast)' = SyncAnswersOf(p, syncLast)
    BY <1>2 DEF SyncAsked, Syncs, SyncAnswers, SyncAnswersOf, SyncAreWhole, Syncing!IsEmpty, Syncing!FinalAfter, Syncing!NoPeer
  <2> QED BY <1>0, <1>2, <1>5, <2>1 DEF SyncWireOK
<1>6. CASE Syncing!Trigger
  <2>1. Syncing!Request(syncSync, syncLast, syncReqs) /\ syncAsleep' = syncAsleep /\ Syncing!InFlight < MaxInFlight
    BY <1>6 DEF Syncing!Trigger
  <2>2. syncSync \in Syncs BY <1>0 DEF SyncWireOK
  <2>3. /\ syncSync' \in Syncs /\ syncReqs' \in [SyncPeer -> Seq(SyncAsked(syncLast))] /\ SyncRequests' \in Nat
        /\ SyncRequests' <= CountAll(syncReqs, SyncPeer, SyncAsked(SyncMaxBlock)) + 1
    BY <1>0, <2>1, <2>2, SyncRequesting
  <2>4. SyncRequests' <= SyncRequests + 1 BY <2>3 DEF SyncRequests
  <2>5. SyncFewInFlight' BY <1>1, <1>4, <2>1, <2>3, <2>4 DEF SyncFewInFlight
  <2>6. SyncWireOK' BY <1>0, <1>5, <2>1, <2>3 DEF SyncWireOK
  <2> QED BY <1>3, <2>5, <2>6 DEF SyncIInv
<1>7. CASE Syncing!Wake
  <2>1. Syncing!Request(Syncing!NoPeer, syncLast, syncReqs) /\ syncAsleep' = Tail(syncAsleep) /\ syncAsleep # <<>>
    BY <1>7 DEF Syncing!Wake
  <2>2. Syncing!NoPeer \in Syncs BY DEF Syncs
  <2>3. /\ syncSync' \in Syncs /\ syncReqs' \in [SyncPeer -> Seq(SyncAsked(syncLast))] /\ SyncRequests' \in Nat
        /\ SyncRequests' <= CountAll(syncReqs, SyncPeer, SyncAsked(SyncMaxBlock)) + 1
    BY <1>0, <2>1, <2>2, SyncRequesting
  <2>4. SyncRequests' <= SyncRequests + 1 BY <2>3 DEF SyncRequests
  <2>5. syncAsleep' \in Seq(SyncPeer) /\ Len(syncAsleep') = Len(syncAsleep) - 1
    <3>1. syncAsleep \in Seq(SyncPeer) BY <1>0 DEF SyncWireOK
    <3> QED BY <2>1, <3>1
  <2>6. SyncFewInFlight' BY <1>0, <1>1, <1>4, <2>3, <2>4, <2>5 DEF SyncFewInFlight
  <2>7. SyncWireOK' BY <1>5, <2>3, <2>5
  <2> QED BY <1>3, <2>6, <2>7 DEF SyncIInv
<1>8. CASE Syncing!BufferElapses
  <2>1. syncSync # Syncing!NoPeer /\ syncSync' = [syncSync EXCEPT !.fresh = FALSE] /\ syncReqs' = syncReqs /\ syncAsleep' = syncAsleep
    BY <1>8 DEF Syncing!BufferElapses, Syncing!net
  <2>2. syncSync' \in Syncs BY <1>0, <2>1 DEF SyncWireOK, Syncs
  <2>3. SyncWireOK' BY <1>0, <1>5, <2>1, <2>2 DEF SyncWireOK
  <2>4. SyncFewInFlight' BY <1>0, <1>4, <2>1 DEF SyncFewInFlight, SyncRequests
  <2> QED BY <1>3, <2>3, <2>4 DEF SyncIInv
<1> QED BY <1>6, <1>7, <1>8

\* The peers and the connections
LEMMA SyncPeerKeeps ==
  ASSUME Syncing!ChainSyncAssumption, SyncIInv, NEW p \in SyncPeer,
         Syncing!Answer(p) \/ Syncing!NotReady(p) \/ Syncing!Extend(p) \/ Syncing!Connect(p) \/ Syncing!PeerCloses(p) \/ Syncing!NodeCloses(p)
  PROVE  SyncIInv' /\ syncLast' >= syncLast
<1>0. SyncWireOK /\ Syncing!Here \in SyncChains /\ SyncServingOK /\ SyncFewInFlight /\ syncOutbound \subseteq SyncPeer
      /\ syncReqs \in [SyncPeer -> Seq(SyncAsked(syncLast))] /\ syncLast \in -1..SyncMaxBlock
      /\ syncResp \in [SyncPeer -> Seq(SyncAnswers)] /\ IsFiniteSet(SyncPeer)
      /\ syncReqs \in [SyncPeer -> Seq(SyncAsked(SyncMaxBlock))] /\ syncSync \in Syncs
      /\ (\A q \in SyncPeer : syncResp[q] \in Seq(SyncAnswersOf(q, syncLast)))
      /\ syncLast \in Int /\ SyncMaxBlock \in Int /\ syncLast <= SyncMaxBlock
  <2>1. SyncWireOK /\ Syncing!Here \in SyncChains /\ SyncServingOK /\ SyncFewInFlight BY DEF SyncIInv
  <2>2. syncReqs \in [SyncPeer -> Seq(SyncAsked(SyncMaxBlock))] BY <2>1, SyncCounting
  <2>3. syncLast \in -1..SyncMaxBlock /\ IsFiniteSet(SyncPeer) /\ SyncMaxBlock \in Nat BY <2>1, SyncNumbers
  <2> QED BY <2>1, <2>2, <2>3 DEF SyncWireOK
<1>1. SyncRequests \in Nat /\ SyncReplies \in Nat /\ Len(syncAsleep) \in Nat /\ MaxInFlight \in Nat
  BY <1>0, SyncCounting, SyncNumbers
<1>2. UNCHANGED <<syncState, syncLast, syncNotarized, syncPool, syncDisk, syncAsleep>>
  BY DEF Syncing!Answer, Syncing!NotReady, Syncing!Extend, Syncing!Connect, Syncing!PeerCloses, Syncing!NodeCloses, Syncing!Closed, Syncing!chain, Syncing!net
<1>3. Syncing!Here' \in SyncChains /\ SyncServingOK' /\ syncLast' >= syncLast BY <1>2, SyncChainStays
<1>4. SyncAsked(syncLast)' = SyncAsked(syncLast) /\ Syncs' = Syncs /\ SyncAnswers' = SyncAnswers
      /\ \A q \in SyncPeer : SyncAnswersOf(q, syncLast)' = SyncAnswersOf(q, syncLast)
  BY <1>2 DEF SyncAsked, Syncs, SyncAnswers, SyncAnswersOf, SyncAreWhole, Syncing!IsEmpty, Syncing!FinalAfter, Syncing!NoPeer
<1>5. Seq(SyncAsked(syncLast)) \subseteq Seq(SyncAsked(SyncMaxBlock)) BY <1>0, SyncWidening
<1>6. CASE Syncing!Answer(p)
  <2>1. Head(syncReqs[p]) \in SyncAsked(syncLast) /\ syncReqs[p] # <<>> BY <1>0, <1>6, SyncTaking DEF Syncing!Answer
  <2>2. PICK r : r = [from |-> Syncing!BlockList(p, Head(syncReqs[p]) + 1).from,
                      to |-> Syncing!BlockList(p, Head(syncReqs[p]) + 1).to,
                      number |-> Syncing!PeerLast(p), tip |-> syncTip[p]]
    OBVIOUS
  <2>3. r \in SyncAnswersOf(p, syncLast) BY <1>0, <2>1, <2>2, SyncAnswering
  <2>4. r \in SyncAnswers BY <2>3 DEF SyncAnswersOf
  <2>5. syncResp' = [syncResp EXCEPT ![p] = Append(@, r)] /\ syncReqs' = [syncReqs EXCEPT ![p] = Tail(@)]
        /\ UNCHANGED <<syncSync, syncOutbound, syncTip>>
    BY <1>6, <2>2 DEF Syncing!Answer
  <2>6. /\ syncResp' \in [SyncPeer -> Seq(SyncAnswers)] /\ syncResp'[p] = Append(syncResp[p], r)
        /\ \A x \in SyncPeer \ {p} : syncResp'[x] = syncResp[x]
    BY <1>0, <2>4, <2>5, SyncSending
  <2>7. /\ syncReqs' \in [SyncPeer -> Seq(SyncAsked(syncLast))] /\ syncReqs'[p] = Tail(syncReqs[p])
        /\ \A x \in SyncPeer \ {p} : syncReqs'[x] = syncReqs[x]
    BY <1>0, <2>1, <2>5, SyncTaking
  <2>8. \A q \in SyncPeer : syncResp'[q] \in Seq(SyncAnswersOf(q, syncLast))
    <3>1. Append(syncResp[p], r) \in Seq(SyncAnswersOf(p, syncLast))
      <4>1. syncResp[p] \in Seq(SyncAnswersOf(p, syncLast)) BY <1>0
      <4> QED BY <2>3, <4>1
    <3> QED BY <1>0, <2>6, <3>1
  <2>9. SyncWireOK' BY <1>0, <1>2, <1>4, <2>5, <2>6, <2>7, <2>8 DEF SyncWireOK
  <2>10. Moves(SyncRequests, SyncRequests', 1, 0)
    <3>1. syncReqs' \in [SyncPeer -> Seq(SyncAsked(SyncMaxBlock))] BY <1>5, <2>7
    <3>2. Head(syncReqs[p]) \in SyncAsked(SyncMaxBlock) BY <1>0, <2>1 DEF SyncAsked
    <3>3. Moves(CountAll(syncReqs, SyncPeer, SyncAsked(SyncMaxBlock)), CountAll(syncReqs', SyncPeer, SyncAsked(SyncMaxBlock)), 1, 0)
      BY <1>0, <2>1, <2>7, <3>1, <3>2, CountAllOfTail
    <3> QED BY <3>3 DEF SyncRequests
  <2>11. Moves(SyncReplies, SyncReplies', 0, 1)
    <3>1. Moves(CountAll(syncResp, SyncPeer, SyncAnswers), CountAll(syncResp', SyncPeer, SyncAnswers), 0, 1)
      BY <1>0, <2>4, <2>6, CountAllOfAppend
    <3> QED BY <1>4, <3>1 DEF SyncReplies
  <2>12. SyncFewInFlight' BY <1>0, <1>1, <1>2, <2>10, <2>11 DEF SyncFewInFlight, Moves
  <2> QED BY <1>3, <2>9, <2>12 DEF SyncIInv
<1>7. CASE Syncing!NotReady(p)
  <2>1. Head(syncReqs[p]) \in SyncAsked(syncLast) /\ syncReqs[p] # <<>> BY <1>0, <1>7, SyncTaking DEF Syncing!NotReady
  <2>2. syncResp' = syncResp /\ syncReqs' = [syncReqs EXCEPT ![p] = Tail(@)] /\ UNCHANGED <<syncSync, syncOutbound, syncTip>>
    BY <1>7 DEF Syncing!NotReady
  <2>3. /\ syncReqs' \in [SyncPeer -> Seq(SyncAsked(syncLast))] /\ syncReqs'[p] = Tail(syncReqs[p])
        /\ \A x \in SyncPeer \ {p} : syncReqs'[x] = syncReqs[x]
    BY <1>0, <2>1, <2>2, SyncTaking
  <2>4. SyncWireOK' BY <1>0, <1>2, <1>4, <2>2, <2>3 DEF SyncWireOK
  <2>5. Moves(SyncRequests, SyncRequests', 1, 0)
    <3>1. syncReqs' \in [SyncPeer -> Seq(SyncAsked(SyncMaxBlock))] BY <1>5, <2>3
    <3>2. Head(syncReqs[p]) \in SyncAsked(SyncMaxBlock) BY <1>0, <2>1 DEF SyncAsked
    <3>3. Moves(CountAll(syncReqs, SyncPeer, SyncAsked(SyncMaxBlock)), CountAll(syncReqs', SyncPeer, SyncAsked(SyncMaxBlock)), 1, 0)
      BY <1>0, <2>1, <2>3, <3>1, <3>2, CountAllOfTail
    <3> QED BY <3>3 DEF SyncRequests
  <2>6. SyncReplies' = SyncReplies BY <1>4, <2>2 DEF SyncReplies
  <2>7. SyncFewInFlight' BY <1>0, <1>1, <1>2, <2>5, <2>6 DEF SyncFewInFlight, Moves
  <2> QED BY <1>3, <2>4, <2>7 DEF SyncIInv
<1>8. CASE Syncing!Extend(p) \/ Syncing!Connect(p)
  <2>1. UNCHANGED <<syncSync, syncReqs, syncResp>> BY <1>8 DEF Syncing!Extend, Syncing!Connect, Syncing!net
  <2>2. syncTip' \in [SyncPeer -> 0..SyncMaxBlock] /\ \A q \in SyncPeer : syncTip'[q] >= InitTip[q]
    <3>1. CASE syncTip' = syncTip BY <1>0, <3>1 DEF SyncWireOK
    <3>2. CASE syncTip[p] < SyncMaxBlock /\ syncTip' = [syncTip EXCEPT ![p] = @ + 1]
      <4>1. \A q \in SyncPeer : InitTip[q] \in 0..SyncMaxBlock BY <1>0, SyncNumbers
      <4>2. syncTip \in [SyncPeer -> 0..SyncMaxBlock] /\ syncTip[p] + 1 \in 0..SyncMaxBlock
        BY <1>0, <3>2 DEF SyncWireOK
      <4>3. syncTip' \in [SyncPeer -> 0..SyncMaxBlock] BY <3>2, <4>2
      <4>4. \A q \in SyncPeer : syncTip'[q] = IF q = p THEN syncTip[q] + 1 ELSE syncTip[q] BY <3>2, <4>2
      <4>5. \A q \in SyncPeer : syncTip'[q] >= InitTip[q]
        <5> SUFFICES ASSUME NEW q \in SyncPeer PROVE syncTip'[q] >= InitTip[q] OBVIOUS
        <5>1. syncTip[q] >= InitTip[q] /\ syncTip[q] \in Int /\ InitTip[q] \in Int
          BY <1>0, <4>1, <4>2 DEF SyncWireOK
        <5> QED BY <4>4, <5>1
      <4> QED BY <4>3, <4>5
    <3> QED BY <1>8, <3>1, <3>2 DEF Syncing!Extend, Syncing!Connect
  <2>3. syncOutbound' \subseteq SyncPeer BY <1>0, <1>8 DEF Syncing!Extend, Syncing!Connect
  <2>4. SyncWireOK' BY <1>0, <1>2, <1>4, <2>1, <2>2, <2>3 DEF SyncWireOK
  <2>5. SyncFewInFlight' BY <1>0, <1>2, <2>1 DEF SyncFewInFlight, SyncRequests, SyncReplies
  <2> QED BY <1>3, <2>4, <2>5 DEF SyncIInv
<1>9. CASE Syncing!PeerCloses(p) \/ Syncing!NodeCloses(p)
  <2>1. /\ syncOutbound' = syncOutbound \ {p} /\ syncReqs' = [syncReqs EXCEPT ![p] = <<>>]
        /\ syncResp' = [syncResp EXCEPT ![p] = <<>>] /\ syncTip' = syncTip
        /\ syncSync' = syncSync \/ syncSync' = Syncing!NoPeer
    BY <1>9 DEF Syncing!PeerCloses, Syncing!NodeCloses, Syncing!Closed
  <2>2. /\ syncReqs' \in [SyncPeer -> Seq(SyncAsked(syncLast))] /\ syncReqs'[p] = <<>>
        /\ \A x \in SyncPeer \ {p} : syncReqs'[x] = syncReqs[x]
    BY <1>0, <2>1
  <2>3. /\ syncResp' \in [SyncPeer -> Seq(SyncAnswers)] /\ syncResp'[p] = <<>>
        /\ \A x \in SyncPeer \ {p} : syncResp'[x] = syncResp[x]
    BY <1>0, <2>1
  <2>4. \A q \in SyncPeer : syncResp'[q] \in Seq(SyncAnswersOf(q, syncLast))
    <3>1. <<>> \in Seq(SyncAnswersOf(p, syncLast)) OBVIOUS
    <3> QED BY <1>0, <2>3, <3>1
  <2>5. syncSync' \in Syncs BY <1>0, <2>1 DEF Syncs
  <2>6. SyncWireOK' BY <1>0, <1>2, <1>4, <2>1, <2>2, <2>3, <2>4, <2>5 DEF SyncWireOK
  <2>7. SyncRequests' <= SyncRequests
    <3>1. syncReqs' \in [SyncPeer -> Seq(SyncAsked(SyncMaxBlock))] BY <1>5, <2>2
    <3>2. CountAll(syncReqs', SyncPeer, SyncAsked(SyncMaxBlock)) <= CountAll(syncReqs, SyncPeer, SyncAsked(SyncMaxBlock))
      BY <1>0, <2>2, <3>1, CountAllOfClosed
    <3> QED BY <3>2 DEF SyncRequests
  <2>8. SyncReplies' <= SyncReplies
    <3>1. CountAll(syncResp', SyncPeer, SyncAnswers) <= CountAll(syncResp, SyncPeer, SyncAnswers)
      BY <1>0, <2>3, CountAllOfClosed
    <3> QED BY <1>4, <3>1 DEF SyncReplies
  <2>9. SyncRequests' \in Nat /\ SyncReplies' \in Nat
    <3>1. syncReqs' \in [SyncPeer -> Seq(SyncAsked(SyncMaxBlock))] BY <1>5, <2>2
    <3>2. CountAll(syncReqs', SyncPeer, SyncAsked(SyncMaxBlock)) \in Nat BY <1>0, <3>1, CountAllIsNat
    <3>3. CountAll(syncResp', SyncPeer, SyncAnswers) \in Nat BY <1>0, <2>3, CountAllIsNat
    <3> QED BY <1>4, <3>2, <3>3 DEF SyncRequests, SyncReplies
  <2>10. SyncFewInFlight' BY <1>0, <1>1, <1>2, <2>7, <2>8, <2>9 DEF SyncFewInFlight
  <2> QED BY <1>3, <2>6, <2>10 DEF SyncIInv
<1> QED BY <1>6, <1>7, <1>8, <1>9

\* An answer is merged into the chain.
LEMMA SyncMerging ==
  ASSUME Syncing!ChainSyncAssumption, Syncing!Here \in SyncChains, NEW p \in SyncPeer, NEW r \in SyncAnswers
  PROVE  Syncing!Merge(p, r).chain \in SyncChains /\ Syncing!Merge(p, r).chain.last >= syncLast
<1>1. /\ syncLast \in Int /\ syncPool \in -1..SyncMaxBlock /\ SyncMaxBlock \in Nat /\ Syncing!Here.last = syncLast
  BY SyncNumbers DEF Syncing!Here
<1>2. Syncing!Here \in SyncChains /\ Syncing!Here.last >= syncLast BY <1>1
<1>3. CASE Syncing!Merge(p, r).chain = Syncing!Here BY <1>2, <1>3
<1>4. CASE r.to > syncPool /\ Syncing!Merge(p, r).chain = Syncing!ChainAt(r.to, r.to - 1)
  <2>1. r.to \in 0..SyncMaxBlock /\ r.to - 1 \in -1..SyncMaxBlock /\ r.to - 1 <= r.to
    BY <1>1, <1>4 DEF SyncAnswers
  <2> QED BY <1>4, <2>1, SyncGrowing
<1> QED BY <1>3, <1>4 DEF Syncing!Merge

\* The chain becomes c.
LEMMA SyncBecomes ==
  ASSUME NEW c \in SyncChains, Syncing!SetChain(c)
  PROVE  Syncing!Here' = c /\ syncLast' = c.last
<1>1. c = [last |-> c.last, notarized |-> c.notarized, pool |-> c.pool, disk |-> c.disk]
  BY DEF SyncChains
<1> QED BY <1>1 DEF Syncing!SetChain, Syncing!Here

\* The handler of an answer: it may ask again, or put itself to sleep.
LEMMA SyncHandling ==
  ASSUME Syncing!ChainSyncAssumption, SyncIInv, NEW p \in SyncPeer, Syncing!Handle(p)
  PROVE  SyncIInv' /\ syncLast' >= syncLast
<1>0. SyncWireOK /\ Syncing!Here \in SyncChains /\ SyncServingOK /\ SyncFewInFlight /\ syncOutbound \subseteq SyncPeer
      /\ syncReqs \in [SyncPeer -> Seq(SyncAsked(syncLast))] /\ syncLast \in -1..SyncMaxBlock
      /\ syncResp \in [SyncPeer -> Seq(SyncAnswers)] /\ IsFiniteSet(SyncPeer)
      /\ syncReqs \in [SyncPeer -> Seq(SyncAsked(SyncMaxBlock))] /\ syncSync \in Syncs
      /\ (\A q \in SyncPeer : syncResp[q] \in Seq(SyncAnswersOf(q, syncLast)))
      /\ syncLast \in Int /\ SyncMaxBlock \in Int /\ syncLast <= SyncMaxBlock /\ syncAsleep \in Seq(SyncPeer)
  <2>1. SyncWireOK /\ Syncing!Here \in SyncChains /\ SyncServingOK /\ SyncFewInFlight BY DEF SyncIInv
  <2>2. syncReqs \in [SyncPeer -> Seq(SyncAsked(SyncMaxBlock))] BY <2>1, SyncCounting
  <2>3. syncLast \in -1..SyncMaxBlock /\ IsFiniteSet(SyncPeer) /\ SyncMaxBlock \in Nat BY <2>1, SyncNumbers
  <2> QED BY <2>1, <2>2, <2>3 DEF SyncWireOK
<1>1. SyncRequests \in Nat /\ SyncReplies \in Nat /\ Len(syncAsleep) \in Nat /\ MaxInFlight \in Nat
  BY <1>0, SyncCounting, SyncNumbers
<1>2. syncResp[p] # <<>> /\ syncResp' = [syncResp EXCEPT ![p] = Tail(@)] /\ UNCHANGED <<syncOutbound, syncTip>>
  BY DEF Syncing!Handle
<1>3. /\ syncResp' \in [SyncPeer -> Seq(SyncAnswers)] /\ syncResp'[p] = Tail(syncResp[p])
      /\ \A x \in SyncPeer \ {p} : syncResp'[x] = syncResp[x]
      /\ Head(syncResp[p]) \in SyncAnswers
  BY <1>0, <1>2, SyncTaking
<1>4. PICK r : r = Head(syncResp[p]) OBVIOUS
<1>5. r \in SyncAnswers /\ r \in SyncAnswersOf(p, syncLast)
  <2>1. syncResp[p] \in Seq(SyncAnswersOf(p, syncLast)) BY <1>0
  <2> QED BY <1>2, <1>3, <1>4, <2>1
<1>6. \A q \in SyncPeer : syncResp'[q] \in Seq(SyncAnswersOf(q, syncLast))
  <2>1. syncResp[p] \in Seq(SyncAnswersOf(p, syncLast)) BY <1>0
  <2>2. Tail(syncResp[p]) \in Seq(SyncAnswersOf(p, syncLast)) BY <1>2, <2>1
  <2> QED BY <1>0, <1>3, <2>2
<1>7. Moves(SyncReplies, SyncReplies', 1, 0)
  <2>1. Head(syncResp[p]) \in SyncAnswers BY <1>3
  <2>2. Moves(CountAll(syncResp, SyncPeer, SyncAnswers), CountAll(syncResp', SyncPeer, SyncAnswers), 1, 0)
    BY <1>0, <1>2, <1>3, <2>1, CountAllOfTail
  <2>3. SyncAnswers' = SyncAnswers BY DEF SyncAnswers
  <2> QED BY <2>2, <2>3 DEF SyncReplies
\* What is left to show once it is known what the handler does
<1>8. ASSUME NEW c \in SyncChains, Syncing!SetChain(c), c.last >= syncLast,
             syncSync' \in Syncs, syncAsleep' \in Seq(SyncPeer), syncReqs' \in [SyncPeer -> Seq(SyncAsked(c.last))],
             SyncRequests' \in Nat, SyncRequests' + Len(syncAsleep') <= SyncRequests + Len(syncAsleep) + 1,
             syncState' = syncState \/ (syncState' = "SERVING" /\ (SyncAreWhole => c.last >= r.number))
      PROVE  SyncIInv' /\ syncLast' >= syncLast
  <2>1. Syncing!Here' = c /\ syncLast' = c.last BY <1>8, SyncBecomes
  <2>2. Syncing!Here' \in SyncChains' /\ syncLast' \in Int /\ syncLast' >= syncLast
    BY <1>8, <2>1 DEF SyncChains
  <2>3. SyncWireOK'
    <3>1. Syncs' = Syncs /\ SyncAnswers' = SyncAnswers
      BY DEF Syncs, SyncAnswers, Syncing!NoPeer
    <3>2. \A q \in SyncPeer : SyncAnswersOf(q, syncLast)' = SyncAnswersOf(q, syncLast')
      BY DEF SyncAnswersOf, SyncAnswers, SyncAreWhole, Syncing!IsEmpty, Syncing!FinalAfter
    <3>3. \A q \in SyncPeer : syncResp'[q] \in Seq(SyncAnswersOf(q, syncLast'))
      <4>1. \A q \in SyncPeer : Seq(SyncAnswersOf(q, syncLast)) \subseteq Seq(SyncAnswersOf(q, syncLast'))
        BY <1>0, <2>2, SyncWidening
      <4> QED BY <1>6, <4>1
    <3>4. syncReqs' \in [SyncPeer -> Seq(SyncAsked(syncLast'))] BY <1>8, <2>1
    <3>5. SyncAsked(syncLast)' = SyncAsked(syncLast') BY DEF SyncAsked
    <3>6. syncTip' \in [SyncPeer -> 0..SyncMaxBlock] /\ \A q \in SyncPeer : syncTip'[q] >= InitTip[q]
      BY <1>0, <1>2 DEF SyncWireOK
    <3> QED BY <1>0, <1>2, <1>3, <1>8, <3>1, <3>2, <3>3, <3>4, <3>5, <3>6 DEF SyncWireOK
  <2>4. SyncServingOK'
    <3>1. CASE syncState' = syncState
      <4>1. Syncing!Here' \in SyncChains BY <1>8, <2>1
      <4> QED BY <1>0, <2>2, <3>1, <4>1, SyncStillServing
    <3>2. CASE syncState' = "SERVING" /\ (SyncAreWhole => c.last >= r.number)
      <4>1. r.number >= Syncing!FinalAfter(0, InitTip[p]) /\ r.number \in Int
        BY <1>5 DEF SyncAnswersOf, SyncAnswers
      <4>2. Syncing!FinalAfter(0, InitTip[p]) \in Int
        <5>1. InitTip[p] \in Int /\ 0 \in -1..SyncMaxBlock
          <6>1. InitTip[p] \in 0..SyncMaxBlock BY <1>0, SyncNumbers
          <6> QED BY <1>0, <6>1, SyncNumbers
        <5>2. Syncing!FinalAfter(0, InitTip[p]) \in -1..SyncMaxBlock BY <5>1, SyncFinality
        <5> QED BY <5>2
      <4>3. SyncAreWhole => syncLast' >= Syncing!FinalAfter(0, InitTip[p]) BY <2>1, <2>2, <3>2, <4>1, <4>2
      <4> QED BY <3>2, <4>3 DEF SyncServingOK, Syncing!ServingIsSynced, SyncAreWhole, Syncing!FinalAfter
    <3> QED BY <1>8, <3>1, <3>2
  <2>5. SyncFewInFlight'
    <3>1. Len(syncAsleep') \in Nat BY <1>8
    <3> QED BY <1>0, <1>1, <1>7, <1>8, <3>1 DEF SyncFewInFlight, Moves
  <2> QED BY <2>2, <2>3, <2>4, <2>5 DEF SyncIInv, SyncChains, Syncing!Here
<1>9. Syncing!Here.last = syncLast /\ Syncing!Here \in SyncChains BY <1>0 DEF Syncing!Here
<1>10. UNCHANGED Syncing!chain => Syncing!SetChain(Syncing!Here) BY DEF Syncing!chain, Syncing!SetChain, Syncing!Here
<1>11. ASSUME syncReqs' = syncReqs PROVE SyncRequests' = SyncRequests BY <1>11 DEF SyncRequests, SyncAsked
<1> DEFINE m == Syncing!Merge(p, r)
           kept == IF m.result # 0 THEN Syncing!NoPeer ELSE syncSync
           after == IF m.result >= 0 THEN Syncing!CatchUp(p, m.chain, r) ELSE m.chain
<1>12. m.chain \in SyncChains /\ m.chain.last >= syncLast BY <1>0, <1>5, SyncMerging
<1>13. after \in SyncChains /\ after.last >= m.chain.last /\ after.last >= syncLast
  <2>1. Syncing!CatchUp(p, m.chain, r) \in SyncChains /\ Syncing!CatchUp(p, m.chain, r).last >= m.chain.last
    BY <1>5, <1>12, SyncCatchingUp
  <2>2. m.chain.last \in Int /\ Syncing!CatchUp(p, m.chain, r).last \in Int BY <1>12, <2>1 DEF SyncChains
  <2> QED BY <1>0, <1>12, <2>1, <2>2
<1>14. kept \in Syncs BY <1>0 DEF Syncs
<1>15. CASE syncSync.peer # p
  <2>1. UNCHANGED <<syncState, Syncing!chain, syncSync, syncAsleep, syncReqs>> BY <1>15 DEF Syncing!Handle
  <2>2. SyncRequests' = SyncRequests /\ syncAsleep' = syncAsleep /\ syncState' = syncState /\ syncSync' = syncSync BY <1>11, <2>1
  <2>3. SyncRequests' + Len(syncAsleep') <= SyncRequests + Len(syncAsleep) + 1 BY <1>1, <2>2
  <2>4. Syncing!SetChain(Syncing!Here) /\ Syncing!Here.last >= syncLast BY <1>0, <1>9, <1>10, <2>1
  <2>5. syncReqs' \in [SyncPeer -> Seq(SyncAsked(Syncing!Here.last))] BY <1>0, <1>9, <2>1
  <2> QED BY <1>0, <1>1, <1>8, <2>2, <2>3, <2>4, <2>5
<1>16. CASE syncSync.peer = p /\ Syncing!FailsPrecheck(p, r)
  <2>1. syncAsleep' = Append(syncAsleep, p) /\ UNCHANGED <<syncState, Syncing!chain, syncSync, syncReqs>>
    BY <1>4, <1>16 DEF Syncing!Handle
  <2>2. syncAsleep' \in Seq(SyncPeer) /\ Len(syncAsleep') = Len(syncAsleep) + 1 BY <1>0, <2>1
  <2>3. SyncRequests' = SyncRequests /\ syncState' = syncState /\ syncSync' = syncSync BY <1>11, <2>1
  <2>4. SyncRequests' + Len(syncAsleep') <= SyncRequests + Len(syncAsleep) + 1 BY <1>1, <2>2, <2>3
  <2>5. Syncing!SetChain(Syncing!Here) /\ Syncing!Here.last >= syncLast BY <1>0, <1>9, <1>10, <2>1
  <2>6. syncReqs' \in [SyncPeer -> Seq(SyncAsked(Syncing!Here.last))] BY <1>0, <1>9, <2>1
  <2> QED BY <1>0, <1>1, <1>8, <2>2, <2>3, <2>4, <2>5, <2>6
<1>17. CASE syncSync.peer = p /\ ~Syncing!FailsPrecheck(p, r) /\ Syncing!IsCaughtUp(Syncing!Here, r.number)
  <2>1. /\ syncState' = "SERVING" /\ syncSync' = Syncing!NoPeer
        /\ Syncing!SetChain(Syncing!CatchUp(p, Syncing!Here, r)) /\ UNCHANGED <<syncAsleep, syncReqs>>
    BY <1>4, <1>17 DEF Syncing!Handle
  <2>2. PICK c : c = Syncing!CatchUp(p, Syncing!Here, r) OBVIOUS
  <2>3. c \in SyncChains /\ c.last >= syncLast BY <1>5, <1>9, <2>2, SyncCatchingUp
  <2>4. c.last \in Int /\ r.number \in Int /\ syncLast >= r.number
    BY <1>5, <1>9, <1>17, <2>3 DEF SyncChains, SyncAnswers, Syncing!IsCaughtUp
  <2>5. c.last >= r.number BY <1>0, <2>3, <2>4
  <2>6. syncReqs' \in [SyncPeer -> Seq(SyncAsked(c.last))] BY <1>0, <2>1, <2>3, <2>4, SyncWidening
  <2>7. syncSync' \in Syncs BY <2>1 DEF Syncs
  <2>8. SyncRequests' = SyncRequests /\ syncAsleep' = syncAsleep BY <1>11, <2>1
  <2>9. SyncRequests' + Len(syncAsleep') <= SyncRequests + Len(syncAsleep) + 1 BY <1>1, <2>8
  <2>10. syncState' = "SERVING" /\ Syncing!SetChain(c) BY <2>1, <2>2
  <2> QED BY <1>0, <1>1, <1>8, <2>3, <2>5, <2>6, <2>7, <2>8, <2>9, <2>10
<1>18. CASE syncSync.peer = p /\ ~Syncing!FailsPrecheck(p, r) /\ ~Syncing!IsCaughtUp(Syncing!Here, r.number)
  <2>1. /\ syncState' = IF Syncing!IsEmpty(r) \/ (m.result >= 0 /\ Syncing!IsCaughtUp(m.chain, r.number))
                    THEN "SERVING" ELSE syncState
        /\ Syncing!SetChain(after)
        /\ UNCHANGED syncAsleep
        /\ IF after.last <= r.number THEN Syncing!Request(kept, after.last, syncReqs)
           ELSE syncSync' = kept /\ UNCHANGED syncReqs
    BY <1>4, <1>18 DEF Syncing!Handle
  <2>2. /\ after.last \in -1..SyncMaxBlock /\ after.last \in Int /\ m.chain.last \in Int
        /\ r.number \in Int
    BY <1>5, <1>12, <1>13 DEF SyncChains, SyncAnswers
  <2>3. syncReqs \in [SyncPeer -> Seq(SyncAsked(after.last))] BY <1>0, <1>13, <2>2, SyncWidening
  <2>4. /\ syncSync' \in Syncs /\ syncReqs' \in [SyncPeer -> Seq(SyncAsked(after.last))]
        /\ SyncRequests' \in Nat /\ SyncRequests' <= SyncRequests + 1
    <3>1. CASE after.last <= r.number
      <4>1. Syncing!Request(kept, after.last, syncReqs) BY <2>1, <3>1
      <4> HIDE DEF kept, after
      <4>2. /\ syncSync' \in Syncs /\ syncReqs' \in [SyncPeer -> Seq(SyncAsked(after.last))]
            /\ SyncRequests' \in Nat
            /\ SyncRequests' <= CountAll(syncReqs, SyncPeer, SyncAsked(SyncMaxBlock)) + 1
        BY <1>0, <1>14, <2>2, <2>3, <4>1, SyncRequesting
      <4> QED BY <4>2 DEF SyncRequests
    <3>2. CASE ~(after.last <= r.number)
      <4>1. syncSync' = kept /\ syncReqs' = syncReqs BY <2>1, <3>2
      <4> HIDE DEF kept, after
      <4> QED BY <1>1, <1>11, <1>14, <2>3, <4>1
    <3> QED BY <3>1, <3>2
  <2>5. SyncAreWhole => ~Syncing!IsEmpty(r)
    <3>1. r.number > syncLast BY <1>0, <1>9, <1>18, <2>2 DEF Syncing!IsCaughtUp
    <3> QED BY <1>0, <1>5, <2>2, <3>1 DEF SyncAnswersOf
  <2>6. syncState' = syncState \/ (syncState' = "SERVING" /\ (SyncAreWhole => after.last >= r.number))
    <3>1. Syncing!IsCaughtUp(m.chain, r.number) => after.last >= r.number
      BY <1>13, <2>2 DEF Syncing!IsCaughtUp
    <3> QED BY <2>1, <2>5, <3>1
  <2>7. PICK c : c = after OBVIOUS
  <2>8. c \in SyncChains /\ Syncing!SetChain(c) /\ c.last >= syncLast BY <1>13, <2>1, <2>7
  <2>9. syncReqs' \in [SyncPeer -> Seq(SyncAsked(c.last))] BY <2>4, <2>7
  <2>10. syncAsleep' = syncAsleep BY <2>1
  <2>11. SyncRequests' + Len(syncAsleep') <= SyncRequests + Len(syncAsleep) + 1 BY <1>1, <2>4, <2>10
  <2>12. syncState' = syncState \/ (syncState' = "SERVING" /\ (SyncAreWhole => c.last >= r.number))
    BY <2>6, <2>7
  <2> HIDE DEF after, m, kept
  <2> QED BY <1>0, <1>8, <2>4, <2>8, <2>9, <2>10, <2>11, <2>12
<1> QED BY <1>15, <1>16, <1>17, <1>18

\* The blocks of the consensus, and the restart
LEMMA SyncNodeKeeps ==
  ASSUME Syncing!ChainSyncAssumption, SyncIInv, Syncing!Proposal \/ Syncing!Votes \/ Syncing!Restart
  PROVE  SyncIInv' /\ (syncLast' >= syncLast \/ Syncing!Restart)
<1>0. SyncWireOK /\ Syncing!Here \in SyncChains /\ SyncServingOK /\ SyncFewInFlight
      /\ syncLast \in -1..SyncMaxBlock /\ syncPool \in -1..SyncMaxBlock /\ syncNotarized \in -1..SyncMaxBlock
      /\ syncDisk \in -1..SyncMaxBlock /\ SyncMaxBlock \in Nat /\ syncLast \in Int
      /\ syncNotarized <= syncPool /\ 0 \in -1..SyncMaxBlock
      /\ (\A p \in SyncPeer : syncResp[p] \in Seq(SyncAnswersOf(p, syncLast)))
      /\ syncReqs \in [SyncPeer -> Seq(SyncAsked(syncLast))] /\ IsFiniteSet(SyncPeer) /\ MaxInFlight \in Nat
  <2>1. SyncWireOK /\ Syncing!Here \in SyncChains /\ SyncServingOK /\ SyncFewInFlight BY DEF SyncIInv
  <2> QED BY <2>1, SyncNumbers DEF SyncWireOK
<1>1. Syncs' = Syncs /\ SyncAnswers' = SyncAnswers BY DEF Syncs, SyncAnswers, Syncing!NoPeer
<1>2. \A q \in SyncPeer : SyncAnswersOf(q, syncLast)' = SyncAnswersOf(q, syncLast')
  BY DEF SyncAnswersOf, SyncAnswers, SyncAreWhole, Syncing!IsEmpty, Syncing!FinalAfter
<1>3. SyncAsked(syncLast)' = SyncAsked(syncLast') BY DEF SyncAsked
<1>4. ASSUME NEW n \in 0..SyncMaxBlock, Syncing!SetChain(Syncing!ChainAt(n, syncPool)),
             UNCHANGED <<syncState, syncSync, syncAsleep, syncOutbound, syncReqs, syncResp, syncTip>>
      PROVE  SyncIInv' /\ syncLast' >= syncLast
  <2>1. Syncing!ChainAt(n, syncPool) \in SyncChains /\ Syncing!ChainAt(n, syncPool).last >= syncLast
    <3>1. syncPool <= syncPool BY <1>0
    <3> QED BY <1>0, <3>1, SyncGrowing
  <2>2. Syncing!Here' \in SyncChains /\ syncLast' >= syncLast
    <3>1. PICK c : c = Syncing!ChainAt(n, syncPool) OBVIOUS
    <3> QED BY <1>4, <2>1, <3>1, SyncBecomes
  <2>3. syncLast' \in Int BY <2>2 DEF SyncChains, Syncing!Here
  <2>4. SyncWireOK'
    <3>1. \A q \in SyncPeer : syncResp'[q] \in Seq(SyncAnswersOf(q, syncLast'))
      <4>1. \A q \in SyncPeer : Seq(SyncAnswersOf(q, syncLast)) \subseteq Seq(SyncAnswersOf(q, syncLast'))
        BY <1>0, <2>2, <2>3, SyncWidening
      <4> QED BY <1>0, <1>4, <4>1
    <3>2. syncReqs' \in [SyncPeer -> Seq(SyncAsked(syncLast'))]
      <4>1. Seq(SyncAsked(syncLast)) \subseteq Seq(SyncAsked(syncLast')) BY <1>0, <2>2, <2>3, SyncWidening
      <4> QED BY <1>0, <1>4, <4>1
    <3> QED BY <1>0, <1>1, <1>2, <1>3, <1>4, <3>1, <3>2 DEF SyncWireOK
  <2>5. SyncServingOK' BY <1>0, <1>4, <2>2, SyncStillServing
  <2>6. SyncFewInFlight' BY <1>0, <1>4 DEF SyncFewInFlight, SyncRequests, SyncReplies, SyncAsked, SyncAnswers
  <2> QED BY <2>2, <2>4, <2>5, <2>6 DEF SyncIInv, SyncChains
<1>5. CASE Syncing!Proposal
  <2>1. syncPool + 1 \in 0..SyncMaxBlock BY <1>0, <1>5 DEF Syncing!Proposal
  <2>2. Syncing!SetChain(Syncing!ChainAt(syncPool + 1, syncPool))
        /\ UNCHANGED <<syncState, syncSync, syncAsleep, syncOutbound, syncReqs, syncResp, syncTip>>
    BY <1>5 DEF Syncing!Proposal, Syncing!net
  <2> QED BY <1>4, <2>1, <2>2
<1>6. CASE Syncing!Votes
  <2>1. syncPool \in 0..SyncMaxBlock BY <1>0, <1>6 DEF Syncing!Votes
  <2>2. Syncing!SetChain(Syncing!ChainAt(syncPool, syncPool))
        /\ UNCHANGED <<syncState, syncSync, syncAsleep, syncOutbound, syncReqs, syncResp, syncTip>>
    BY <1>6 DEF Syncing!Votes, Syncing!net
  <2> QED BY <1>4, <2>1, <2>2
<1>7. CASE Syncing!Restart
  <2>1. /\ syncDisk >= 0 /\ syncState' = "CHAIN_SYNCING" /\ syncPool' = syncDisk /\ syncDisk' = syncDisk /\ syncTip' = syncTip
        /\ syncLast' = Syncing!FinalAfter(0, syncDisk - 1) /\ syncNotarized' = Syncing!Max({syncDisk - 1, syncLast'})
        /\ syncSync' = Syncing!NoPeer /\ syncAsleep' = <<>> /\ syncOutbound' = {}
        /\ syncReqs' = [p \in SyncPeer |-> <<>>] /\ syncResp' = [p \in SyncPeer |-> <<>>]
    BY <1>7 DEF Syncing!Restart
  <2>2. syncLast' \in -1..SyncMaxBlock /\ (syncLast' <= 0 \/ syncLast' <= syncDisk - 2)
    <3>1. syncDisk - 1 \in Int BY <1>0
    <3>2. /\ Syncing!FinalAfter(0, syncDisk - 1) \in -1..SyncMaxBlock
          /\ Syncing!FinalAfter(0, syncDisk - 1) <= 0 \/ Syncing!FinalAfter(0, syncDisk - 1) <= syncDisk - 1 - 1
      BY <1>0, <3>1, SyncFinality
    <3> QED BY <1>0, <2>1, <3>2
  <2>3. syncNotarized' = IF syncDisk - 1 >= syncLast' THEN syncDisk - 1 ELSE syncLast'
    <3>1. syncDisk - 1 \in Int /\ syncLast' \in Int BY <1>0, <2>2
    <3> QED BY <2>1, <3>1, SyncLargerOf
  <2>4. /\ syncNotarized' \in -1..SyncMaxBlock /\ syncLast' <= syncNotarized' /\ syncNotarized' <= syncPool'
        /\ syncLast' <= syncDisk' /\ syncPool' \in -1..SyncMaxBlock /\ syncDisk' \in -1..SyncMaxBlock
    BY <1>0, <2>1, <2>2, <2>3
  <2>5. Syncing!Here' \in SyncChains'
    <3>1. Syncing!Here' = [last |-> syncLast', notarized |-> syncNotarized', pool |-> syncPool', disk |-> syncDisk']
      BY DEF Syncing!Here
    <3> QED BY <2>2, <2>4, <3>1 DEF SyncChains
  <2>6. SyncWireOK'
    <3>1. syncReqs' \in [SyncPeer -> Seq(SyncAsked(syncLast'))] /\ syncResp' \in [SyncPeer -> Seq(SyncAnswers)]
          /\ (\A q \in SyncPeer : syncResp'[q] \in Seq(SyncAnswersOf(q, syncLast')))
          /\ syncSync' \in Syncs /\ syncAsleep' \in Seq(SyncPeer) /\ syncOutbound' \subseteq SyncPeer
      BY <2>1 DEF Syncs
    <3> QED BY <1>0, <1>1, <1>2, <1>3, <2>1, <3>1 DEF SyncWireOK
  <2>7. SyncServingOK' BY <2>1 DEF SyncServingOK, Syncing!ServingIsSynced
  <2>8. SyncFewInFlight'
    <3>1. (\A p \in SyncPeer : syncReqs'[p] = <<>>) /\ (\A p \in SyncPeer : syncResp'[p] = <<>>) BY <2>1
    <3>2. CountAll(syncReqs', SyncPeer, SyncAsked(SyncMaxBlock)) = 0 /\ CountAll(syncResp', SyncPeer, SyncAnswers) = 0
      BY <1>0, <3>1, CountAllOfNone
    <3>3. SyncRequests' = 0 /\ SyncReplies' = 0 BY <1>1, <3>2 DEF SyncRequests, SyncReplies
    <3>4. Len(syncAsleep') = 0 BY <2>1
    <3> QED BY <1>0, <3>3, <3>4 DEF SyncFewInFlight
  <2> QED BY <1>7, <2>5, <2>6, <2>7, <2>8 DEF SyncIInv
<1> QED BY <1>5, <1>6, <1>7

\* Every step keeps the invariant, and only a restart takes the chain back.
LEMMA SyncSteps ==
  ASSUME Syncing!ChainSyncAssumption, SyncIInv, [Syncing!Next]_Syncing!vars
  PROVE  SyncIInv' /\ [syncLast' >= syncLast \/ Syncing!Restart]_Syncing!vars
<1>1. ASSUME NEW p \in SyncPeer, Syncing!Handle(p) PROVE SyncIInv' /\ syncLast' >= syncLast BY <1>1, SyncHandling
<1>2. ASSUME NEW p \in SyncPeer, Syncing!Connect(p) \/ Syncing!NodeCloses(p) \/ Syncing!Answer(p) \/ Syncing!NotReady(p)
                             \/ Syncing!Extend(p) \/ Syncing!PeerCloses(p)
      PROVE  SyncIInv' /\ syncLast' >= syncLast
  BY <1>2, SyncPeerKeeps
<1>3. ASSUME Syncing!Trigger \/ Syncing!BufferElapses \/ Syncing!Wake PROVE SyncIInv' /\ syncLast' >= syncLast BY <1>3, SyncRequester
<1>4. ASSUME Syncing!Proposal \/ Syncing!Votes \/ Syncing!Restart PROVE SyncIInv' /\ (syncLast' >= syncLast \/ Syncing!Restart)
  BY <1>4, SyncNodeKeeps
<1>5. CASE UNCHANGED Syncing!vars
  <2>1. SyncIInv'
    BY <1>5
    DEF Syncing!vars, SyncIInv, SyncWireOK, Syncing!Here, SyncChains, SyncServingOK, Syncing!ServingIsSynced, SyncAreWhole, SyncFewInFlight,
        SyncRequests, SyncReplies, SyncAsked, SyncAnswers, SyncAnswersOf, Syncs
  <2> QED BY <1>5, <2>1
<1> QED BY <1>1, <1>2, <1>3, <1>4, <1>5 DEF Syncing!Next, Syncing!NodeSteps, Syncing!PeerSteps

\* The invariant of the sync implies its types, with the bounds on what is under way.
LEMMA SyncTyped == ASSUME Syncing!ChainSyncAssumption, SyncIInv PROVE Syncing!TypeOK
<1>1. SyncWireOK /\ Syncing!Here \in SyncChains /\ SyncServingOK /\ SyncFewInFlight BY DEF SyncIInv
<1>2. /\ syncLast \in -1..SyncMaxBlock /\ syncNotarized \in -1..SyncMaxBlock /\ syncPool \in -1..SyncMaxBlock
      /\ syncDisk \in -1..SyncMaxBlock
      /\ syncLast <= syncDisk /\ syncLast <= syncNotarized /\ syncNotarized <= syncPool
  BY <1>1, SyncNumbers
<1>3. {syncLast, syncNotarized, syncPool, syncDisk} \subseteq -1..SyncMaxBlock BY <1>2
<1>4. syncSync = Syncing!NoPeer \/ (syncSync.peer \in SyncPeer /\ syncSync.lastBlockNumber \in -2..SyncMaxBlock)
  BY <1>1 DEF SyncWireOK, Syncs
<1>5. syncOutbound \subseteq SyncPeer /\ \A p \in SyncPeer : syncTip[p] \in 0..SyncMaxBlock BY <1>1 DEF SyncWireOK
<1>6. Syncing!InFlight <= MaxInFlight BY <1>1, SyncCounting DEF SyncFewInFlight
<1>7. syncState \in {"CHAIN_SYNCING", "SERVING"} BY <1>1 DEF SyncServingOK
<1> QED BY <1>2, <1>3, <1>4, <1>5, <1>6, <1>7 DEF Syncing!TypeOK

-----------------------------------------------------------------------------
(* The reports of a shard: the blocks of a transaction are written one     *)
(* after the other, and each one follows the latest, or is there already.  *)

RepWriteStep(s, b, r) == Reports!Write(r, b)
RepBlockAt(s, i) == s[i]
RepLatest(S) == CHOOSE x \in S : \A y \in S : x >= y

RepWriting == INSTANCE FoldTheorems WITH Op <- RepWriteStep, Value <- RepBlockAt, Pick <- RepLatest

\* What a call has read when m is the last final block
RepStages(m) ==
  {Reports!Idle} \cup [at : {"asking"}, last : 0..m]
  \cup [at : {"answered"}, last : 0..m, confirmed : -1..m] \cup {[at |-> "sending"]}

\* The call that sends is the one that the flag stands for.
RepOneSender ==
  /\ \A c, d \in Call : repCalls[c].at = "sending" /\ repCalls[d].at = "sending" => c = d
  /\ repBusy <=> \E c \in Call : repCalls[c].at = "sending"

\* The calls and transactions are of blocks that are final.
RepCallsOK ==
  /\ repLast \in 0..ShardMaxBlock /\ repSent \in -1..repLast
  /\ repTxs \subseteq [from : 0..repLast, to : 0..repLast]
  /\ \A tx \in repTxs : tx.from <= tx.to
  /\ repCalls \in [Call -> RepStages(repLast)]
  /\ repBusy \in BOOLEAN
  /\ RepOneSender

\* What the parent chain has is in order.
RepConsecutive(s) ==
  /\ \A i \in DOMAIN s.reports : s.reports[i] = s.latest - Len(s.reports) + i
  /\ s.latest >= 0 => s.reports # <<>>

\* What the parent chain has when its latest block was at least n and the last final
\* block of the shard is m
RepStates(n, m) ==
  {s \in [ok : BOOLEAN, latest : -1..m, reports : Seq(0..m)] :
     /\ s.latest >= n
     /\ \A i \in DOMAIN s.reports : s.reports[i] <= s.latest
     /\ ~Lightweight => RepConsecutive(s)}

RepIInv == RepCallsOK /\ Reports!Here \in RepStates(-1, repLast)

\* Max and Min of two numbers (reportShardProofHashes).
LEMMA RepLargerOfTwo ==
  ASSUME NEW i \in Int, NEW j \in Int
  PROVE  /\ Reports!Max({i, j}) = IF i >= j THEN i ELSE j
         /\ Reports!Min({i, j}) = IF i <= j THEN i ELSE j
<1>1. \E x \in {i, j} : \A y \in {i, j} : x >= y
  <2>1. CASE i >= j BY <2>1
  <2>2. CASE ~(i >= j) BY <2>2
  <2> QED BY <2>1, <2>2
<1>2. Reports!Max({i, j}) \in {i, j} /\ \A y \in {i, j} : Reports!Max({i, j}) >= y BY <1>1 DEF Reports!Max
<1>3. \E x \in {i, j} : \A y \in {i, j} : x <= y
  <2>1. CASE i <= j BY <2>1
  <2>2. CASE ~(i <= j) BY <2>2
  <2> QED BY <2>1, <2>2
<1>4. Reports!Min({i, j}) \in {i, j} /\ \A y \in {i, j} : Reports!Min({i, j}) <= y BY <1>3 DEF Reports!Min
<1>5. Reports!Max({i, j}) = IF i >= j THEN i ELSE j BY <1>2
<1>6. Reports!Min({i, j}) = IF i <= j THEN i ELSE j BY <1>4
<1> QED BY <1>5, <1>6

\* The garbage collection leaves the newest reports, and at least one.
LEMMA RepCollecting ==
  ASSUME Reports!ShardAssumption, NEW m \in Nat, NEW list \in Seq(0..m), list # <<>>
  PROVE  \E k \in 0..(Len(list) - 1) :
           /\ Reports!Collected(list) \in Seq(0..m) /\ Len(Reports!Collected(list)) = Len(list) - k
           /\ \A i \in DOMAIN Reports!Collected(list) : Reports!Collected(list)[i] = list[i + k]
<1>1. NumDeleted \in Nat \ {0} /\ MaxReports \in Nat \ {0} /\ NumDeleted <= MaxReports
  BY DEF Reports!ShardAssumption
<1>2. Len(list) \in Nat \ {0} OBVIOUS
<1>3. CASE Len(list) > MaxReports
  <2>1. PICK t : t = SubSeq(list, NumDeleted + 1, Len(list)) OBVIOUS
  <2>2. /\ t \in Seq(0..m) /\ Len(t) = Len(list) - NumDeleted
        /\ \A i \in 1 .. Len(t) : t[i] = list[i + NumDeleted]
        /\ DOMAIN t = 1 .. Len(t)
    BY <1>1, <1>2, <1>3, <2>1
  <2>3. Reports!Collected(list) = t BY <1>3, <2>1 DEF Reports!Collected
  <2>4. NumDeleted \in 0..(Len(list) - 1) BY <1>1, <1>2, <1>3
  <2> QED BY <2>2, <2>3, <2>4
<1>4. CASE ~(Len(list) > MaxReports)
  <2>1. Reports!Collected(list) = list BY <1>4 DEF Reports!Collected
  <2>2. 0 \in 0..(Len(list) - 1) /\ \A i \in DOMAIN list : list[i] = list[i + 0] BY <1>2
  <2> QED BY <1>2, <2>1, <2>2
<1> QED BY <1>3, <1>4

\* An operation of a transaction keeps it so.
LEMMA RepWriteKeeps ==
  ASSUME Reports!ShardAssumption, NEW m \in Nat, NEW n \in Int, NEW s \in RepStates(n, m), NEW b \in 0..m
  PROVE  Reports!Write(s, b) \in RepStates(n, m)
<1>1. /\ s.ok \in BOOLEAN /\ s.latest \in -1..m /\ s.reports \in Seq(0..m) /\ s.latest >= n
      /\ s = [ok |-> s.ok, latest |-> s.latest, reports |-> s.reports]
      /\ \A i \in DOMAIN s.reports : s.reports[i] <= s.latest
      /\ ~Lightweight => RepConsecutive(s)
  BY DEF RepStates
<1>2. CASE ~s.ok \/ ~Reports!IsPermitted(b, s)
  <2>1. Reports!Write(s, b) = [ok |-> FALSE, latest |-> s.latest, reports |-> s.reports]
    BY <1>1, <1>2 DEF Reports!Write
  <2> QED BY <1>1, <2>1 DEF RepStates, RepConsecutive
<1>3. CASE s.ok /\ Reports!IsPermitted(b, s)
  <2> DEFINE list == IF Reports!Contains(s.reports, b) THEN s.reports ELSE Append(s.reports, b)
             top == IF s.latest >= b THEN s.latest ELSE b
  <2>1. Reports!Write(s, b) = [ok |-> TRUE, latest |-> top, reports |-> Reports!Collected(list)]
    <3>1. Reports!Max({s.latest, b}) = top BY <1>1, RepLargerOfTwo
    <3> HIDE DEF top
    <3> QED BY <1>3, <3>1 DEF Reports!Write
  <2>2. top \in -1..m /\ top >= n /\ top >= s.latest /\ top >= b BY <1>1
  <2>3. list \in Seq(0..m) /\ list # <<>>
    <3>1. CASE Reports!Contains(s.reports, b) BY <1>1, <3>1 DEF Reports!Contains
    <3>2. CASE ~Reports!Contains(s.reports, b)
      <4>1. PICK t : t = Append(s.reports, b) OBVIOUS
      <4>2. t \in Seq(0..m) /\ Len(t) = Len(s.reports) + 1 /\ Len(s.reports) \in Nat BY <1>1, <4>1
      <4>3. t # <<>> BY <4>2
      <4> QED BY <3>2, <4>1, <4>2, <4>3
    <3> QED BY <3>1, <3>2
  <2>4. \A i \in DOMAIN list : list[i] <= top
    <3>1. CASE Reports!Contains(s.reports, b) BY <1>1, <2>2, <3>1
    <3>2. CASE ~Reports!Contains(s.reports, b)
      <4>1. SUFFICES ASSUME NEW i \in DOMAIN Append(s.reports, b)
                     PROVE  Append(s.reports, b)[i] <= top
        BY <3>2
      <4>2. i \in 1 .. Len(s.reports) \/ i = Len(s.reports) + 1 BY <1>1
      <4> HIDE DEF top
      <4> QED BY <1>1, <2>2, <4>2
    <3> QED BY <3>1, <3>2
  <2>5. ASSUME ~Lightweight
        PROVE  \A i \in DOMAIN list : list[i] = top - Len(list) + i
    <3>1. \A i \in DOMAIN s.reports : s.reports[i] = s.latest - Len(s.reports) + i
      BY <1>1, <2>5 DEF RepConsecutive
    <3>2. CASE Reports!Contains(s.reports, b)
      <4>1. b <= s.latest BY <1>1, <3>2 DEF Reports!Contains
      <4> QED BY <1>1, <3>1, <3>2, <4>1
    <3>3. CASE ~Reports!Contains(s.reports, b)
      <4>1. b = s.latest + 1 BY <1>3, <2>5, <3>3 DEF Reports!IsPermitted
      <4>2. top = b BY <1>1, <4>1
      <4>3. SUFFICES ASSUME NEW i \in DOMAIN Append(s.reports, b)
                     PROVE  Append(s.reports, b)[i] = top - Len(Append(s.reports, b)) + i
        BY <3>3
      <4>4. i \in 1 .. Len(s.reports) \/ i = Len(s.reports) + 1 BY <1>1
      <4>5. Len(Append(s.reports, b)) = Len(s.reports) + 1 BY <1>1
      <4> HIDE DEF top
      <4> QED BY <1>1, <3>1, <4>1, <4>2, <4>4, <4>5
    <3> QED BY <3>2, <3>3
  <2> HIDE DEF list, top
  <2>6. PICK k \in 0..(Len(list) - 1) :
          /\ Reports!Collected(list) \in Seq(0..m) /\ Len(Reports!Collected(list)) = Len(list) - k
          /\ \A i \in DOMAIN Reports!Collected(list) : Reports!Collected(list)[i] = list[i + k]
    BY <2>3, RepCollecting
  <2>7. PICK kept : kept = Reports!Collected(list) OBVIOUS
  <2>8. kept \in Seq(0..m) /\ Len(kept) = Len(list) - k /\ Len(list) \in Nat /\ kept # <<>>
        /\ \A i \in DOMAIN kept : kept[i] = list[i + k] /\ i + k \in DOMAIN list
    BY <2>3, <2>6, <2>7
  <2>9. \A i \in DOMAIN kept : kept[i] <= top BY <2>4, <2>8
  <2>10. ASSUME ~Lightweight PROVE \A i \in DOMAIN kept : kept[i] = top - Len(kept) + i
    <3>1. \A i \in DOMAIN list : list[i] = top - Len(list) + i BY <2>5, <2>10
    <3> QED BY <2>2, <2>8, <3>1
  <2>11. Reports!Write(s, b) = [ok |-> TRUE, latest |-> top, reports |-> kept] BY <2>1, <2>7
  <2>12. PICK w : w = [ok |-> TRUE, latest |-> top, reports |-> kept] OBVIOUS
  <2>13. w.latest = top /\ w.reports = kept BY <2>12
  <2>14. w \in [ok : BOOLEAN, latest : -1..m, reports : Seq(0..m)] BY <2>2, <2>8, <2>12
  <2>15. ~Lightweight => RepConsecutive(w) BY <2>8, <2>10, <2>13 DEF RepConsecutive
  <2> QED BY <2>2, <2>9, <2>11, <2>12, <2>13, <2>14, <2>15 DEF RepStates
<1> QED BY <1>2, <1>3

\* All operations of a transaction do.
LEMMA RepWritesKeep ==
  ASSUME Reports!ShardAssumption, NEW m \in Nat, NEW n \in Int, NEW s \in RepStates(n, m),
         NEW tx \in [from : 0..m, to : 0..m]
  PROVE  Reports!FoldLeft(Reports!Write, s, Reports!BlocksOf(tx)) \in RepStates(n, m)
<1>1. PICK q : q = Reports!BlocksOf(tx) OBVIOUS
<1>2. /\ q \in Seq(0..m) /\ DOMAIN q = 1 .. (tx.to - tx.from + 1)
      /\ \A i \in DOMAIN q : q[i] \in 0..m
  <2>1. tx.from \in 0..m /\ tx.to \in 0..m OBVIOUS
  <2>2. q = [i \in 1 .. (tx.to - tx.from + 1) |-> tx.from + i - 1] BY <1>1 DEF Reports!BlocksOf
  <2>3. \A i \in 1 .. (tx.to - tx.from + 1) : tx.from + i - 1 \in 0..m BY <2>1
  <2> HIDE <1>1
  <2>4. CASE tx.to >= tx.from
    <3>1. PICK k \in Nat : k = tx.to - tx.from + 1 BY <2>1, <2>4
    <3>2. q = [i \in 1 .. k |-> tx.from + i - 1] BY <2>2, <3>1
    <3>3. \A i \in 1 .. k : tx.from + i - 1 \in 0..m BY <2>3, <3>1
    <3>4. q \in [1 .. k -> 0..m] BY <3>2, <3>3
    <3>5. q \in Seq(0..m) /\ DOMAIN q = 1 .. k /\ \A i \in 1 .. k : q[i] \in 0..m BY <3>1, <3>4
    <3> QED BY <3>1, <3>5
  <2>5. CASE ~(tx.to >= tx.from)
    <3>1. 1 .. (tx.to - tx.from + 1) = {} BY <2>1, <2>5
    <3>2. q = <<>> BY <2>2, <3>1
    <3> QED BY <3>1, <3>2
  <2> QED BY <2>4, <2>5
<1>3. Reports!FoldLeft(Reports!Write, s, q) = RepWriting!Fold(q, s, DOMAIN q)
  BY Zenon DEF Reports!FoldLeft, Reports!MapThenFoldSet, RepWriting!Fold, RepWriting!FoldOf, RepWriting!IsFold,
     RepWriteStep, RepBlockAt, RepLatest, Reports!Max
<1>4. IsFiniteSet(DOMAIN q)
  <2>1. tx.to - tx.from + 1 \in Int /\ 1 \in Int OBVIOUS
  <2> QED BY <1>2, <2>1, FS_Interval
<1>8. RepWriting!IsFiniteSet(DOMAIN q) BY <1>4 DEF IsFiniteSet, RepWriting!IsFiniteSet
<1>5. RepWriting!Picks(DOMAIN q)
  <2>1. ASSUME NEW T \in SUBSET DOMAIN q, T # {} PROVE RepLatest(T) \in T
    <3>1. IsFiniteSet(T) BY <1>4, <2>1, FS_Subset
    <3>3. T \subseteq Int BY <1>2, <2>1
    <3>2. \E x \in T : \A y \in T : x >= y BY <2>1, <3>1, <3>3, LargestExists
    <3> QED BY <3>2 DEF RepLatest
  <2> QED BY <2>1 DEF RepWriting!Picks
<1>6. RepWriting!Keeps(q, DOMAIN q, RepStates(n, m))
  BY <1>2, RepWriteKeeps DEF RepWriting!Keeps, RepWriteStep, RepBlockAt
<1>7. RepWriting!Fold(q, s, DOMAIN q) \in RepStates(n, m) BY <1>5, <1>6, <1>8, RepWriting!FoldKeeps
<1> QED BY <1>1, <1>3, <1>7

-----------------------------------------------------------------------------
\* The reports start in their invariant: nothing was reported.
LEMMA RepStarting == ASSUME Reports!ShardAssumption, Reports!Init PROVE RepIInv
<1>1. ShardMaxBlock \in Nat BY DEF Reports!ShardAssumption
<1>2. \A c \in Call : repCalls[c] = Reports!Idle BY DEF Reports!Init
<1>3. repCalls \in [Call -> RepStages(repLast)] BY DEF Reports!Init, RepStages
<1>4. RepOneSender BY <1>2 DEF Reports!Init, RepOneSender, Reports!Idle
<1>5. RepCallsOK
  <2>1. repLast = 0 /\ repSent = -1 /\ repBusy = FALSE /\ repTxs = {} BY DEF Reports!Init
  <2>2. repLast \in 0..ShardMaxBlock /\ repSent \in -1..repLast BY <1>1, <2>1
  <2>3. repTxs \subseteq [from : 0..repLast, to : 0..repLast] /\ \A tx \in repTxs : tx.from <= tx.to BY <2>1
  <2>4. repBusy \in BOOLEAN BY <2>1
  <2> QED BY <1>3, <1>4, <2>2, <2>3, <2>4 DEF RepCallsOK
<1>6. /\ Reports!Here \in [ok : BOOLEAN, latest : -1..repLast, reports : Seq(0..repLast)]
      /\ Reports!Here.latest = -1 /\ Reports!Here.reports = <<>>
  BY DEF Reports!Init, Reports!Here
<1>7. Reports!Here \in RepStates(-1, repLast) BY <1>6 DEF RepStates, RepConsecutive
<1> QED BY <1>5, <1>7 DEF RepIInv

\* What is in order stays so when the shard has one more block.
LEMMA RepMoreBlocks ==
  ASSUME NEW m \in Nat, NEW n \in -1..m, NEW s \in RepStates(n, m)
  PROVE  s \in RepStates(-1, m) /\ s \in RepStates(-1, m + 1)
<1>1. s \in [ok : BOOLEAN, latest : -1..m, reports : Seq(0..m)] BY DEF RepStates
<1>2. s.reports \in Seq(0..m + 1)
  <2>1. s.reports \in Seq(0..m) BY <1>1
  <2>2. Seq(0..m) \subseteq Seq(0..m + 1) OBVIOUS
  <2> QED BY <2>1, <2>2
<1>3. s \in [ok : BOOLEAN, latest : -1..m + 1, reports : Seq(0..m + 1)] BY <1>1, <1>2
<1> QED BY <1>1, <1>3 DEF RepStates

\* A call goes to another stage.
LEMMA RepStaged ==
  ASSUME NEW m \in Nat, NEW before \in [Call -> RepStages(m)], NEW c \in Call, NEW v \in RepStages(m)
  PROVE  /\ [before EXCEPT ![c] = v] \in [Call -> RepStages(m)]
         /\ \A d \in Call : [before EXCEPT ![c] = v][d] = IF d = c THEN v ELSE before[d]
OBVIOUS

\* A step of one call
LEMMA RepCallSteps ==
  ASSUME Reports!ShardAssumption, RepIInv, NEW c \in Call,
         Reports!Ask(c) \/ Reports!Reply(c) \/ Reports!NoReply(c) \/ Reports!Report(c) \/ Reports!Done(c)
  PROVE  RepCallsOK'
<1>1. /\ repLast \in 0..ShardMaxBlock /\ repSent \in -1..repLast /\ ShardMaxBlock \in Nat /\ repLast \in Nat
      /\ Limit \in Nat \ {0} /\ repLatest \in -1..repLast
      /\ repCalls \in [Call -> RepStages(repLast)] /\ repCalls[c] \in RepStages(repLast) /\ repBusy \in BOOLEAN
      /\ RepOneSender
  <2>1. repLast \in 0..ShardMaxBlock /\ ShardMaxBlock \in Nat BY DEF RepIInv, RepCallsOK, Reports!ShardAssumption
  <2>2. repLast \in Nat BY <2>1
  <2> QED BY <2>1, <2>2 DEF RepIInv, RepCallsOK, Reports!ShardAssumption, RepStates, Reports!Here
\* The call moves to a stage that is not sending.
<1>2. ASSUME NEW v \in RepStages(repLast), repCalls' = [repCalls EXCEPT ![c] = v], v.at # "sending",
             repCalls[c].at # "sending", UNCHANGED <<repLast, repSent, repBusy, repTxs>>
      PROVE  RepCallsOK'
  <2>1. /\ repCalls' \in [Call -> RepStages(repLast)]
        /\ \A d \in Call : repCalls'[d] = IF d = c THEN v ELSE repCalls[d]
    BY <1>1, <1>2, RepStaged
  <2>2. \A d \in Call : repCalls'[d].at = "sending" <=> repCalls[d].at = "sending" BY <1>2, <2>1
  <2>3. RepOneSender' BY <1>1, <1>2, <2>2 DEF RepOneSender
  <2> QED BY <1>2, <2>1, <2>3 DEF RepIInv, RepCallsOK, RepStages
<1>3. CASE Reports!Ask(c)
  <2> DEFINE v == [at |-> "asking", last |-> repLast]
  <2>1. v \in RepStages(repLast) /\ v.at # "sending" BY <1>1 DEF RepStages
  <2>2. repCalls[c].at # "sending" /\ repCalls' = [repCalls EXCEPT ![c] = v]
        /\ UNCHANGED <<repLast, repSent, repBusy, repTxs>>
    BY <1>3 DEF Reports!Ask, Reports!Idle
  <2> HIDE DEF v
  <2> QED BY <1>2, <2>1, <2>2
<1>4. CASE Reports!Reply(c)
  <2> DEFINE v == [at |-> "answered", last |-> repCalls[c].last, confirmed |-> repLatest]
  <2>1. repCalls[c] \in [at : {"asking"}, last : 0..repLast] BY <1>1, <1>4 DEF Reports!Reply, RepStages, Reports!Idle
  <2>2. v \in RepStages(repLast) /\ v.at # "sending" BY <1>1, <2>1 DEF RepStages
  <2>3. repCalls[c].at # "sending" /\ repCalls' = [repCalls EXCEPT ![c] = v]
        /\ UNCHANGED <<repLast, repSent, repBusy, repTxs>>
    BY <1>4 DEF Reports!Reply
  <2> HIDE DEF v
  <2> QED BY <1>2, <2>2, <2>3
<1>5. CASE Reports!NoReply(c)
  <2>1. Reports!Idle \in RepStages(repLast) /\ Reports!Idle.at # "sending" BY DEF RepStages, Reports!Idle
  <2>2. repCalls[c].at # "sending" /\ repCalls' = [repCalls EXCEPT ![c] = Reports!Idle]
        /\ UNCHANGED <<repLast, repSent, repBusy, repTxs>>
    BY <1>5 DEF Reports!NoReply
  <2> QED BY <1>2, <2>1, <2>2
<1>6. CASE Reports!Report(c)
  <2> DEFINE tx == Reports!ToReport(repCalls[c])
             begins == ~repBusy /\ tx.from <= tx.to
  <2>1. /\ repSent' = IF begins THEN tx.to ELSE repSent
        /\ repTxs' = IF begins THEN repTxs \cup {tx} ELSE repTxs
        /\ repBusy' = (repBusy \/ begins)
        /\ repCalls' = [repCalls EXCEPT ![c] = IF begins THEN [at |-> "sending"] ELSE Reports!Idle]
        /\ repLast' = repLast /\ repCalls[c].at = "answered"
    BY <1>6 DEF Reports!Report
  <2>2. repCalls[c] \in [at : {"answered"}, last : 0..repLast, confirmed : -1..repLast]
    BY <1>1, <2>1 DEF RepStages, Reports!Idle
  <2>3. /\ tx.from = repCalls[c].confirmed + 1 /\ tx.from \in Nat
        /\ tx.to \in Int /\ tx.to <= repLast /\ tx = [from |-> tx.from, to |-> tx.to]
    <3>1. PICK i \in 0..repLast : i = repCalls[c].last BY <2>2
    <3>2. PICK j \in Int : j = repCalls[c].confirmed + Limit BY <1>1, <2>2
    <3>3. i \in Int /\ i <= repLast BY <1>1
    <3>4. Reports!Min({i, j}) = IF i <= j THEN i ELSE j BY <3>2, <3>3, RepLargerOfTwo
    <3>5. Reports!Min({i, j}) \in Int /\ Reports!Min({i, j}) <= repLast BY <1>1, <3>2, <3>3, <3>4
    <3>6. tx = [from |-> repCalls[c].confirmed + 1, to |-> Reports!Min({i, j})] BY <3>1, <3>2 DEF Reports!ToReport
    <3>7. repCalls[c].confirmed + 1 \in Nat BY <1>1, <2>2
    <3> QED BY <3>5, <3>6, <3>7
  <2> HIDE DEF tx
  <2>4. CASE ~begins
    <3>1. Reports!Idle \in RepStages(repLast) /\ Reports!Idle.at # "sending" BY DEF RepStages, Reports!Idle
    <3>2. repCalls' = [repCalls EXCEPT ![c] = Reports!Idle] /\ UNCHANGED <<repLast, repSent, repTxs>> BY <2>1, <2>4
    <3>3. repBusy' = repBusy BY <1>1, <2>1, <2>4
    <3> QED BY <1>2, <2>1, <3>1, <3>2, <3>3
  <2>5. CASE begins
    <3> DEFINE v == [at |-> "sending"]
    <3>1. ~repBusy /\ repBusy' = TRUE /\ repCalls' = [repCalls EXCEPT ![c] = v] /\ repSent' = tx.to
          /\ repTxs' = repTxs \cup {tx} /\ tx.from <= tx.to /\ repLast' = repLast
      BY <2>1, <2>5
    <3>2. v \in RepStages(repLast) /\ v.at = "sending" BY DEF RepStages
    <3> HIDE DEF v
    <3>3. /\ repCalls' \in [Call -> RepStages(repLast)]
          /\ \A d \in Call : repCalls'[d] = IF d = c THEN v ELSE repCalls[d]
      BY <1>1, <3>1, <3>2, RepStaged
    <3>4. \A d \in Call : repCalls[d].at # "sending" BY <1>1, <3>1 DEF RepOneSender
    <3>5. \A d \in Call : repCalls'[d].at = "sending" <=> d = c BY <3>2, <3>3, <3>4
    <3>6. RepOneSender' BY <3>1, <3>5 DEF RepOneSender
    <3>7. tx \in [from : 0..repLast, to : 0..repLast] /\ repSent' \in -1..repLast BY <1>1, <2>3, <3>1
    <3>8. repTxs' \subseteq [from : 0..repLast, to : 0..repLast] /\ \A t \in repTxs' : t.from <= t.to
      BY <3>1, <3>7 DEF RepIInv, RepCallsOK
    <3>9. repCalls' \in [Call -> RepStages(repLast)]' BY <3>1, <3>3 DEF RepStages
    <3> QED BY <1>1, <3>1, <3>6, <3>7, <3>8, <3>9 DEF RepCallsOK
  <2> QED BY <2>4, <2>5
<1>7. CASE Reports!Done(c)
  <2>1. /\ repCalls[c].at = "sending" /\ repCalls' = [repCalls EXCEPT ![c] = Reports!Idle] /\ repBusy' = FALSE
        /\ UNCHANGED <<repLast, repSent, repTxs>>
    BY <1>7 DEF Reports!Done
  <2>2. Reports!Idle \in RepStages(repLast) /\ Reports!Idle.at # "sending" BY DEF RepStages, Reports!Idle
  <2>3. /\ repCalls' \in [Call -> RepStages(repLast)]
        /\ \A d \in Call : repCalls'[d] = IF d = c THEN Reports!Idle ELSE repCalls[d]
    BY <1>1, <2>1, <2>2, RepStaged
  <2>4. \A d \in Call : repCalls[d].at = "sending" => d = c BY <1>1, <2>1 DEF RepOneSender
  <2>5. \A d \in Call : repCalls'[d].at # "sending" BY <2>2, <2>3, <2>4
  <2>6. RepOneSender' BY <2>1, <2>5 DEF RepOneSender
  <2>7. repCalls' \in [Call -> RepStages(repLast)]' BY <2>1, <2>3 DEF RepStages
  <2> QED BY <2>1, <2>6, <2>7 DEF RepIInv, RepCallsOK
<1> QED BY <1>3, <1>4, <1>5, <1>6, <1>7

\* A transaction is executed as a whole or not at all.
LEMMA RepExecuting ==
  ASSUME Reports!ShardAssumption, RepIInv, NEW tx \in repTxs, Reports!Execute(tx)
  PROVE  RepIInv' /\ Reports!Here' \in RepStates(repLatest, repLast)
<1>1. /\ tx \in [from : 0..repLast, to : 0..repLast] /\ repLast \in Nat /\ Reports!Here \in RepStates(-1, repLast)
      /\ repLatest \in -1..repLast /\ Reports!Here \in RepStates(repLatest, repLast)
      /\ repReports \in Seq(0..repLast)
  BY DEF RepIInv, RepCallsOK, Reports!ShardAssumption, RepStates, Reports!Here
<1>2. PICK after \in RepStates(repLatest, repLast) : after = Reports!FoldLeft(Reports!Write, Reports!Here, Reports!BlocksOf(tx))
  BY <1>1, RepWritesKeep
<1>3. /\ after.ok \in BOOLEAN
      /\ IF after.ok THEN repLatest' = after.latest /\ repReports' = after.reports
         ELSE repLatest' = repLatest /\ repReports' = repReports
      /\ UNCHANGED <<repLast, repSent, repBusy, repCalls>> /\ repTxs' = repTxs \ {tx}
  BY <1>2 DEF Reports!Execute, Reports!parent, Reports!reporter, RepStates
<1>4. CASE ~after.ok
  <2>1. Reports!Here' = Reports!Here BY <1>3, <1>4 DEF Reports!Here
  <2> QED BY <1>1, <1>3, <2>1 DEF RepIInv, RepCallsOK, RepStages, RepOneSender
<1>5. CASE after.ok
  <2>1. after = [ok |-> after.ok, latest |-> after.latest, reports |-> after.reports]
    BY <1>2 DEF RepStates
  <2>2. Reports!Here' = after BY <1>3, <1>5, <2>1 DEF Reports!Here
  <2>3. after \in RepStates(-1, repLast) BY <1>1, <1>2, RepMoreBlocks
  <2> QED BY <1>2, <1>3, <2>2, <2>3 DEF RepIInv, RepCallsOK, RepStages, RepOneSender
<1> QED BY <1>3, <1>4, <1>5

\* Every step keeps calls, transactions and reports in order.
LEMMA RepSteps == ASSUME Reports!ShardAssumption, RepIInv, [Reports!Next]_Reports!vars PROVE RepIInv'
<1>1. CASE Reports!Finalize
  <2>1. /\ repLast \in 0..ShardMaxBlock /\ ShardMaxBlock \in Nat /\ repLast < ShardMaxBlock /\ repLast' = repLast + 1
        /\ UNCHANGED <<repSent, repBusy, repCalls, repTxs, repLatest, repReports>>
    BY <1>1 DEF Reports!Finalize, RepIInv, RepCallsOK, Reports!ShardAssumption, Reports!reporter, Reports!parent
  <2>2. repLast' \in 0..ShardMaxBlock /\ repSent' \in -1..repLast' BY <2>1 DEF RepIInv, RepCallsOK
  <2>3. repTxs' \subseteq [from : 0..repLast', to : 0..repLast']
    <3>1. 0..repLast \subseteq 0..repLast' BY <2>1
    <3> QED BY <2>1, <3>1 DEF RepIInv, RepCallsOK
  <2>4. repCalls' \in [Call -> RepStages(repLast)]'
    <3>1. 0..repLast \subseteq 0..repLast' /\ -1..repLast \subseteq -1..repLast' BY <2>1
    <3>2. RepStages(repLast) \subseteq RepStages(repLast)' BY <3>1 DEF RepStages
    <3>3. repCalls \in [Call -> RepStages(repLast)] /\ repCalls' = repCalls BY <2>1 DEF RepIInv, RepCallsOK
    <3> QED BY <3>2, <3>3
  <2>5. RepOneSender' BY <2>1 DEF RepIInv, RepCallsOK, RepOneSender
  <2>8. RepCallsOK' BY <2>1, <2>2, <2>3, <2>4, <2>5 DEF RepIInv, RepCallsOK
  <2>6. Reports!Here' = Reports!Here /\ repLast \in Nat BY <2>1 DEF Reports!Here
  <2>7. Reports!Here' \in RepStates(-1, repLast')
    <3>1. Reports!Here \in RepStates(-1, repLast) /\ -1 \in -1..repLast BY <2>6 DEF RepIInv
    <3> QED BY <2>1, <2>6, <3>1, RepMoreBlocks
  <2> QED BY <2>7, <2>8 DEF RepIInv
<1>2. CASE Reports!Restart
  <2>1. /\ repSent' = -1 /\ repBusy' = FALSE /\ repCalls' = [c \in Call |-> Reports!Idle]
        /\ UNCHANGED <<repLast, repTxs, repLatest, repReports>>
    BY <1>2 DEF Reports!Restart, Reports!parent
  <2>2. \A c \in Call : repCalls'[c] = Reports!Idle BY <2>1
  <2>3. repCalls' \in [Call -> RepStages(repLast)]' BY <2>1 DEF RepStages
  <2>4. RepOneSender' BY <2>1, <2>2 DEF RepOneSender, Reports!Idle
  <2>6. repSent' \in -1..repLast' /\ repLast' = repLast BY <2>1 DEF RepIInv, RepCallsOK, Reports!ShardAssumption
  <2>7. RepCallsOK' BY <2>1, <2>3, <2>4, <2>6 DEF RepIInv, RepCallsOK
  <2>8. Reports!Here' = Reports!Here BY <2>1 DEF Reports!Here
  <2> QED BY <2>1, <2>7, <2>8 DEF RepIInv
<1>3. ASSUME NEW c \in Call, Reports!Ask(c) \/ Reports!Reply(c) \/ Reports!NoReply(c) \/ Reports!Report(c) \/ Reports!Done(c)
      PROVE  RepIInv'
  <2>1. UNCHANGED <<repLast, repLatest, repReports>>
    BY <1>3 DEF Reports!Ask, Reports!Reply, Reports!NoReply, Reports!Report, Reports!Done, Reports!parent
  <2>2. Reports!Here' = Reports!Here BY <2>1 DEF Reports!Here
  <2> QED BY <1>3, <2>1, <2>2, RepCallSteps DEF RepIInv
<1>4. ASSUME NEW tx \in repTxs, Reports!Execute(tx) \/ Reports!Lose(tx) PROVE RepIInv'
  <2>1. CASE Reports!Execute(tx) BY <2>1, RepExecuting
  <2>2. CASE Reports!Lose(tx)
    <3>1. UNCHANGED <<repLast, repSent, repBusy, repCalls, repLatest, repReports>> /\ repTxs' = repTxs \ {tx}
      BY <2>2 DEF Reports!Lose, Reports!reporter, Reports!parent
    <3>2. Reports!Here' = Reports!Here BY <3>1 DEF Reports!Here
    <3> QED BY <3>1, <3>2 DEF RepIInv, RepCallsOK, RepStages, RepOneSender
  <2> QED BY <1>4, <2>1, <2>2
<1>5. CASE UNCHANGED Reports!vars
  <2>1. UNCHANGED <<repLast, repSent, repBusy, repCalls, repTxs, repLatest, repReports>>
    BY <1>5 DEF Reports!vars, Reports!reporter, Reports!parent
  <2>2. Reports!Here' = Reports!Here BY <2>1 DEF Reports!Here
  <2> QED BY <2>1, <2>2 DEF RepIInv, RepCallsOK, RepStages, RepOneSender
<1> QED BY <1>1, <1>2, <1>3, <1>4, <1>5 DEF Reports!Next

\* The invariant of the reports implies their types: one call sends at a time.
LEMMA RepTyped == ASSUME Reports!ShardAssumption, RepIInv PROVE Reports!TypeOK
<1>1. repLast \in 0..ShardMaxBlock /\ ShardMaxBlock \in Nat BY DEF RepIInv, RepCallsOK, Reports!ShardAssumption
<1>2. /\ repLatest \in -1..repLast /\ repReports \in Seq(0..repLast) /\ repLast \in Nat
      /\ \A i \in DOMAIN repReports : repReports[i] <= repLatest
  <2>1. repLast \in Nat BY <1>1
  <2> QED BY <2>1 DEF RepIInv, RepStates, Reports!Here
<1>3. Reports!ToSet(repReports) \subseteq 0..repLatest
  <2>1. \A i \in DOMAIN repReports : repReports[i] \in 0..repLast BY <1>2
  <2>2. \A i \in DOMAIN repReports : repReports[i] \in 0..repLatest BY <1>2, <2>1
  <2> QED BY <2>2 DEF Reports!ToSet
<1>4. \A c \in Call : repCalls[c].at \in {"idle", "asking", "answered", "sending"}
  <2>1. \A v \in RepStages(repLast) : v.at \in {"idle", "asking", "answered", "sending"}
    BY DEF RepStages, Reports!Idle
  <2> QED BY <2>1 DEF RepIInv, RepCallsOK
<1>5. \A tx \in repTxs : tx.from \in 0..tx.to /\ tx.to <= repLast
  BY <1>2 DEF RepIInv, RepCallsOK
<1> QED BY <1>2, <1>3, <1>4, <1>5 DEF Reports!TypeOK, RepIInv, RepCallsOK, RepOneSender

\* The parent chain has the reports of the newest blocks, without a gap.
LEMMA RepInOrder ==
  ASSUME RepIInv, ~Lightweight
  PROVE  Reports!ReportsAreConsecutive /\ (repLatest >= 0 => Reports!Contains(repReports, repLatest))
<1>1. /\ \A i \in DOMAIN repReports : repReports[i] = repLatest - Len(repReports) + i
      /\ repLatest >= 0 => repReports # <<>>
      /\ repReports \in Seq(0..repLast) /\ repLatest \in -1..repLast
  BY DEF RepIInv, RepStates, RepConsecutive, Reports!Here
<1>2. ASSUME repLatest >= 0 PROVE Reports!Contains(repReports, repLatest)
  <2>1. Len(repReports) \in DOMAIN repReports BY <1>1, <1>2
  <2>2. repReports[Len(repReports)] = repLatest BY <1>1, <2>1
  <2> QED BY <2>1, <2>2 DEF Reports!Contains
<1> QED BY <1>1, <1>2 DEF Reports!ReportsAreConsecutive

\* Only a transaction changes what is reported, and the latest block only upwards.
LEMMA RepNeverLess ==
  ASSUME Reports!ShardAssumption, RepIInv, ~Lightweight, [Reports!Next]_Reports!vars
  PROVE  [repLatest' >= repLatest /\ (repLatest' >= 0 => Reports!Contains(repReports', repLatest'))]_Reports!vars
<1>1. repLatest \in Int BY DEF RepIInv, RepStates, Reports!Here
<1>2. RepIInv' BY RepSteps
<1>3. repLatest' >= 0 => Reports!Contains(repReports', repLatest')
  <2>1. /\ \A i \in DOMAIN repReports' : repReports'[i] = repLatest' - Len(repReports') + i
        /\ repLatest' >= 0 => repReports' # <<>>
        /\ repReports' \in Seq(0..repLast') /\ repLatest' \in -1..repLast'
    BY <1>2 DEF RepIInv, RepStates, RepConsecutive, Reports!Here
  <2>2. SUFFICES ASSUME repLatest' >= 0 PROVE Reports!Contains(repReports', repLatest') OBVIOUS
  <2>3. Len(repReports') \in DOMAIN repReports' BY <2>1, <2>2
  <2>4. repReports'[Len(repReports')] = repLatest' BY <2>1, <2>3
  <2> QED BY <2>3, <2>4 DEF Reports!Contains
<1>4. repLatest' >= repLatest
  <2>1. ASSUME NEW tx \in repTxs, Reports!Execute(tx) PROVE repLatest' >= repLatest
    <3>1. Reports!Here' \in RepStates(repLatest, repLast) BY <2>1, RepExecuting
    <3> QED BY <3>1 DEF RepStates, Reports!Here
  <2>2. CASE repLatest' = repLatest BY <1>1, <2>2
  <2> QED
    BY <2>1, <2>2
    DEF Reports!Next, Reports!Finalize, Reports!Restart, Reports!Ask, Reports!Reply, Reports!NoReply, Reports!Report, Reports!Done, Reports!Lose, Reports!parent, Reports!vars
<1> QED BY <1>3, <1>4

ColdRequest == [kind : {"snapshot"}] \cup [kind : {"old"}, oldest : 1..ColdMaxBlock]

ColdSegment == [kind : {"old"}, from : -1..ColdMaxBlock, to : 0..ColdMaxBlock + 1]

ColdAnswer == [kind : {"refused"}] \cup [kind : {"chunk"}, index : Nat] \cup ColdSegment

ColdOld == {Cold!NoPeer} \cup [peer : ColdPeer, oldest : 1..ColdMaxBlock]

\* Messages, streams and the two syncs have their shape.
ColdWireOK ==
  /\ coldStateSync \in {Cold!NoPeer} \cup [peer : ColdPeer, chunks : Nat]
  /\ coldOutbound \subseteq ColdPeer
  /\ coldSent \in [ColdPeer -> Seq(ColdRequest)]
  /\ coldGot \in [ColdPeer -> Seq(ColdAnswer)]
  /\ coldStream \in [ColdPeer -> {Cold!Nobody, Cold!Another} \cup [to : {"me"}, next : Nat]]

\* No handler of old blocks before the snapshot is there.
ColdNothingOldYet == coldOldSync = Cold!NoPeer /\ coldOldDone = FALSE /\ coldAsleep = <<>>

\* Of the old chain: what oldSync, oldDone, disk and oldest are together.
ColdOldOK ==
  /\ coldOldSync \in ColdOld /\ coldOldDone \in BOOLEAN
  /\ coldState # "CHAIN_SYNCING" => ColdNothingOldYet
  /\ coldState = "CHAIN_SYNCING" => coldOldest \in Top..ColdMaxBlock
  /\ Cold!FilesAreContiguous
  /\ Cold!DoneIsWhole

ColdIInv == ColdWireOK /\ ColdOldOK

-----------------------------------------------------------------------------
\* A message more in a queue.
LEMMA ColdSending ==
  ASSUME NEW S, NEW q \in [ColdPeer -> Seq(S)], NEW p \in ColdPeer, NEW e \in S
  PROVE  [q EXCEPT ![p] = Append(@, e)] \in [ColdPeer -> Seq(S)]
OBVIOUS

\* The first message of a queue is taken.
LEMMA ColdTaking ==
  ASSUME NEW S, NEW q \in [ColdPeer -> Seq(S)], NEW p \in ColdPeer, q[p] # <<>>
  PROVE  /\ Head(q[p]) \in S
         /\ [q EXCEPT ![p] = Tail(@)] \in [ColdPeer -> Seq(S)]
<1>1. q[p] \in Seq(S) OBVIOUS
<1>2. Head(q[p]) \in S /\ Tail(q[p]) \in Seq(S) BY <1>1
<1> QED BY <1>2

\* getOldBlockList answers with block numbers.
LEMMA ColdOldBlocks ==
  ASSUME Cold!ColdStartAssumption, NEW p \in ColdPeer, NEW n \in 1..ColdMaxBlock
  PROVE  Cold!OldBlockList(p, n - 1) \in ColdSegment
<1> DEFINE m == n - 1 - OldSegmentLength + 1
           S == {ColdFirst[p], m}
<1>1. /\ ColdFirst[p] \in 0..ColdMaxBlock /\ m \in Int /\ m <= n - 1
      /\ n \in Int /\ ColdMaxBlock \in Nat /\ n - 1 \in 0..ColdMaxBlock
  BY DEF Cold!ColdStartAssumption
<1>2. \E x \in S : \A y \in S : x >= y
  <2>1. CASE ColdFirst[p] >= m BY <1>1, <2>1
  <2>2. CASE ~(ColdFirst[p] >= m) BY <1>1, <2>2
  <2> QED BY <2>1, <2>2
<1> HIDE DEF S
<1>3. Cold!Max(S) \in S /\ \A y \in S : Cold!Max(S) >= y
  BY <1>2 DEF Cold!Max
<1>4. (Cold!Max(S) = ColdFirst[p] \/ Cold!Max(S) = m) /\ Cold!Max(S) >= ColdFirst[p]
  BY <1>3 DEF S
<1> HIDE DEF m
<1>5. n - 1 >= ColdFirst[p] => Cold!Max(S) \in 0..ColdMaxBlock
  BY <1>1, <1>4
<1>6. (IF n - 1 < ColdFirst[p] THEN n - 1 + 1 ELSE Cold!Max(S)) \in 0..ColdMaxBlock + 1
  BY <1>1, <1>5
<1> QED BY <1>1, <1>6 DEF Cold!OldBlockList, ColdSegment, S, m

\* The segment that joins the files leaves no gap.
LEMMA ColdJoining ==
  ASSUME Cold!ColdStartAssumption, ColdOldOK, coldState = "CHAIN_SYNCING",
         NEW p \in ColdPeer, NEW r \in ColdSegment, ~Cold!IsEmpty(r), Cold!PassesPrecheck(p, r)
  PROVE  \E b \in 0..Top :
           /\ coldDisk \cup {Cold!BlockOf(p, n) : n \in r.to .. r.from} = b..coldOldest
           /\ b <= r.to
<1>1. PICK a \in 0..Top : coldDisk = a..coldOldest BY DEF ColdOldOK, Cold!FilesAreContiguous
<1>2. /\ coldOldest \in Top..ColdMaxBlock /\ Top \in 1..ColdMaxBlock /\ ColdMaxBlock \in Nat
  BY DEF ColdOldOK, Cold!ColdStartAssumption
<1>3. r.from \in -1..ColdMaxBlock /\ r.to \in 0..ColdMaxBlock + 1 /\ r.to <= r.from
  BY <1>2 DEF ColdSegment, Cold!IsEmpty
<1>4. p \notin ColdForeign
  BY <1>1, <1>2, <1>3 DEF Cold!PassesPrecheck, Cold!BlockOf
<1>5. r.from + 1 \in a..coldOldest
  BY <1>1, <1>4 DEF Cold!PassesPrecheck, Cold!BlockOf
<1>6. {Cold!BlockOf(p, n) : n \in r.to .. r.from} = r.to .. r.from
  BY <1>4 DEF Cold!BlockOf
<1> DEFINE b == IF a <= r.to THEN a ELSE r.to
<1>7. b \in 0..Top /\ b <= r.to
  BY <1>2, <1>3
<1>8. a..coldOldest \cup r.to..r.from = b..coldOldest
  BY <1>2, <1>3, <1>5
<1> QED BY <1>1, <1>6, <1>7, <1>8

-----------------------------------------------------------------------------
\* requestOldChainSegment asks below the oldest block the node has.
LEMMA ColdRequesting ==
  ASSUME Cold!ColdStartAssumption, coldOutbound \subseteq ColdPeer,
         NEW s \in ColdOld, NEW force, NEW o \in 1..ColdMaxBlock, NEW q \in [ColdPeer -> Seq(ColdRequest)],
         coldOldDone \in BOOLEAN, Cold!RequestOld(s, force, o, q)
  PROVE  /\ coldOldSync' \in ColdOld /\ coldOldDone' = coldOldDone
         /\ coldSent' \in [ColdPeer -> Seq(ColdRequest)]
<1>1. ASSUME NEW t \in Cold!Assigned(s, force, o)
      PROVE  t \in [peer : ColdPeer, oldest : 1..ColdMaxBlock]
  BY <1>1 DEF Cold!Assigned, ColdOld
<1>2. CASE coldOldSync' = s /\ coldSent' = q /\ UNCHANGED coldOldDone
  BY <1>2
<1>3. CASE ~coldOldDone /\ \E t \in Cold!Assigned(s, force, o) :
             IF t.oldest = 0
             THEN coldOldSync' = Cold!NoPeer /\ coldOldDone' = TRUE /\ coldSent' = q
             ELSE /\ coldOldSync' = t /\ UNCHANGED coldOldDone
                  /\ coldSent' = [q EXCEPT ![t.peer] = Append(@, [kind |-> "old", oldest |-> t.oldest])]
  <2>1. PICK t \in Cold!Assigned(s, force, o) :
             IF t.oldest = 0
             THEN coldOldSync' = Cold!NoPeer /\ coldOldDone' = TRUE /\ coldSent' = q
             ELSE /\ coldOldSync' = t /\ UNCHANGED coldOldDone
                  /\ coldSent' = [q EXCEPT ![t.peer] = Append(@, [kind |-> "old", oldest |-> t.oldest])]
    BY <1>3
  <2>2. t.peer \in ColdPeer /\ t.oldest \in 1..ColdMaxBlock /\ t \in ColdOld
    BY <1>1 DEF ColdOld
  <2>3. [kind |-> "old", oldest |-> t.oldest] \in ColdRequest
    BY <2>2 DEF ColdRequest
  <2>4. t.oldest # 0
    BY <2>2
  <2>5. coldOldSync' = t /\ UNCHANGED coldOldDone
    BY <2>1, <2>4
  <2>6. coldSent' = [q EXCEPT ![t.peer] = Append(@, [kind |-> "old", oldest |-> t.oldest])]
    BY <2>1, <2>4
  <2>7. coldSent' \in [ColdPeer -> Seq(ColdRequest)]
    BY <2>2, <2>3, <2>6, ColdSending
  <2> QED BY <2>2, <2>5, <2>7
<1> QED BY <1>2, <1>3 DEF Cold!RequestOld

\* The old chain is as it was.
LEMMA ColdOldStays ==
  ASSUME ColdOldOK, UNCHANGED <<coldState, Cold!old, coldOldest>>
  PROVE  ColdOldOK'
BY DEF ColdOldOK, Cold!old, ColdNothingOldYet, Cold!FilesAreContiguous, Cold!DoneIsWhole

\* The node starts where it is told to.
LEMMA ColdStarting == ASSUME Cold!ColdStartAssumption PROVE Cold!Init => ColdIInv
<1> SUFFICES ASSUME Cold!Init PROVE ColdIInv OBVIOUS
<1>1. ColdWireOK BY DEF Cold!Init, ColdWireOK
<1>2. ColdOldOK
  BY DEF Cold!Init, ColdOldOK, ColdOld, ColdNothingOldYet, Cold!FilesAreContiguous, Cold!DoneIsWhole
<1> QED BY <1>1, <1>2 DEF ColdIInv

\* A request for the snapshot, and the steps of a peer, are not about old blocks.
LEMMA ColdSnapshots ==
  ASSUME ColdIInv, NEW p \in ColdPeer,
         \/ Cold!RequestSnapshotChunks \/ Cold!StartStream(p) \/ Cold!SendChunk(p)
         \/ Cold!StreamToAnother(p) \/ Cold!EndOfStream(p)
  PROVE  ColdIInv'
<1>1. CASE Cold!RequestSnapshotChunks
  <2>1. PICK q \in coldOutbound :
          /\ coldStateSync' = [peer |-> q, chunks |-> 0]
          /\ coldSent' = [coldSent EXCEPT ![q] = Append(@, [kind |-> "snapshot"])]
    BY <1>1 DEF Cold!RequestSnapshotChunks
  <2>2. q \in ColdPeer /\ [kind |-> "snapshot"] \in ColdRequest
    BY DEF ColdIInv, ColdWireOK, ColdRequest
  <2>3. coldSent' \in [ColdPeer -> Seq(ColdRequest)]
    BY <2>1, <2>2, ColdSending DEF ColdIInv, ColdWireOK
  <2>4. ColdWireOK'
    BY <1>1, <2>1, <2>2, <2>3 DEF Cold!RequestSnapshotChunks, ColdIInv, ColdWireOK
  <2> QED BY <1>1, <2>4, ColdOldStays DEF Cold!RequestSnapshotChunks, ColdIInv
<1>2. CASE Cold!StartStream(p)
  <2>1. coldSent' \in [ColdPeer -> Seq(ColdRequest)]
    BY <1>2, ColdTaking DEF Cold!StartStream, ColdIInv, ColdWireOK
  <2>2. [kind |-> "refused"] \in ColdAnswer
    BY DEF ColdAnswer
  <2>3. coldGot' \in [ColdPeer -> Seq(ColdAnswer)]
    <3>1. CASE coldGot' = coldGot BY <3>1 DEF ColdIInv, ColdWireOK
    <3>2. CASE coldGot' = [coldGot EXCEPT ![p] = Append(@, [kind |-> "refused"])]
      BY <2>2, <3>2, ColdSending DEF ColdIInv, ColdWireOK
    <3> QED BY <1>2, <3>1, <3>2 DEF Cold!StartStream
  <2>4. coldStream' \in [ColdPeer -> {Cold!Nobody, Cold!Another} \cup [to : {"me"}, next : Nat]]
    BY <1>2 DEF Cold!StartStream, ColdIInv, ColdWireOK
  <2>5. ColdWireOK'
    BY <1>2, <2>1, <2>3, <2>4 DEF Cold!StartStream, ColdIInv, ColdWireOK
  <2> QED BY <1>2, <2>5, ColdOldStays DEF Cold!StartStream, ColdIInv
<1>3. CASE Cold!SendChunk(p)
  <2>1. coldStream[p].next \in Nat /\ coldStream[p] \in [to : {"me"}, next : Nat]
    BY <1>3 DEF Cold!SendChunk, ColdIInv, ColdWireOK, Cold!Nobody, Cold!Another
  <2>2. [kind |-> "chunk", index |-> coldStream[p].next] \in ColdAnswer
    BY <2>1 DEF ColdAnswer
  <2>3. coldGot' \in [ColdPeer -> Seq(ColdAnswer)]
    BY <1>3, <2>2, ColdSending DEF Cold!SendChunk, ColdIInv, ColdWireOK
  <2>4. coldStream' \in [ColdPeer -> {Cold!Nobody, Cold!Another} \cup [to : {"me"}, next : Nat]]
    BY <1>3, <2>1 DEF Cold!SendChunk, ColdIInv, ColdWireOK
  <2>5. ColdWireOK'
    BY <1>3, <2>3, <2>4 DEF Cold!SendChunk, ColdIInv, ColdWireOK
  <2> QED BY <1>3, <2>5, ColdOldStays DEF Cold!SendChunk, ColdIInv
<1>4. CASE Cold!StreamToAnother(p)
  <2>1. ColdWireOK'
    BY <1>4 DEF Cold!StreamToAnother, Cold!wire, ColdIInv, ColdWireOK
  <2> QED BY <1>4, <2>1, ColdOldStays DEF Cold!StreamToAnother, ColdIInv
<1>5. CASE Cold!EndOfStream(p)
  <2>1. ColdWireOK'
    BY <1>5 DEF Cold!EndOfStream, Cold!wire, ColdIInv, ColdWireOK
  <2> QED BY <1>5, <2>1, ColdOldStays DEF Cold!EndOfStream, ColdIInv
<1> QED BY <1>1, <1>2, <1>3, <1>4, <1>5

\* A peer answers a request for old blocks, and connections come and go.
LEMMA ColdPeers ==
  ASSUME Cold!ColdStartAssumption, ColdIInv, NEW p \in ColdPeer,
         Cold!AnswerOld(p) \/ Cold!RefuseOld(p) \/ Cold!Disconnect(p) \/ Cold!Connect(p)
  PROVE  ColdIInv'
<1>1. CASE Cold!AnswerOld(p)
  <2>1. Head(coldSent[p]) \in ColdRequest /\ coldSent' \in [ColdPeer -> Seq(ColdRequest)]
    BY <1>1, ColdTaking DEF Cold!AnswerOld, ColdIInv, ColdWireOK
  <2>2. Head(coldSent[p]).oldest \in 1..ColdMaxBlock
    BY <1>1, <2>1 DEF Cold!AnswerOld, ColdRequest
  <2>3. Cold!OldBlockList(p, Head(coldSent[p]).oldest - 1) \in ColdAnswer
    BY <2>2, ColdOldBlocks DEF ColdAnswer
  <2>4. coldGot' \in [ColdPeer -> Seq(ColdAnswer)]
    BY <1>1, <2>3, ColdSending DEF Cold!AnswerOld, ColdIInv, ColdWireOK
  <2>5. ColdWireOK'
    BY <1>1, <2>1, <2>4 DEF Cold!AnswerOld, ColdIInv, ColdWireOK
  <2> QED BY <1>1, <2>5, ColdOldStays DEF Cold!AnswerOld, ColdIInv
<1>2. CASE Cold!RefuseOld(p)
  <2>1. coldSent' \in [ColdPeer -> Seq(ColdRequest)]
    BY <1>2, ColdTaking DEF Cold!RefuseOld, ColdIInv, ColdWireOK
  <2>2. Cold!Empty \in ColdAnswer
    BY DEF Cold!Empty, ColdAnswer, ColdSegment, Cold!ColdStartAssumption
  <2>3. coldGot' \in [ColdPeer -> Seq(ColdAnswer)]
    BY <1>2, <2>2, ColdSending DEF Cold!RefuseOld, ColdIInv, ColdWireOK
  <2>4. ColdWireOK'
    BY <1>2, <2>1, <2>3 DEF Cold!RefuseOld, ColdIInv, ColdWireOK
  <2> QED BY <1>2, <2>4, ColdOldStays DEF Cold!RefuseOld, ColdIInv
<1>3. CASE Cold!Disconnect(p)
  <2>1. coldSent' \in [ColdPeer -> Seq(ColdRequest)] /\ coldGot' \in [ColdPeer -> Seq(ColdAnswer)]
    BY <1>3 DEF Cold!Disconnect, ColdIInv, ColdWireOK
  <2>2. coldStream' \in [ColdPeer -> {Cold!Nobody, Cold!Another} \cup [to : {"me"}, next : Nat]]
    BY <1>3 DEF Cold!Disconnect, ColdIInv, ColdWireOK
  <2>3. ColdWireOK'
    BY <1>3, <2>1, <2>2 DEF Cold!Disconnect, ColdIInv, ColdWireOK
  <2> QED BY <1>3, <2>3, ColdOldStays DEF Cold!Disconnect, ColdIInv
<1>4. CASE Cold!Connect(p)
  <2>1. ColdWireOK'
    BY <1>4 DEF Cold!Connect, Cold!wire, ColdIInv, ColdWireOK
  <2> QED BY <1>4, <2>1, ColdOldStays DEF Cold!Connect, ColdIInv
<1> QED BY <1>1, <1>2, <1>3, <1>4

-----------------------------------------------------------------------------
\* A segment is written where it joins the files, and the sync is done only when
\* it reached block 0.
LEMMA ColdHandlingOld ==
  ASSUME Cold!ColdStartAssumption, ColdIInv, NEW p \in ColdPeer, NEW r \in ColdSegment, Cold!HandleOld(p, r)
  PROVE  ColdOldOK'
<1>1. coldState' = coldState /\ coldOldest' = coldOldest
  BY DEF Cold!HandleOld
<1>2. CASE UNCHANGED Cold!old
  BY <1>1, <1>2, ColdOldStays DEF ColdIInv
<1>3. CASE coldOldSync.peer = p
  <2>1. /\ coldState = "CHAIN_SYNCING" /\ coldOldSync \in [peer : ColdPeer, oldest : 1..ColdMaxBlock]
    BY <1>3 DEF ColdIInv, ColdOldOK, ColdNothingOldYet, ColdOld, Cold!NoPeer, Cold!ColdStartAssumption
  <2>2. CASE ~Cold!IsEmpty(r) /\ ~Cold!PassesPrecheck(p, r)
    BY <1>1, <1>3, <2>1, <2>2
    DEF Cold!HandleOld, ColdIInv, ColdOldOK, Cold!FilesAreContiguous, Cold!DoneIsWhole
  <2>3. CASE Cold!IsEmpty(r)
    <3>1. {Cold!BlockOf(p, n) : n \in r.to .. r.from} = {}
      BY <2>3 DEF Cold!IsEmpty, ColdSegment, Cold!ColdStartAssumption
    <3>2. Cold!Reached(r) \in 1..ColdMaxBlock /\ Cold!Reached(r) > 0
      BY <2>1, <2>3 DEF Cold!Reached, Cold!ColdStartAssumption
    <3>3. /\ coldDisk' = coldDisk \cup {Cold!BlockOf(p, n) : n \in r.to .. r.from}
          /\ coldOldSync' = [coldOldSync EXCEPT !.oldest = Cold!Reached(r)] /\ UNCHANGED coldOldDone
      BY <1>3, <2>3, <3>2 DEF Cold!HandleOld
    <3>4. coldDisk' = coldDisk
      BY <3>1, <3>3
    <3>5. coldOldSync' \in ColdOld
      BY <2>1, <3>2, <3>3 DEF ColdOld
    <3> QED BY <1>1, <2>1, <3>3, <3>5, <3>4 DEF ColdIInv, ColdOldOK, Cold!FilesAreContiguous, Cold!DoneIsWhole
  <2>4. CASE ~Cold!IsEmpty(r) /\ Cold!PassesPrecheck(p, r)
    <3>1. coldDisk' = coldDisk \cup {Cold!BlockOf(p, n) : n \in r.to .. r.from}
      BY <1>3, <2>4 DEF Cold!HandleOld
    <3>2. PICK b \in 0..Top : coldDisk' = b..coldOldest /\ b <= r.to
      BY <2>1, <2>4, <3>1, ColdJoining DEF ColdIInv
    <3>3. Cold!FilesAreContiguous'
      BY <1>1, <3>2 DEF Cold!FilesAreContiguous
    <3>4. Cold!Reached(r) = r.to /\ r.to \in 0..ColdMaxBlock /\ ColdMaxBlock \in Nat /\ Top \in 1..ColdMaxBlock
      BY <2>4 DEF Cold!Reached, Cold!IsEmpty, ColdSegment, Cold!ColdStartAssumption
    <3>5. CASE Cold!Reached(r) > 0
      <4>1. coldOldSync' = [coldOldSync EXCEPT !.oldest = r.to] /\ UNCHANGED coldOldDone
        BY <1>3, <2>4, <3>4, <3>5 DEF Cold!HandleOld
      <4>2. coldOldSync' \in ColdOld
        BY <2>1, <3>4, <3>5, <4>1 DEF ColdOld
      <4>3. coldOldDone => coldDisk' = 0..coldOldest
        <5>1. SUFFICES ASSUME coldOldDone PROVE coldDisk' = 0..coldOldest OBVIOUS
        <5>2. coldDisk = 0..coldOldest /\ coldOldest \in Top..ColdMaxBlock
          BY <2>1, <5>1 DEF ColdIInv, ColdOldOK, Cold!DoneIsWhole
        <5>3. 0 \in coldDisk'
          BY <3>1, <3>4, <5>2
        <5>4. 0 \in b..coldOldest
          BY <3>2, <5>3
        <5> QED BY <3>2, <3>4, <5>2, <5>4
      <4> QED BY <1>1, <2>1, <3>3, <4>1, <4>2, <4>3 DEF ColdIInv, ColdOldOK, Cold!DoneIsWhole
    <3>6. CASE ~(Cold!Reached(r) > 0)
      <4>1. coldOldSync' = Cold!NoPeer /\ coldOldDone' = TRUE
        BY <1>3, <2>4, <3>6 DEF Cold!HandleOld
      <4>2. coldDisk' = 0..coldOldest'
        BY <1>1, <3>2, <3>4, <3>6
      <4> QED BY <1>1, <2>1, <3>3, <4>1, <4>2 DEF ColdIInv, ColdOldOK, ColdOld, Cold!DoneIsWhole
    <3> QED BY <3>5, <3>6
  <2> QED BY <2>2, <2>3, <2>4
<1> QED BY <1>2, <1>3 DEF Cold!HandleOld

\* With the last chunk the node starts from the snapshot, and its first request is
\* for the block below it.
LEMMA ColdHandlingChunk ==
  ASSUME Cold!ColdStartAssumption, ColdIInv, NEW p \in ColdPeer, NEW r \in ColdAnswer, Cold!HandleChunk(p, r),
         UNCHANGED coldOutbound
  PROVE  /\ ColdOldOK'
         /\ coldSent' \in [ColdPeer -> Seq(ColdRequest)]
         /\ coldStateSync' \in {Cold!NoPeer} \cup [peer : ColdPeer, chunks : Nat]
<1> DEFINE Chunks == {Cold!NoPeer} \cup [peer : ColdPeer, chunks : Nat]
<1>1. CASE UNCHANGED <<coldState, coldStateSync, Cold!old, coldOldest, coldSent>>
  BY <1>1, ColdOldStays DEF ColdIInv, ColdWireOK
<1>2. CASE coldState = "STATE_SYNCING" /\ coldStateSync.peer = p
  <2>1. /\ ColdNothingOldYet /\ coldStateSync \in [peer : ColdPeer, chunks : Nat]
    BY <1>2 DEF ColdIInv, ColdWireOK, ColdOldOK, Cold!NoPeer, Cold!ColdStartAssumption
  <2>2. CASE coldState' = "STOPPED" /\ UNCHANGED <<coldStateSync, Cold!old, coldOldest, coldSent>>
    BY <2>1, <2>2
    DEF ColdIInv, ColdWireOK, ColdOldOK, Cold!old, ColdNothingOldYet, Cold!FilesAreContiguous, Cold!DoneIsWhole
  <2>3. CASE /\ coldStateSync' = [coldStateSync EXCEPT !.chunks = @ + 1]
             /\ UNCHANGED <<coldState, Cold!old, coldOldest, coldSent>>
    <3>1. coldStateSync' \in Chunks
      BY <2>1, <2>3
    <3> QED BY <2>3, <3>1, ColdOldStays DEF ColdIInv, ColdWireOK
  <2>4. CASE /\ coldState' = "CHAIN_SYNCING"
             /\ coldStateSync' = Cold!NoPeer
             /\ coldOldest' = Top /\ coldDisk' = {Top}
             /\ Cold!RequestOld(coldOldSync, FALSE, Top, coldSent)
             /\ UNCHANGED coldAsleep
    <3>1. Top \in 1..ColdMaxBlock /\ ColdMaxBlock \in Nat
      BY DEF Cold!ColdStartAssumption
    <3>2. coldOldSync' \in ColdOld /\ coldOldDone' = coldOldDone /\ coldSent' \in [ColdPeer -> Seq(ColdRequest)]
      BY <2>4, <3>1, ColdRequesting DEF ColdIInv, ColdWireOK, ColdOldOK
    <3>3. Top \in 0..Top /\ coldDisk' = Top..coldOldest' /\ coldOldest' \in Top..ColdMaxBlock
      BY <2>4, <3>1
    <3>4. coldOldDone' = FALSE
      BY <2>1, <3>2 DEF ColdNothingOldYet
    <3> QED BY <2>4, <3>2, <3>3, <3>4 DEF ColdOldOK, Cold!FilesAreContiguous, Cold!DoneIsWhole
  <2> QED BY <1>2, <2>2, <2>3, <2>4 DEF Cold!HandleChunk
<1> QED BY <1>1, <1>2 DEF Cold!HandleChunk

-----------------------------------------------------------------------------
\* Every step keeps the invariant: the answers of peers are the steps above, a
\* timer asks again, and a new final block joins the files at their other end.
LEMMA ColdSteps == ASSUME Cold!ColdStartAssumption PROVE ColdIInv /\ [Cold!Next]_Cold!vars => ColdIInv'
<1> SUFFICES ASSUME ColdIInv, [Cold!Next]_Cold!vars PROVE ColdIInv' OBVIOUS
<1>1. CASE Cold!RequestSnapshotChunks
  <2>1. PICK p \in ColdPeer : TRUE
    BY <1>1 DEF Cold!RequestSnapshotChunks, ColdIInv, ColdWireOK
  <2> QED BY <1>1, <2>1, ColdSnapshots
<1>2. CASE Cold!Wake
  <2>1. coldState = "CHAIN_SYNCING" /\ coldOldest \in 1..ColdMaxBlock
    BY <1>2 DEF Cold!Wake, ColdIInv, ColdOldOK, ColdNothingOldYet, Cold!ColdStartAssumption
  <2>2. /\ Cold!RequestOld(coldOldSync, Head(coldAsleep), coldOldest, coldSent)
        /\ UNCHANGED <<coldState, coldStateSync, coldOldest, coldDisk, coldOutbound, coldGot, coldStream, coldFaults>>
    BY <1>2 DEF Cold!Wake
  <2>3. coldOldSync' \in ColdOld /\ coldOldDone' = coldOldDone /\ coldSent' \in [ColdPeer -> Seq(ColdRequest)]
    BY <2>1, <2>2, ColdRequesting DEF ColdIInv, ColdWireOK, ColdOldOK
  <2>4. ColdWireOK' BY <2>2, <2>3 DEF ColdIInv, ColdWireOK
  <2>5. ColdOldOK'
    BY <2>1, <2>2, <2>3 DEF ColdIInv, ColdOldOK, Cold!FilesAreContiguous, Cold!DoneIsWhole
  <2> QED BY <2>4, <2>5 DEF ColdIInv
<1>3. CASE Cold!Grow
  <2>1. /\ coldState = "CHAIN_SYNCING" /\ coldState' = coldState
        /\ coldOldest \in Top..ColdMaxBlock /\ coldOldest < ColdMaxBlock
        /\ Top \in 1..ColdMaxBlock /\ ColdMaxBlock \in Nat
        /\ coldOldest' = coldOldest + 1 /\ coldDisk' = coldDisk \cup {coldOldest + 1}
    BY <1>3 DEF Cold!Grow, ColdIInv, ColdOldOK, Cold!ColdStartAssumption
  <2>2. \A b \in 0..Top : coldDisk = b..coldOldest => coldDisk' = b..coldOldest'
    BY <2>1
  <2>3. UNCHANGED <<coldOldSync, coldOldDone, coldAsleep>>
    BY <1>3 DEF Cold!Grow
  <2>4. Cold!FilesAreContiguous' /\ Cold!DoneIsWhole'
    BY <2>1, <2>2, <2>3 DEF ColdIInv, ColdOldOK, Cold!FilesAreContiguous, Cold!DoneIsWhole
  <2>5. ColdOldOK'
    BY <2>1, <2>3, <2>4 DEF ColdIInv, ColdOldOK
  <2>6. ColdWireOK' BY <1>3 DEF Cold!Grow, Cold!wire, ColdIInv, ColdWireOK
  <2> QED BY <2>5, <2>6 DEF ColdIInv
<1>4. ASSUME NEW p \in ColdPeer, Cold!Handle(p) PROVE ColdIInv'
  <2>1. Head(coldGot[p]) \in ColdAnswer /\ coldGot' \in [ColdPeer -> Seq(ColdAnswer)]
    BY <1>4, ColdTaking DEF Cold!Handle, ColdIInv, ColdWireOK
  <2>2. UNCHANGED <<coldOutbound, coldStream>>
    BY <1>4 DEF Cold!Handle
  <2>3. CASE Head(coldGot[p]).kind = "old"
    <3>1. Head(coldGot[p]) \in ColdSegment
      BY <2>1, <2>3 DEF ColdAnswer
    <3>2. Cold!HandleOld(p, Head(coldGot[p]))
      BY <1>4, <2>3 DEF Cold!Handle
    <3>3. ColdOldOK' BY <3>1, <3>2, ColdHandlingOld
    <3>4. ColdWireOK' BY <2>1, <2>2, <3>2 DEF Cold!HandleOld, ColdIInv, ColdWireOK
    <3> QED BY <3>3, <3>4 DEF ColdIInv
  <2>4. CASE Head(coldGot[p]).kind # "old"
    <3>1. Cold!HandleChunk(p, Head(coldGot[p]))
      BY <1>4, <2>4 DEF Cold!Handle
    <3>2. /\ ColdOldOK' /\ coldSent' \in [ColdPeer -> Seq(ColdRequest)]
          /\ coldStateSync' \in {Cold!NoPeer} \cup [peer : ColdPeer, chunks : Nat]
      BY <2>1, <2>2, <3>1, ColdHandlingChunk
    <3> QED BY <2>1, <2>2, <3>2 DEF ColdIInv, ColdWireOK
  <2> QED BY <2>3, <2>4
<1>5. ASSUME NEW p \in ColdPeer, Cold!Step(p) \/ Cold!StreamToAnother(p) \/ Cold!RefuseOld(p) \/ Cold!Disconnect(p)
      PROVE  ColdIInv'
  BY <1>4, <1>5, ColdSnapshots, ColdPeers DEF Cold!Step
<1>6. CASE UNCHANGED Cold!vars
  <2>1. ColdWireOK' BY <1>6 DEF Cold!vars, ColdIInv, ColdWireOK
  <2> QED BY <1>6, <2>1, ColdOldStays DEF Cold!vars, Cold!old, ColdIInv
<1> QED BY <1>1, <1>2, <1>3, <1>5, <1>6 DEF Cold!Next

-----------------------------------------------------------------------------
(* One request for old blocks at a time.                                   *)

ColdOldAsked == [kind : {"old"}, oldest : 1..ColdMaxBlock]

ColdAsked == CountAll(coldSent, ColdPeer, ColdOldAsked)
ColdAnswered == CountAll(coldGot, ColdPeer, ColdSegment)

\* The shape of the other variables, and the requests, answers and sleeping handlers
\* counted together
ColdOneAtATime ==
  /\ coldState \in {"STATE_SYNCING", "CHAIN_SYNCING", "STOPPED"}
  /\ coldStateSync = Cold!NoPeer \/ coldStateSync.chunks \in 0..(NumChunks - 1)
  /\ coldOldest \in {-1} \cup Top..ColdMaxBlock
  /\ coldAsleep \in Seq(BOOLEAN)
  /\ Len(coldAsleep) + ColdAsked + ColdAnswered <= 1
  /\ coldState # "CHAIN_SYNCING" => ColdAsked = 0 /\ ColdAnswered = 0

\* There are finitely many peers.
LEMMA ColdFewPeers == ASSUME Cold!ColdStartAssumption PROVE IsFiniteSet(ColdPeer)
BY DEF Cold!ColdStartAssumption, Cold!IsFiniteSet, IsFiniteSet

\* How many messages of a queue are about old blocks.
LEMMA ColdOldInIs == \A q : Cold!OldIn(q) = Cardinality({i \in DOMAIN q : q[i].kind = "old"})
BY Zenon DEF Cold!OldIn, Cold!Cardinality, Cardinality

\* What the sum over the peers adds up.
LEMMA ColdOldRequestsAre ==
  ASSUME Cold!ColdStartAssumption, ColdWireOK
  PROVE  Cold!OldRequests = Len(coldAsleep) + (ColdAsked + ColdAnswered)
<1> DEFINE c == [p \in ColdPeer |-> Cold!OldIn(coldSent[p]) + Cold!OldIn(coldGot[p])]
<1>1. DOMAIN c = ColdPeer OBVIOUS
<1>2. Cold!FoldFunction(+, 0, c) = Total(c, DOMAIN c)
  BY Zenon DEF Cold!FoldFunction, Cold!FoldFunctionOnSet, Cold!MapThenFoldSet, Total, Sums!Fold, Sums!FoldOf,
     Sums!IsFold, AnyOf, Plus, ValueAt
<1>3. \A p \in ColdPeer : c[p] = Count(coldSent[p], ColdOldAsked) + Count(coldGot[p], ColdSegment)
  <2> SUFFICES ASSUME NEW p \in ColdPeer
               PROVE  /\ Cold!OldIn(coldSent[p]) = Count(coldSent[p], ColdOldAsked)
                      /\ Cold!OldIn(coldGot[p]) = Count(coldGot[p], ColdSegment)
    OBVIOUS
  <2>1. \A i \in DOMAIN coldSent[p] : coldSent[p][i].kind = "old" <=> coldSent[p][i] \in ColdOldAsked
    BY DEF ColdWireOK, ColdRequest, ColdOldAsked
  <2>2. \A i \in DOMAIN coldGot[p] : coldGot[p][i].kind = "old" <=> coldGot[p][i] \in ColdSegment
    BY DEF ColdWireOK, ColdAnswer, ColdSegment
  <2> QED BY <2>1, <2>2, ColdOldInIs DEF Count, Places
<1> HIDE DEF c
<1>4. IsFiniteSet(ColdPeer) /\ coldSent \in [ColdPeer -> Seq(ColdRequest)] /\ coldGot \in [ColdPeer -> Seq(ColdAnswer)]
  BY ColdFewPeers DEF ColdWireOK
<1>5. Moves(CountAll(coldSent, ColdPeer, ColdOldAsked), Total(c, ColdPeer), 0, CountAll(coldGot, ColdPeer, ColdSegment))
  BY <1>3, <1>4, CountsTogether
<1>6. Total(c, ColdPeer) = ColdAsked + ColdAnswered
  <2>1. ColdAsked \in Nat /\ ColdAnswered \in Nat BY <1>4, CountAllIsNat DEF ColdAsked, ColdAnswered
  <2> QED BY <1>5, <2>1 DEF ColdAsked, ColdAnswered, Moves
<1> QED BY <1>1, <1>2, <1>6 DEF Cold!OldRequests, c

\* The counts are natural numbers.
LEMMA ColdAreCounts ==
  ASSUME Cold!ColdStartAssumption, ColdWireOK
  PROVE  ColdAsked \in Nat /\ ColdAnswered \in Nat
BY CountAllIsNat, ColdFewPeers DEF ColdAsked, ColdAnswered, ColdWireOK

\* A message is sent, answered, or taken.
LEMMA ColdAskedMore ==
  ASSUME Cold!ColdStartAssumption, ColdWireOK, NEW p \in ColdPeer, NEW e \in ColdRequest,
         coldSent' = [coldSent EXCEPT ![p] = Append(@, e)]
  PROVE  /\ e.kind = "old" => Moves(ColdAsked, ColdAsked', 0, 1)
         /\ e.kind # "old" => ColdAsked' = ColdAsked
<1>0. IsFiniteSet(ColdPeer) /\ coldSent \in [ColdPeer -> Seq(ColdRequest)] BY ColdFewPeers DEF ColdWireOK
<1>1. /\ e \in ColdOldAsked => Moves(CountAll(coldSent, ColdPeer, ColdOldAsked), CountAll(coldSent', ColdPeer, ColdOldAsked), 0, 1)
      /\ e \notin ColdOldAsked => Moves(CountAll(coldSent, ColdPeer, ColdOldAsked), CountAll(coldSent', ColdPeer, ColdOldAsked), 0, 0)
  <2>1. /\ coldSent' \in [ColdPeer -> Seq(ColdRequest)] /\ coldSent'[p] = Append(coldSent[p], e)
        /\ \A x \in ColdPeer \ {p} : coldSent'[x] = coldSent[x]
    BY <1>0
  <2> QED BY <1>0, <2>1, CountAllOfAppend
<1>2. e.kind = "old" <=> e \in ColdOldAsked BY DEF ColdRequest, ColdOldAsked
<1>4. Moves(ColdAsked, ColdAsked', 0, 0) => ColdAsked' = ColdAsked BY ColdAreCounts DEF Moves
<1> QED BY <1>1, <1>2, <1>4 DEF ColdAsked

\* A request for old blocks that is taken is no longer counted as asked.
LEMMA ColdAskedLess ==
  ASSUME Cold!ColdStartAssumption, ColdWireOK, NEW p \in ColdPeer, coldSent[p] # <<>>,
         coldSent' = [coldSent EXCEPT ![p] = Tail(@)]
  PROVE  /\ Head(coldSent[p]).kind = "old" => Moves(ColdAsked, ColdAsked', 1, 0)
         /\ Head(coldSent[p]).kind # "old" => ColdAsked' = ColdAsked
<1>0. IsFiniteSet(ColdPeer) /\ coldSent \in [ColdPeer -> Seq(ColdRequest)] BY ColdFewPeers DEF ColdWireOK
<1>1. /\ Head(coldSent[p]) \in ColdOldAsked => Moves(CountAll(coldSent, ColdPeer, ColdOldAsked), CountAll(coldSent', ColdPeer, ColdOldAsked), 1, 0)
      /\ Head(coldSent[p]) \notin ColdOldAsked => Moves(CountAll(coldSent, ColdPeer, ColdOldAsked), CountAll(coldSent', ColdPeer, ColdOldAsked), 0, 0)
  <2>1. /\ coldSent' \in [ColdPeer -> Seq(ColdRequest)] /\ coldSent'[p] = Tail(coldSent[p])
        /\ \A x \in ColdPeer \ {p} : coldSent'[x] = coldSent[x]
    BY <1>0, ColdTaking
  <2> QED BY <1>0, <2>1, CountAllOfTail
<1>2. Head(coldSent[p]) \in ColdRequest BY ColdTaking DEF ColdWireOK
<1>3. Head(coldSent[p]).kind = "old" <=> Head(coldSent[p]) \in ColdOldAsked BY <1>2 DEF ColdRequest, ColdOldAsked
<1>4. Moves(ColdAsked, ColdAsked', 0, 0) => ColdAsked' = ColdAsked BY ColdAreCounts DEF Moves
<1> QED BY <1>1, <1>3, <1>4 DEF ColdAsked

\* An answer about old blocks that is sent is counted.
LEMMA ColdAnsweredMore ==
  ASSUME Cold!ColdStartAssumption, ColdWireOK, NEW p \in ColdPeer, NEW e \in ColdAnswer,
         coldGot' = [coldGot EXCEPT ![p] = Append(@, e)]
  PROVE  /\ e.kind = "old" => Moves(ColdAnswered, ColdAnswered', 0, 1)
         /\ e.kind # "old" => ColdAnswered' = ColdAnswered
<1>0. IsFiniteSet(ColdPeer) /\ coldGot \in [ColdPeer -> Seq(ColdAnswer)] BY ColdFewPeers DEF ColdWireOK
<1>1. /\ e \in ColdSegment => Moves(CountAll(coldGot, ColdPeer, ColdSegment), CountAll(coldGot', ColdPeer, ColdSegment), 0, 1)
      /\ e \notin ColdSegment => Moves(CountAll(coldGot, ColdPeer, ColdSegment), CountAll(coldGot', ColdPeer, ColdSegment), 0, 0)
  <2>1. /\ coldGot' \in [ColdPeer -> Seq(ColdAnswer)] /\ coldGot'[p] = Append(coldGot[p], e)
        /\ \A x \in ColdPeer \ {p} : coldGot'[x] = coldGot[x]
    BY <1>0
  <2> QED BY <1>0, <2>1, CountAllOfAppend
<1>2. e.kind = "old" <=> e \in ColdSegment BY DEF ColdAnswer, ColdSegment
<1>4. Moves(ColdAnswered, ColdAnswered', 0, 0) => ColdAnswered' = ColdAnswered BY ColdAreCounts DEF Moves
<1> QED BY <1>1, <1>2, <1>4 DEF ColdAnswered

\* An answer about old blocks that is taken is no longer counted.
LEMMA ColdAnsweredLess ==
  ASSUME Cold!ColdStartAssumption, ColdWireOK, NEW p \in ColdPeer, coldGot[p] # <<>>,
         coldGot' = [coldGot EXCEPT ![p] = Tail(@)]
  PROVE  /\ Head(coldGot[p]).kind = "old" => Moves(ColdAnswered, ColdAnswered', 1, 0)
         /\ Head(coldGot[p]).kind # "old" => ColdAnswered' = ColdAnswered
<1>0. IsFiniteSet(ColdPeer) /\ coldGot \in [ColdPeer -> Seq(ColdAnswer)] BY ColdFewPeers DEF ColdWireOK
<1>1. /\ Head(coldGot[p]) \in ColdSegment => Moves(CountAll(coldGot, ColdPeer, ColdSegment), CountAll(coldGot', ColdPeer, ColdSegment), 1, 0)
      /\ Head(coldGot[p]) \notin ColdSegment => Moves(CountAll(coldGot, ColdPeer, ColdSegment), CountAll(coldGot', ColdPeer, ColdSegment), 0, 0)
  <2>1. /\ coldGot' \in [ColdPeer -> Seq(ColdAnswer)] /\ coldGot'[p] = Tail(coldGot[p])
        /\ \A x \in ColdPeer \ {p} : coldGot'[x] = coldGot[x]
    BY <1>0, ColdTaking
  <2> QED BY <1>0, <2>1, CountAllOfTail
<1>2. Head(coldGot[p]) \in ColdAnswer BY ColdTaking DEF ColdWireOK
<1>3. Head(coldGot[p]).kind = "old" <=> Head(coldGot[p]) \in ColdSegment BY <1>2 DEF ColdAnswer, ColdSegment
<1>4. Moves(ColdAnswered, ColdAnswered', 0, 0) => ColdAnswered' = ColdAnswered BY ColdAreCounts DEF Moves
<1> QED BY <1>1, <1>3, <1>4 DEF ColdAnswered

\* Nothing of it changes.
LEMMA ColdCountsStay ==
  /\ UNCHANGED coldSent => UNCHANGED ColdAsked
  /\ UNCHANGED coldGot => UNCHANGED ColdAnswered
BY DEF ColdAsked, ColdAnswered

-----------------------------------------------------------------------------
\* At first no request for old blocks is under way.
LEMMA ColdOneStarting == ASSUME Cold!ColdStartAssumption, Cold!Init PROVE ColdOneAtATime
<1>1. ColdAsked = 0 /\ ColdAnswered = 0
  BY CountAllOfNone, ColdFewPeers DEF Cold!Init, ColdAsked, ColdAnswered
<1>2. coldAsleep \in Seq(BOOLEAN) /\ Len(coldAsleep) = 0 BY DEF Cold!Init
<1> QED BY <1>1, <1>2 DEF Cold!Init, ColdOneAtATime

\* A request of requestOldChainSegment is the only one.
LEMMA ColdRequestingOne ==
  ASSUME Cold!ColdStartAssumption, ColdWireOK, NEW s \in ColdOld, NEW force, NEW o \in 1..ColdMaxBlock,
         Cold!RequestOld(s, force, o, coldSent)
  PROVE  ColdAsked' \in {ColdAsked, ColdAsked + 1}
<1>1. ASSUME NEW t \in Cold!Assigned(s, force, o), t.oldest # 0,
             coldSent' = [coldSent EXCEPT ![t.peer] = Append(@, [kind |-> "old", oldest |-> t.oldest])]
      PROVE  ColdAsked' = ColdAsked + 1
  <2>1. t.peer \in ColdPeer /\ t.oldest \in 1..ColdMaxBlock BY <1>1 DEF Cold!Assigned, ColdOld, ColdWireOK
  <2>2. PICK e : e = [kind |-> "old", oldest |-> t.oldest] OBVIOUS
  <2>3. e \in ColdRequest /\ e.kind = "old" BY <2>1, <2>2 DEF ColdRequest
  <2>4. coldSent' = [coldSent EXCEPT ![t.peer] = Append(@, e)] BY <1>1, <2>2
  <2>5. Moves(ColdAsked, ColdAsked', 0, 1) BY <2>1, <2>3, <2>4, ColdAskedMore
  <2> QED BY <2>5, ColdAreCounts DEF Moves
<1>2. CASE coldSent' = coldSent BY <1>2, ColdCountsStay
<1> QED BY <1>1, <1>2 DEF Cold!RequestOld

\* Requests and answers of a peer
LEMMA ColdOneOfPeers ==
  ASSUME Cold!ColdStartAssumption, ColdIInv, ColdOneAtATime, NEW p \in ColdPeer,
         \/ Cold!RequestSnapshotChunks \/ Cold!StartStream(p) \/ Cold!SendChunk(p)
         \/ Cold!StreamToAnother(p) \/ Cold!EndOfStream(p)
         \/ Cold!AnswerOld(p) \/ Cold!RefuseOld(p) \/ Cold!Disconnect(p) \/ Cold!Connect(p)
  PROVE  ColdOneAtATime'
<1>0. ColdWireOK /\ ColdAsked \in Nat /\ ColdAnswered \in Nat /\ NumChunks \in Nat \ {0}
  BY ColdAreCounts DEF ColdIInv, Cold!ColdStartAssumption
<1>1. CASE Cold!RequestSnapshotChunks
  <2>0. PICK e : e = [kind |-> "snapshot"] OBVIOUS
  <2>1. PICK q \in coldOutbound :
          /\ coldStateSync' = [peer |-> q, chunks |-> 0]
          /\ coldSent' = [coldSent EXCEPT ![q] = Append(@, e)]
    BY <1>1, <2>0 DEF Cold!RequestSnapshotChunks
  <2>2. q \in ColdPeer /\ e \in ColdRequest /\ e.kind # "old" BY <1>0, <2>0 DEF ColdWireOK, ColdRequest
  <2>3. ColdAsked' = ColdAsked BY <1>0, <2>1, <2>2, ColdAskedMore
  <2>4. ColdAnswered' = ColdAnswered BY <1>1, ColdCountsStay DEF Cold!RequestSnapshotChunks
  <2> QED BY <1>0, <1>1, <2>1, <2>3, <2>4 DEF Cold!RequestSnapshotChunks, Cold!old, ColdOneAtATime
<1>2. CASE Cold!StartStream(p)
  <2>0. /\ coldSent[p] # <<>> /\ Head(coldSent[p]).kind # "old"
        /\ coldSent' = [coldSent EXCEPT ![p] = Tail(@)]
    BY <1>2 DEF Cold!StartStream
  <2>1. ColdAsked' = ColdAsked BY <1>0, <2>0, ColdAskedLess
  <2>2. ColdAnswered' = ColdAnswered
    <3>1. CASE coldGot' = coldGot BY <3>1, ColdCountsStay
    <3>2. CASE coldGot' = [coldGot EXCEPT ![p] = Append(@, [kind |-> "refused"])]
      <4>1. PICK e : e = [kind |-> "refused"] OBVIOUS
      <4>2. e \in ColdAnswer /\ e.kind # "old" BY <4>1 DEF ColdAnswer
      <4>3. coldGot' = [coldGot EXCEPT ![p] = Append(@, e)] BY <3>2, <4>1
      <4> QED BY <1>0, <4>2, <4>3, ColdAnsweredMore
    <3> QED BY <1>2, <3>1, <3>2 DEF Cold!StartStream
  <2> QED BY <1>2, <2>1, <2>2 DEF Cold!StartStream, Cold!old, ColdOneAtATime
<1>3. CASE Cold!SendChunk(p)
  <2>1. coldStream[p].next \in Nat BY <1>0, <1>3 DEF Cold!SendChunk, ColdWireOK, Cold!Nobody, Cold!Another
  <2>2. PICK e : e = [kind |-> "chunk", index |-> coldStream[p].next] OBVIOUS
  <2>3. ColdAnswered' = ColdAnswered
    <3>1. e \in ColdAnswer /\ e.kind # "old" BY <2>1, <2>2 DEF ColdAnswer
    <3>2. coldGot' = [coldGot EXCEPT ![p] = Append(@, e)] BY <1>3, <2>2 DEF Cold!SendChunk
    <3> QED BY <1>0, <3>1, <3>2, ColdAnsweredMore
  <2>4. ColdAsked' = ColdAsked BY <1>3, ColdCountsStay DEF Cold!SendChunk
  <2> QED BY <1>3, <2>3, <2>4 DEF Cold!SendChunk, Cold!old, ColdOneAtATime
<1>4. CASE Cold!StreamToAnother(p) \/ Cold!EndOfStream(p) \/ Cold!Connect(p)
  BY <1>4, ColdCountsStay DEF Cold!StreamToAnother, Cold!EndOfStream, Cold!Connect, Cold!old, Cold!wire, ColdOneAtATime
<1>5. CASE Cold!AnswerOld(p) \/ Cold!RefuseOld(p)
  <2>1. PICK r \in ColdSegment : coldGot' = [coldGot EXCEPT ![p] = Append(@, r)]
    <3>1. Head(coldSent[p]) \in ColdRequest BY <1>0, <1>5, ColdTaking DEF Cold!AnswerOld, Cold!RefuseOld, ColdWireOK
    <3>2. CASE Cold!AnswerOld(p)
      <4>1. Head(coldSent[p]).oldest \in 1..ColdMaxBlock BY <3>1, <3>2 DEF Cold!AnswerOld, ColdRequest
      <4> QED BY <3>2, <4>1, ColdOldBlocks DEF Cold!AnswerOld
    <3>3. CASE Cold!RefuseOld(p)
      <4>1. Cold!Empty \in ColdSegment BY DEF Cold!Empty, ColdSegment, Cold!ColdStartAssumption
      <4> QED BY <3>3, <4>1 DEF Cold!RefuseOld
    <3> QED BY <1>5, <3>2, <3>3
  <2>2. r \in ColdAnswer /\ r.kind = "old" BY DEF ColdAnswer, ColdSegment
  <2>3. Moves(ColdAnswered, ColdAnswered', 0, 1) BY <1>0, <2>1, <2>2, ColdAnsweredMore
  <2>0. /\ coldSent[p] # <<>> /\ Head(coldSent[p]).kind = "old"
        /\ coldSent' = [coldSent EXCEPT ![p] = Tail(@)]
    BY <1>5 DEF Cold!AnswerOld, Cold!RefuseOld
  <2>4. Moves(ColdAsked, ColdAsked', 1, 0) BY <1>0, <2>0, ColdAskedLess
  <2>5. ColdAsked' \in Nat
    <3>1. coldSent' \in [ColdPeer -> Seq(ColdRequest)] BY <1>0, <2>0, ColdTaking DEF ColdWireOK
    <3> QED BY <3>1, CountAllIsNat, ColdFewPeers DEF ColdAsked
  <2>6. UNCHANGED <<coldState, coldStateSync, coldOldest, coldAsleep>>
    BY <1>5 DEF Cold!AnswerOld, Cold!RefuseOld, Cold!old
  <2> QED BY <1>0, <2>3, <2>4, <2>5, <2>6 DEF Moves, ColdOneAtATime
<1>6. CASE Cold!Disconnect(p)
  <2>1. ColdAsked' <= ColdAsked /\ ColdAnswered' <= ColdAnswered
    <3>1. IsFiniteSet(ColdPeer) /\ coldSent \in [ColdPeer -> Seq(ColdRequest)] /\ coldGot \in [ColdPeer -> Seq(ColdAnswer)]
      BY <1>0, ColdFewPeers DEF ColdWireOK
    <3>2. /\ coldSent' \in [ColdPeer -> Seq(ColdRequest)] /\ coldSent'[p] = <<>>
          /\ \A x \in ColdPeer \ {p} : coldSent'[x] = coldSent[x]
      BY <1>6, <3>1 DEF Cold!Disconnect
    <3>3. /\ coldGot' \in [ColdPeer -> Seq(ColdAnswer)] /\ coldGot'[p] = <<>>
          /\ \A x \in ColdPeer \ {p} : coldGot'[x] = coldGot[x]
      BY <1>6, <3>1 DEF Cold!Disconnect
    <3> QED BY <3>1, <3>2, <3>3, CountAllOfClosed DEF ColdAsked, ColdAnswered
  <2>2. ColdAsked' \in Nat /\ ColdAnswered' \in Nat
    <3>1. coldSent' \in [ColdPeer -> Seq(ColdRequest)] /\ coldGot' \in [ColdPeer -> Seq(ColdAnswer)]
      BY <1>0, <1>6 DEF Cold!Disconnect, ColdWireOK
    <3> QED BY <3>1, CountAllIsNat, ColdFewPeers DEF ColdAsked, ColdAnswered
  <2>3. UNCHANGED <<coldState, coldStateSync, coldOldest, coldAsleep>> BY <1>6 DEF Cold!Disconnect, Cold!old
  <2> QED BY <1>0, <2>1, <2>2, <2>3 DEF ColdOneAtATime
<1> QED BY <1>1, <1>2, <1>3, <1>4, <1>5, <1>6

\* An answer is handled: one of old blocks puts at most one handler to sleep, and the
\* last chunk makes the first request.
LEMMA ColdOneOfAnswers ==
  ASSUME Cold!ColdStartAssumption, ColdIInv, ColdOneAtATime, NEW p \in ColdPeer, Cold!Handle(p)
  PROVE  ColdOneAtATime'
<1>0. /\ ColdWireOK /\ ColdAsked \in Nat /\ ColdAnswered \in Nat
      /\ NumChunks \in Nat \ {0} /\ Top \in 1..ColdMaxBlock /\ ColdMaxBlock \in Nat
  BY ColdAreCounts DEF ColdIInv, Cold!ColdStartAssumption
<1>1. Head(coldGot[p]) \in ColdAnswer /\ coldGot' \in [ColdPeer -> Seq(ColdAnswer)]
  BY <1>0, ColdTaking DEF Cold!Handle, ColdWireOK
<1>2. /\ Head(coldGot[p]).kind = "old" => Moves(ColdAnswered, ColdAnswered', 1, 0)
      /\ Head(coldGot[p]).kind # "old" => ColdAnswered' = ColdAnswered
  BY <1>0, ColdAnsweredLess DEF Cold!Handle
<1>3. ColdAnswered' \in Nat BY <1>1, CountAllIsNat, ColdFewPeers DEF ColdAnswered
<1>4. CASE Head(coldGot[p]).kind = "old"
  <2>1. Cold!HandleOld(p, Head(coldGot[p])) BY <1>4 DEF Cold!Handle
  <2>2. ColdAsked' = ColdAsked /\ UNCHANGED <<coldState, coldStateSync, coldOldest>> BY <2>1, ColdCountsStay DEF Cold!HandleOld
  <2> DEFINE e == Cold!IsEmpty(Head(coldGot[p]))
  <2>3. coldAsleep' = coldAsleep \/ coldAsleep' = Append(coldAsleep, TRUE) \/ coldAsleep' = Append(coldAsleep, e)
    BY <2>1 DEF Cold!HandleOld, Cold!old
  <2>5. e \in BOOLEAN BY DEF Cold!IsEmpty
  <2> HIDE DEF e
  <2>4. coldAsleep' \in Seq(BOOLEAN) /\ Len(coldAsleep') <= Len(coldAsleep) + 1
    <3>1. coldAsleep \in Seq(BOOLEAN) BY DEF ColdOneAtATime
    <3>2. CASE coldAsleep' = coldAsleep BY <3>1, <3>2
    <3>3. ASSUME NEW b \in BOOLEAN, coldAsleep' = Append(coldAsleep, b)
          PROVE  coldAsleep' \in Seq(BOOLEAN) /\ Len(coldAsleep') <= Len(coldAsleep) + 1
      BY <3>1, <3>3
    <3> QED BY <2>3, <2>5, <3>2, <3>3
  <2> QED BY <1>0, <1>2, <1>3, <1>4, <2>2, <2>4 DEF Moves, ColdOneAtATime
<1>5. CASE Head(coldGot[p]).kind # "old"
  <2> DEFINE r == Head(coldGot[p])
  <2>1. Cold!HandleChunk(p, r) BY <1>5 DEF Cold!Handle
  <2>2. CASE UNCHANGED <<coldState, coldStateSync, Cold!old, coldOldest, coldSent>>
    BY <1>0, <1>2, <1>5, <2>2, ColdCountsStay DEF Cold!old, ColdOneAtATime
  <2>3. CASE coldState' = "STOPPED" /\ UNCHANGED <<coldStateSync, Cold!old, coldOldest, coldSent>>
             /\ coldState = "STATE_SYNCING"
    BY <1>0, <1>2, <1>5, <2>3, ColdCountsStay DEF Cold!old, ColdOneAtATime
  <2>4. CASE /\ coldState = "STATE_SYNCING" /\ coldStateSync.peer = p
             /\ r.index = coldStateSync.chunks /\ r.index < NumChunks - 1
             /\ coldStateSync' = [coldStateSync EXCEPT !.chunks = @ + 1]
             /\ UNCHANGED <<coldState, Cold!old, coldOldest, coldSent>>
    <3>1. coldStateSync \in [peer : ColdPeer, chunks : Nat]
      BY <1>0, <2>4 DEF ColdWireOK, Cold!NoPeer, Cold!ColdStartAssumption
    <3>2. coldStateSync'.chunks \in 0..(NumChunks - 1) BY <1>0, <2>4, <3>1
    <3> QED BY <1>0, <1>2, <1>5, <2>4, <3>2, ColdCountsStay DEF Cold!old, ColdOneAtATime
  <2>5. CASE /\ coldState = "STATE_SYNCING" /\ coldState' = "CHAIN_SYNCING"
             /\ coldStateSync' = Cold!NoPeer
             /\ coldOldest' = Top
             /\ Cold!RequestOld(coldOldSync, FALSE, Top, coldSent)
             /\ UNCHANGED coldAsleep
    <3>1. coldOldSync \in ColdOld /\ coldAsleep = <<>>
      BY <2>5 DEF ColdIInv, ColdOldOK, ColdNothingOldYet
    <3>2. ColdAsked' \in {ColdAsked, ColdAsked + 1} BY <1>0, <2>5, <3>1, ColdRequestingOne
    <3>3. ColdAsked = 0 /\ ColdAnswered = 0 /\ Len(coldAsleep) = 0 BY <2>5, <3>1 DEF ColdOneAtATime
    <3>4. coldStateSync' = Cold!NoPeer /\ coldState' = "CHAIN_SYNCING" /\ coldOldest' \in {-1} \cup Top..ColdMaxBlock
      BY <1>0, <2>5
    <3>5. coldAsleep' \in Seq(BOOLEAN) /\ Len(coldAsleep') + ColdAsked' + ColdAnswered' <= 1
      BY <1>2, <1>5, <2>5, <3>2, <3>3 DEF ColdOneAtATime
    <3> QED BY <3>4, <3>5 DEF ColdOneAtATime
  <2> QED BY <2>1, <2>2, <2>3, <2>4, <2>5 DEF Cold!HandleChunk
<1> QED BY <1>4, <1>5

\* There is at most one request, answer or sleeping handler of old blocks, whatever
\* is lost, and the type invariant holds.
LEMMA ColdOneSteps ==
  ASSUME Cold!ColdStartAssumption, ColdIInv, ColdOneAtATime, [Cold!Next]_Cold!vars
  PROVE  ColdOneAtATime'
<1>0. ColdWireOK /\ ColdAsked \in Nat /\ ColdAnswered \in Nat BY ColdAreCounts DEF ColdIInv
<1>1. CASE Cold!RequestSnapshotChunks
  <2>1. PICK p \in ColdPeer : TRUE BY <1>1 DEF Cold!RequestSnapshotChunks, ColdIInv, ColdWireOK
  <2> QED BY <1>1, <2>1, ColdOneOfPeers
<1>2. CASE Cold!Wake
  <2>1. coldState = "CHAIN_SYNCING" /\ coldOldest \in 1..ColdMaxBlock /\ coldOldSync \in ColdOld
    BY <1>2 DEF Cold!Wake, ColdIInv, ColdOldOK, ColdNothingOldYet, Cold!ColdStartAssumption
  <2>2. ColdAsked' \in {ColdAsked, ColdAsked + 1} BY <1>0, <1>2, <2>1, ColdRequestingOne DEF Cold!Wake
  <2>3. ColdAnswered' = ColdAnswered BY <1>2, ColdCountsStay DEF Cold!Wake
  <2>4. coldAsleep' \in Seq(BOOLEAN) /\ Len(coldAsleep') = Len(coldAsleep) - 1
    BY <1>2 DEF Cold!Wake, ColdOneAtATime
  <2> QED BY <1>0, <1>2, <2>1, <2>2, <2>3, <2>4 DEF Cold!Wake, ColdOneAtATime
<1>3. CASE Cold!Grow
  <2>1. coldOldest \in Top..ColdMaxBlock /\ coldOldest + 1 \in Top..ColdMaxBlock
    BY <1>3 DEF Cold!Grow, ColdIInv, ColdOldOK, Cold!ColdStartAssumption
  <2> QED BY <1>3, <2>1, ColdCountsStay DEF Cold!Grow, Cold!wire, ColdOneAtATime
<1>4. ASSUME NEW p \in ColdPeer, Cold!Step(p) \/ Cold!StreamToAnother(p) \/ Cold!RefuseOld(p) \/ Cold!Disconnect(p)
      PROVE  ColdOneAtATime'
  BY <1>4, ColdOneOfPeers, ColdOneOfAnswers DEF Cold!Step
<1>5. CASE UNCHANGED Cold!vars BY <1>5, ColdCountsStay DEF Cold!vars, ColdOneAtATime
<1> QED BY <1>1, <1>2, <1>3, <1>4, <1>5 DEF Cold!Next

\* The invariant of a cold start implies its types, with one request for old blocks at a
\* time.
LEMMA ColdTyped == ASSUME Cold!ColdStartAssumption, ColdIInv, ColdOneAtATime PROVE Cold!TypeOK
<1>1. ColdWireOK /\ ColdAsked \in Nat /\ ColdAnswered \in Nat /\ coldAsleep \in Seq(BOOLEAN)
  BY ColdAreCounts DEF ColdIInv, ColdOneAtATime
<1>2. Len(coldAsleep) \in Nat BY <1>1
<1>3. Cold!OldRequests <= 1 BY <1>1, <1>2, ColdOldRequestsAre DEF ColdOneAtATime
<1> QED BY <1>1, <1>3 DEF Cold!TypeOK, ColdIInv, ColdOneAtATime, ColdWireOK, ColdOldOK, ColdOld

-----------------------------------------------------------------------------
(* The transaction pool: its counters are sums over its lists, and what is *)
(* in it still has its turn to come.  The latter rests on the blocks above *)
(* the final one: the nonces that a path of them uses up follow each other *)
(* from the nonce of the final state on, so that finalization moves the    *)
(* nonce of an account behind what leaves the pool and not behind the rest.*)

\* Of one account, without anything that is there twice
PoolListOK(s, a) ==
  /\ \A i \in DOMAIN s : AddressOf[s[i]] = a
  /\ \A i, j \in DOMAIN s : s[i] = s[j] /\ s[i] \in UserTx => i = j

PoolListsOK(p) ==
  /\ p \in [Address -> Seq(Pool!Tx)]
  /\ \A a \in Address : PoolListOK(p[a], a)

PoolInLists(p) == UNION {Pool!Range(p[a]) : a \in Address}

PoolCounted(p, n, m, of) ==
  /\ n = Pool!SizeOf(p)
  /\ of = [a \in Address |-> Pool!FreeIn(p[a])]
  /\ m = Pool!FoldFunction(+, 0, of)

\* The turn of a transaction is over when its account is at n.
PoolIsOver(t, n) == IF AddressOf[t] \in Numbered THEN OrderOf[t] < n ELSE OrderOf[t] <= n

PoolSucceeded(b) == b.txs \ b.failed

\* The nonces of an account after each block of a path: h[i] after the first i
PoolCounts(h, p, a, n) ==
  /\ h \in [0..Len(p) -> Nat] /\ h[0] = n
  /\ \A i, j \in 0..Len(p) : i <= j => h[i] <= h[j]
  /\ \A i \in 1..Len(p) : Pool!OrdersIn(PoolSucceeded(p[i]), a) = h[i - 1]..(h[i] - 1)

PoolInOrder(p, a, n) == \E h : PoolCounts(h, p, a, n)

\* Everything has its type, and nothing was done later than now.
PoolShapesOK ==
  /\ poolTracker \in [Pool!Tx -> [state : Pool!TxState \cup {"none"}, at : 0 .. MaxTime]]
  /\ poolCreated \in [Pool!Tx -> 0 .. MaxTime] /\ \A t \in Pool!Tx : poolCreated[t] <= poolNow
  /\ poolFront \in [Address -> Nat] /\ poolFinal \in [Address -> Nat]
  /\ poolBlocks \subseteq Seq(Pool!Body) \ {<<>>}
  /\ poolFinalized \subseteq Pool!Tx
  /\ poolTold \in [Pool!Tx -> Pool!TxState \cup {"none"}]
  /\ poolNow \in 0 .. MaxTime

\* What is pooled was tracked when it came or later.
PoolTrackedInTime == \A t \in Pool!Pooled : poolTracker[t].state # "none" /\ poolTracker[t].at >= poolCreated[t]

PoolTurnsOK ==
  /\ \A a \in Address : poolFront[a] >= poolFinal[a]
  /\ \A t \in poolFinalized \cap Pool!Ordered : PoolIsOver(t, poolFinal[AddressOf[t]])
  /\ \A p \in poolBlocks : \A a \in Numbered : PoolInOrder(p, a, poolFinal[a])

PoolIInv ==
  /\ PoolShapesOK /\ PoolListsOK(poolPool) /\ Pool!CountsAreExact
  /\ PoolTrackedInTime /\ PoolTurnsOK /\ Pool!SettledIsGone /\ Pool!PoolIsNotStale

-----------------------------------------------------------------------------
\* The pool counts the elements of sets as everyone does.
LEMMA PoolCards == \A S : Pool!Cardinality(S) = Cardinality(S)
BY Zenon DEF Pool!Cardinality, Cardinality

\* The constants, taken apart.
LEMMA PoolGiven ==
  ASSUME Pool!TxPoolAssumption
  PROVE  /\ IsFiniteSet(Pool!Tx) /\ IsFiniteSet(Address)
         /\ Numbered \subseteq Address /\ UserTx \subseteq Pool!Tx /\ ConsensusTx \subseteq Pool!Tx
         /\ UserTx \cap ConsensusTx = {} /\ ConsensusTx \subseteq Free
         /\ AddressOf \in [Pool!Tx -> Address] /\ OrderOf \in [UserTx -> Nat]
         /\ PoolTimeout \in Nat /\ TrackerTimeout \in Nat /\ PoolTimeout <= TrackerTimeout
         /\ MaxTime \in Nat /\ Pool!Ordered \subseteq UserTx /\ Pool!Ordered = UserTx \ Unordered
BY DEF Pool!TxPoolAssumption, Pool!Tx, Pool!Ordered, Pool!IsFiniteSet, IsFiniteSet

\* The orders of transactions are finitely many numbers.
LEMMA PoolOrdersAreFinite ==
  ASSUME Pool!TxPoolAssumption, NEW S \in SUBSET UserTx, NEW a
  PROVE  IsFiniteSet(Pool!OrdersIn(S, a)) /\ Pool!OrdersIn(S, a) \subseteq Nat
<1> DEFINE U == {u \in S \ Unordered : AddressOf[u] = a}
           f == [u \in U |-> OrderOf[u]]
<1>1. IsFiniteSet(U) /\ U \subseteq UserTx
  <2>1. U \in SUBSET Pool!Tx BY PoolGiven
  <2> QED BY <2>1, PoolGiven, FS_Subset
<1>2. Pool!OrdersIn(S, a) = {f[u] : u \in U} BY DEF Pool!OrdersIn
<1>3. f \in Surjection(U, Pool!OrdersIn(S, a)) BY <1>2 DEF Surjection
<1>4. Pool!OrdersIn(S, a) \subseteq Nat BY <1>1, <1>2, PoolGiven
<1> HIDE DEF U, f
<1> QED BY <1>1, <1>3, <1>4, FS_Surjection

\* The larger of some numbers and one more (updateAccountNonceAndTimestamp).
LEMMA PoolLastOf ==
  ASSUME NEW S, IsFiniteSet(S), S \subseteq Nat, NEW n \in Nat
  PROVE  /\ Pool!Max(S \cup {n}) \in S \cup {n} /\ Pool!Max(S \cup {n}) \in Nat
         /\ Pool!Max(S \cup {n}) >= n /\ \A x \in S : Pool!Max(S \cup {n}) >= x
<1> DEFINE U == S \cup {n}
<1>1. IsFiniteSet(U) /\ U # {} /\ U \subseteq Int /\ U \subseteq Nat
  <2>1. IsFiniteSet(U) BY FS_AddElement
  <2> QED BY <2>1
<1>2. \E m \in U : \A x \in U : m >= x
  <2> HIDE DEF U
  <2> QED BY <1>1, LargestExists
<1>3. Pool!Max(U) \in U /\ \A x \in U : Pool!Max(U) >= x
  <2> HIDE DEF U
  <2> QED BY <1>2 DEF Pool!Max
<1> QED BY <1>1, <1>3

\* The accounts only grow, and an account with timestamps passes all of them.
LEMMA PoolAccountsGrow ==
  ASSUME Pool!TxPoolAssumption, NEW accounts \in [Address -> Nat], NEW S \in SUBSET UserTx
  PROVE  /\ Pool!AccountsAfter(accounts, S) \in [Address -> Nat]
         /\ \A a \in Address : Pool!AccountsAfter(accounts, S)[a] >= accounts[a]
         /\ \A a \in Numbered :
              Pool!AccountsAfter(accounts, S)[a] = accounts[a] + Cardinality(Pool!OrdersIn(S, a))
         /\ \A a \in Address \ Numbered :
              /\ Pool!AccountsAfter(accounts, S)[a] \in Pool!OrdersIn(S, a) \cup {accounts[a]}
              /\ \A n \in Pool!OrdersIn(S, a) : n <= Pool!AccountsAfter(accounts, S)[a]
<1> DEFINE r == Pool!AccountsAfter(accounts, S)
<1>1. r = [a \in Address |->
             IF a \in Numbered THEN accounts[a] + Cardinality(Pool!OrdersIn(S, a))
             ELSE Pool!Max(Pool!OrdersIn(S, a) \cup {accounts[a]})]
  BY PoolCards DEF Pool!AccountsAfter
<1>2. \A a \in Address : r[a] = IF a \in Numbered THEN accounts[a] + Cardinality(Pool!OrdersIn(S, a))
                                ELSE Pool!Max(Pool!OrdersIn(S, a) \cup {accounts[a]})
  BY <1>1
<1> HIDE DEF r
<1>3. ASSUME NEW a \in Numbered
      PROVE  r[a] \in Nat /\ r[a] >= accounts[a]
             /\ r[a] = accounts[a] + Cardinality(Pool!OrdersIn(S, a))
  <2>1. a \in Address BY PoolGiven
  <2>2. Cardinality(Pool!OrdersIn(S, a)) \in Nat BY PoolOrdersAreFinite, FS_CardinalityType
  <2>3. accounts[a] \in Nat BY <2>1
  <2>4. r[a] = accounts[a] + Cardinality(Pool!OrdersIn(S, a)) BY <1>2, <2>1
  <2>5. PICK k \in Nat : k = Cardinality(Pool!OrdersIn(S, a)) BY <2>2
  <2>6. r[a] = accounts[a] + k BY <2>4, <2>5
  <2> QED BY <2>3, <2>4, <2>6
<1>4. ASSUME NEW a \in Address \ Numbered
      PROVE  r[a] \in Nat /\ r[a] >= accounts[a] /\ r[a] \in Pool!OrdersIn(S, a) \cup {accounts[a]}
             /\ \A n \in Pool!OrdersIn(S, a) : n <= r[a]
  <2>1. IsFiniteSet(Pool!OrdersIn(S, a)) /\ Pool!OrdersIn(S, a) \subseteq Nat /\ accounts[a] \in Nat
    BY PoolOrdersAreFinite
  <2>2. r[a] = Pool!Max(Pool!OrdersIn(S, a) \cup {accounts[a]}) BY <1>2
  <2>3. \A n \in Pool!OrdersIn(S, a) : n \in Nat BY <2>1
  <2> QED BY <2>1, <2>2, <2>3, PoolLastOf
<1>5. r \in [Address -> Nat] BY <1>1, <1>3, <1>4
<1> QED BY <1>3, <1>4, <1>5 DEF r

-----------------------------------------------------------------------------
(* Lists and their counters.                                               *)

PoolKeptStep(s, m, list) == Pool!Kept(list, m)
PoolJudgedAt(s, i) == s[i]
PoolLastPlace(S) == CHOOSE x \in S : \A y \in S : x >= y

PoolSelecting == INSTANCE FoldTheorems WITH Op <- PoolKeptStep, Value <- PoolJudgedAt, Pick <- PoolLastPlace

\* What is left of a list is in it and was let through, and nothing is there twice
\* that was there once (updateTxListAndCounts).
PoolSelectedFrom(s, keep, T) ==
  {list \in Seq(Pool!Tx) :
     /\ \A k \in DOMAIN list : list[k] \in keep /\ \E i \in T : list[k] = s[i]
     /\ \A k, m \in DOMAIN list : list[k] = list[m] /\ list[k] \in UserTx => k = m}

\* A list with one more transaction.
LEMMA PoolOneMore ==
  ASSUME NEW list \in Seq(Pool!Tx), NEW t \in Pool!Tx
  PROVE  /\ Append(list, t) \in Seq(Pool!Tx) /\ DOMAIN list = 1..Len(list)
         /\ DOMAIN Append(list, t) = DOMAIN list \cup {Len(list) + 1}
         /\ Append(list, t)[Len(list) + 1] = t /\ Len(list) + 1 \notin DOMAIN list
         /\ \A k \in DOMAIN list : Append(list, t)[k] = list[k]
OBVIOUS

\* The places of a list, and the largest of some of them.
LEMMA PoolPlacesArePicked ==
  ASSUME NEW q, NEW n \in Nat, DOMAIN q = 1..n
  PROVE  IsFiniteSet(DOMAIN q) /\ PoolSelecting!IsFiniteSet(DOMAIN q) /\ PoolSelecting!Picks(DOMAIN q)
<1>1. IsFiniteSet(DOMAIN q) BY FS_Interval
<1>2. ASSUME NEW T \in SUBSET DOMAIN q, T # {} PROVE PoolLastPlace(T) \in T
  <2>1. IsFiniteSet(T) BY <1>1, FS_Subset
  <2>2. T \subseteq Int OBVIOUS
  <2>3. \E x \in T : \A y \in T : x >= y BY <1>2, <2>1, <2>2, LargestExists
  <2> QED BY <2>3 DEF PoolLastPlace
<1> QED BY <1>1, <1>2 DEF IsFiniteSet, PoolSelecting!IsFiniteSet, PoolSelecting!Picks

\* Every transaction of a list is looked at once.
LEMMA PoolSelection ==
  ASSUME NEW s \in Seq(Pool!Tx), NEW keep,
         \A i, j \in DOMAIN s : s[i] = s[j] /\ s[i] \in UserTx => i = j
  PROVE  Pool!Selected(s, keep) \in PoolSelectedFrom(s, keep, DOMAIN s)
<1>1. PICK q : q = Pool!Judged(s, keep) OBVIOUS
<1>2. /\ DOMAIN q = DOMAIN s
      /\ \A i \in DOMAIN s : q[i].tx = s[i] /\ q[i].stays = (s[i] \in keep)
  BY <1>1 DEF Pool!Judged
<1>3. Pool!Selected(s, keep) = PoolSelecting!Fold(q, <<>>, DOMAIN q)
  BY <1>1, Zenon DEF Pool!Selected, Pool!FoldLeft, Pool!MapThenFoldSet, PoolSelecting!Fold, PoolSelecting!FoldOf,
     PoolSelecting!IsFold, PoolKeptStep, PoolJudgedAt, PoolLastPlace, Pool!Max
<1>4. PoolSelecting!IsFiniteSet(DOMAIN q) /\ PoolSelecting!Picks(DOMAIN q)
  <2>1. Len(s) \in Nat /\ DOMAIN s = 1..Len(s) OBVIOUS
  <2> QED BY <1>2, <2>1, PoolPlacesArePicked
<1> DEFINE R == {u \in (SUBSET DOMAIN s) \X Seq(Pool!Tx) : u[2] \in PoolSelectedFrom(s, keep, u[1])}
<1>5. <<{}, <<>>>> \in R
  <2>1. <<>> \in PoolSelectedFrom(s, keep, {}) BY DEF PoolSelectedFrom
  <2> QED BY <2>1 DEF PoolSelectedFrom
<1>6. ASSUME NEW T \in SUBSET DOMAIN q, NEW v, T # {}, <<T \ {PoolLastPlace(T)}, v>> \in R
      PROVE  <<T, PoolKeptStep(q, PoolJudgedAt(q, PoolLastPlace(T)), v)>> \in R
  <2>1. PICK p \in T : p = PoolLastPlace(T) BY <1>4, <1>6 DEF PoolSelecting!Picks
  <2>2. v \in PoolSelectedFrom(s, keep, T \ {p}) BY <1>6, <2>1
  <2>3. /\ v \in Seq(Pool!Tx)
        /\ \A k \in DOMAIN v : v[k] \in keep /\ \E i \in T \ {p} : v[k] = s[i]
        /\ \A k, m \in DOMAIN v : v[k] = v[m] /\ v[k] \in UserTx => k = m
    BY <2>2 DEF PoolSelectedFrom
  <2>4. p \in DOMAIN s /\ s[p] \in Pool!Tx /\ T \subseteq DOMAIN s BY <1>2
  <2>5. PoolKeptStep(q, PoolJudgedAt(q, p), v) = IF s[p] \in keep THEN Append(v, s[p]) ELSE v
    BY <1>2, <2>4 DEF PoolKeptStep, PoolJudgedAt, Pool!Kept
  <2>6. CASE s[p] \notin keep
    <3>1. v \in PoolSelectedFrom(s, keep, T) BY <2>3 DEF PoolSelectedFrom
    <3> QED BY <2>1, <2>3, <2>4, <2>5, <2>6, <3>1
  <2>7. CASE s[p] \in keep
    <3>1. PICK w : w = Append(v, s[p]) OBVIOUS
    <3>2. /\ w \in Seq(Pool!Tx) /\ DOMAIN w = DOMAIN v \cup {Len(v) + 1}
          /\ w[Len(v) + 1] = s[p] /\ Len(v) + 1 \notin DOMAIN v
          /\ \A k \in DOMAIN v : w[k] = v[k]
      BY <2>3, <2>4, <3>1, PoolOneMore
    <3>3. \A k \in DOMAIN w : w[k] \in keep /\ \E i \in T : w[k] = s[i]
      BY <2>3, <2>7, <3>2
    <3>4. \A k \in DOMAIN v : s[p] \in UserTx => v[k] # s[p]
      BY <2>3, <2>4
    <3>5. \A k, m \in DOMAIN w : w[k] = w[m] /\ w[k] \in UserTx => k = m
      BY <2>3, <3>2, <3>4
    <3>6. w \in PoolSelectedFrom(s, keep, T) BY <3>2, <3>3, <3>5 DEF PoolSelectedFrom
    <3> QED BY <2>1, <2>4, <2>5, <2>7, <3>1, <3>2, <3>6
  <2> QED BY <2>6, <2>7
<1> HIDE DEF R
<1>7. <<DOMAIN q, PoolSelecting!Fold(q, <<>>, DOMAIN q)>> \in R
  BY <1>4, <1>5, <1>6, PoolSelecting!FoldInduction
<1> QED BY <1>2, <1>3, <1>7 DEF R

\* How many free transactions a list has.
LEMMA PoolFreeInIs == \A s : Pool!FreeIn(s) = Count(s, Free)
BY PoolCards DEF Pool!FreeIn, Count, Places

\* The size of the pool is a sum over the accounts.
LEMMA PoolSizeIs ==
  \A p : Pool!SizeOf(p) = Total([a \in Address |-> Len(p[a])], Address)
<1> TAKE p
<1> DEFINE c == [a \in Address |-> Len(p[a])]
<1>1. Pool!FoldFunction(+, 0, c) = Total(c, DOMAIN c)
  BY Zenon DEF Pool!FoldFunction, Pool!FoldFunctionOnSet, Pool!MapThenFoldSet, Total, Sums!Fold, Sums!FoldOf,
     Sums!IsFold, AnyOf, Plus, ValueAt
<1>2. DOMAIN c = Address OBVIOUS
<1> QED BY <1>1, <1>2 DEF Pool!SizeOf

\* A sum over the accounts.
LEMMA PoolSumIs ==
  ASSUME NEW c, DOMAIN c = Address PROVE Pool!FoldFunction(+, 0, c) = Total(c, Address)
<1>1. Pool!FoldFunction(+, 0, c) = Total(c, DOMAIN c)
  BY Zenon DEF Pool!FoldFunction, Pool!FoldFunctionOnSet, Pool!MapThenFoldSet, Total, Sums!Fold, Sums!FoldOf,
     Sums!IsFold, AnyOf, Plus, ValueAt
<1> QED BY <1>1

\* The counters are natural numbers.
LEMMA PoolCountersAreNat ==
  ASSUME Pool!TxPoolAssumption, NEW p \in [Address -> Seq(Pool!Tx)], NEW n, NEW m, NEW of, PoolCounted(p, n, m, of)
  PROVE  n \in Nat /\ m \in Nat /\ of \in [Address -> Nat]
<1> DEFINE c == [a \in Address |-> Len(p[a])]
<1>1. \A a \in Address : c[a] \in Nat /\ Pool!FreeIn(p[a]) \in Nat BY PoolFreeInIs, CountIsNat
<1>2. n = Total(c, Address) BY PoolSizeIs DEF PoolCounted
<1>3. of \in [Address -> Nat] BY <1>1 DEF PoolCounted
<1>4. m = Total(of, Address) BY <1>3, PoolSumIs DEF PoolCounted
<1> HIDE DEF c
<1> QED BY <1>1, <1>2, <1>3, <1>4, PoolGiven, TotalIsNat

\* A sum of which one summand grows
LEMMA PoolTotalGrows ==
  ASSUME NEW S, IsFiniteSet(S), NEW c, NEW e, NEW z \in S, NEW k \in Int,
         \A x \in S : c[x] \in Int, \A x \in S \ {z} : e[x] = c[x], e[z] = c[z] + k
  PROVE  Total(c, S) \in Int /\ Moves(Total(c, S), Total(e, S), 0, k)
<1>1. \A x \in S : c[x] \in Int /\ e[x] \in Int
  <2>1. c[z] \in Int OBVIOUS
  <2>2. e[z] \in Int BY <2>1
  <2> QED BY <2>2
<1>2. PICK T : T = S \ {z} OBVIOUS
<1>3. IsFiniteSet(T) /\ (\A x \in T : c[x] \in Int /\ e[x] = c[x]) BY <1>1, <1>2, FS_Subset
<1>4. Total(c, T) = Total(e, T) /\ Total(c, T) \in Int BY <1>3, TotalsAgree, TotalIsInt
<1>5. Total(c, S) = c[z] + Total(c, T) BY <1>1, <1>2, TotalTakesOut
<1>6. Total(e, S) = e[z] + Total(e, T) BY <1>1, <1>2, TotalTakesOut
<1>7. PICK i \in Int, j \in Int : i = c[z] /\ j = Total(c, T) BY <1>1, <1>4
<1>8. Total(c, S) = i + j /\ Total(e, S) = (i + k) + j BY <1>4, <1>5, <1>6, <1>7
<1>9. (i + k) + j = (i + j) + k - 0 OBVIOUS
<1> QED BY <1>8, <1>9 DEF Moves

\* One more transaction in a list, and in the counters (addTransaction).
LEMMA PoolPushing ==
  ASSUME Pool!TxPoolAssumption, NEW p, PoolListsOK(p), NEW n, NEW m, NEW of, PoolCounted(p, n, m, of),
         NEW t \in Pool!Tx, t \in UserTx => t \notin PoolInLists(p),
         NEW q, q = [p EXCEPT ![AddressOf[t]] = Append(@, t)],
         NEW d, d = IF t \in Free THEN 1 ELSE 0
  PROVE  /\ PoolListsOK(q) /\ PoolInLists(q) = PoolInLists(p) \cup {t}
         /\ PoolCounted(q, n + 1, m + d, [of EXCEPT ![AddressOf[t]] = @ + d])
<1>0. PICK z \in Address : z = AddressOf[t] BY PoolGiven
<1>1. p \in [Address -> Seq(Pool!Tx)] /\ p[z] \in Seq(Pool!Tx) /\ PoolListOK(p[z], z)
  BY DEF PoolListsOK
<1>2. /\ q \in [Address -> Seq(Pool!Tx)] /\ q[z] = Append(p[z], t)
      /\ \A a \in Address \ {z} : q[a] = p[a]
  BY <1>0, <1>1
<1>3. /\ DOMAIN q[z] = DOMAIN p[z] \cup {Len(p[z]) + 1} /\ q[z][Len(p[z]) + 1] = t
      /\ Len(p[z]) + 1 \notin DOMAIN p[z] /\ \A k \in DOMAIN p[z] : q[z][k] = p[z][k]
  BY <1>1, <1>2, PoolOneMore
<1>4. PoolListOK(q[z], z)
  <2>1. \A i \in DOMAIN p[z] : t \in UserTx => p[z][i] # t
    <3>1. \A i \in DOMAIN p[z] : p[z][i] \in PoolInLists(p) BY <1>1 DEF PoolInLists, Pool!Range
    <3> QED BY <3>1
  <2> QED BY <1>0, <1>1, <1>3, <2>1 DEF PoolListOK
<1>5. PoolListsOK(q)
  <2>1. \A a \in Address : PoolListOK(q[a], a) BY <1>2, <1>4 DEF PoolListsOK
  <2> QED BY <1>2, <2>1 DEF PoolListsOK
<1>6. PoolInLists(q) = PoolInLists(p) \cup {t}
  <2>1. Pool!Range(q[z]) = Pool!Range(p[z]) \cup {t} BY <1>3 DEF Pool!Range
  <2>2. \A a \in Address \ {z} : Pool!Range(q[a]) = Pool!Range(p[a]) BY <1>2
  <2> QED BY <2>1, <2>2 DEF PoolInLists
<1>7. Pool!SizeOf(q) = n + 1
  <2> DEFINE c == [a \in Address |-> Len(p[a])]
             e == [a \in Address |-> Len(q[a])]
  <2>1. \A a \in Address : c[a] \in Int /\ e[a] \in Int BY <1>1, <1>2
  <2>2. (\A a \in Address \ {z} : e[a] = c[a]) /\ e[z] = c[z] + 1 BY <1>1, <1>2
  <2>3. Pool!SizeOf(p) = Total(c, Address) /\ Pool!SizeOf(q) = Total(e, Address) BY PoolSizeIs
  <2> HIDE DEF c, e
  <2>4. Total(c, Address) \in Int /\ Moves(Total(c, Address), Total(e, Address), 0, 1)
    BY <2>1, <2>2, PoolGiven, PoolTotalGrows
  <2>5. PICK j \in Int : j = Total(c, Address) BY <2>4
  <2>6. Pool!SizeOf(q) = j + 1 - 0 BY <2>3, <2>4, <2>5 DEF Moves
  <2>7. n = j BY <2>3, <2>5 DEF PoolCounted
  <2> QED BY <2>6, <2>7
<1>8. /\ \A a \in Address : Pool!FreeIn(p[a]) \in Nat /\ Pool!FreeIn(q[a]) \in Nat
      /\ Pool!FreeIn(q[z]) = Pool!FreeIn(p[z]) + d /\ \A a \in Address \ {z} : Pool!FreeIn(q[a]) = Pool!FreeIn(p[a])
  <2>1. \A a \in Address : p[a] \in Seq(Pool!Tx) /\ q[a] \in Seq(Pool!Tx) BY <1>1, <1>2
  <2>2. \A a \in Address : Pool!FreeIn(p[a]) \in Nat /\ Pool!FreeIn(q[a]) \in Nat
    BY <2>1, PoolFreeInIs, CountIsNat
  <2>3. Count(Append(p[z], t), Free) = Count(p[z], Free) + (IF t \in Free THEN 1 ELSE 0)
    BY <1>1, CountOfAppend
  <2> QED BY <1>2, <2>2, <2>3, PoolFreeInIs
<1>9. [of EXCEPT ![z] = @ + d] = [a \in Address |-> Pool!FreeIn(q[a])]
  BY <1>1, <1>8 DEF PoolCounted
<1>10. Pool!FoldFunction(+, 0, [of EXCEPT ![z] = @ + d]) = m + d
  <2> DEFINE e == [a \in Address |-> Pool!FreeIn(q[a])]
  <2>1. of = [a \in Address |-> Pool!FreeIn(p[a])] /\ m = Total(of, Address) BY PoolSumIs DEF PoolCounted
  <2>2. Pool!FoldFunction(+, 0, e) = Total(e, Address) BY PoolSumIs
  <2>3. \A a \in Address : of[a] \in Int /\ e[a] \in Int BY <1>8, <2>1
  <2>4. (\A a \in Address \ {z} : e[a] = of[a]) /\ e[z] = of[z] + d BY <1>1, <1>8, <2>1
  <2>5. Pool!FoldFunction(+, 0, [of EXCEPT ![z] = @ + d]) = Total(e, Address) BY <1>9, <2>2
  <2> HIDE DEF e
  <2>6. d \in Int OBVIOUS
  <2>7. Total(of, Address) \in Int /\ Moves(Total(of, Address), Total(e, Address), 0, d)
    BY <2>3, <2>4, <2>6, PoolGiven, PoolTotalGrows
  <2>8. PICK j \in Int : j = Total(of, Address) BY <2>7
  <2>9. Total(e, Address) = j + d - 0 BY <2>7, <2>8 DEF Moves
  <2>10. m = j BY <2>1, <2>8
  <2>11. Total(e, Address) = m + d BY <2>6, <2>9, <2>10
  <2> QED BY <2>5, <2>11, Zenon
<1> QED BY <1>0, <1>5, <1>6, <1>7, <1>9, <1>10 DEF PoolCounted

\* Only what a filter lets through stays, and the counters follow.
LEMMA PoolFiltering ==
  ASSUME Pool!TxPoolAssumption, PoolListsOK(poolPool), Pool!CountsAreExact, NEW keep, NEW f, f = Pool!Filtered(keep)
  PROVE  /\ PoolListsOK(f.pool) /\ PoolInLists(f.pool) \subseteq Pool!Pooled \cap keep
         /\ PoolCounted(f.pool, f.total, f.free, f.of)
<1> DEFINE p == [a \in Address |-> Pool!Selected(poolPool[a], keep)]
           gone == [a \in Address |-> Pool!FreeIn(poolPool[a]) - Pool!FreeIn(p[a])]
<1>1. /\ f.pool = p /\ f.total = poolTotal - (Pool!SizeOf(poolPool) - Pool!SizeOf(p))
      /\ f.free = poolFreeTotal - Pool!FoldFunction(+, 0, gone)
      /\ f.of = [a \in Address |-> poolFreeOf[a] - gone[a]]
  BY DEF Pool!Filtered
<1>2. PoolCounted(poolPool, poolTotal, poolFreeTotal, poolFreeOf) BY DEF Pool!CountsAreExact, PoolCounted
<1>3. ASSUME NEW a \in Address
      PROVE  /\ poolPool[a] \in Seq(Pool!Tx) /\ p[a] \in Seq(Pool!Tx) /\ PoolListOK(p[a], a)
             /\ Pool!Range(p[a]) \subseteq Pool!Range(poolPool[a]) \cap keep
  <2>1. poolPool[a] \in Seq(Pool!Tx) /\ PoolListOK(poolPool[a], a) BY DEF PoolListsOK
  <2>2. p[a] = Pool!Selected(poolPool[a], keep) OBVIOUS
  <2> HIDE DEF p
  <2>3. p[a] \in PoolSelectedFrom(poolPool[a], keep, DOMAIN poolPool[a]) BY <2>1, <2>2, PoolSelection DEF PoolListOK
  <2>4. \A k \in DOMAIN p[a] : p[a][k] \in keep /\ \E i \in DOMAIN poolPool[a] : p[a][k] = poolPool[a][i]
    BY <2>3 DEF PoolSelectedFrom
  <2>5. Pool!Range(p[a]) \subseteq Pool!Range(poolPool[a]) \cap keep BY <2>4 DEF Pool!Range
  <2>6. PoolListOK(p[a], a) BY <2>1, <2>3, <2>4 DEF PoolSelectedFrom, PoolListOK
  <2> QED BY <2>1, <2>3, <2>5, <2>6 DEF PoolSelectedFrom
<1>4. p \in [Address -> Seq(Pool!Tx)] BY <1>3
<1>5. poolPool \in [Address -> Seq(Pool!Tx)] BY DEF PoolListsOK
<1>6. PoolListsOK(p) BY <1>3, <1>4 DEF PoolListsOK
<1>7. PoolInLists(p) \subseteq Pool!Pooled \cap keep BY <1>3 DEF PoolInLists, Pool!Pooled
<1>8. /\ \A a \in Address : /\ Pool!FreeIn(poolPool[a]) \in Nat /\ Pool!FreeIn(p[a]) \in Nat
                            /\ poolFreeOf[a] = Pool!FreeIn(poolPool[a])
                            /\ gone[a] = Pool!FreeIn(poolPool[a]) - Pool!FreeIn(p[a])
      /\ DOMAIN poolFreeOf = Address /\ DOMAIN gone = Address
  <2>1. \A a \in Address : Pool!FreeIn(poolPool[a]) \in Nat /\ Pool!FreeIn(p[a]) \in Nat
    BY <1>3, PoolFreeInIs, CountIsNat
  <2> HIDE DEF p
  <2> QED BY <1>2, <2>1 DEF PoolCounted
<1>9. Pool!SizeOf(p) \in Nat /\ poolTotal \in Nat
  <2>1. PoolCounted(p, Pool!SizeOf(p), Pool!FoldFunction(+, 0, [a \in Address |-> Pool!FreeIn(p[a])]),
                [a \in Address |-> Pool!FreeIn(p[a])]) BY DEF PoolCounted
  <2> HIDE DEF p
  <2>2. Pool!SizeOf(p) \in Nat BY <1>4, <2>1, PoolCountersAreNat
  <2> QED BY <1>2, <1>5, <2>2, PoolCountersAreNat
<1>10. f.total = Pool!SizeOf(p)
  <2>1. poolTotal = Pool!SizeOf(poolPool) BY <1>2 DEF PoolCounted
  <2> HIDE DEF p, gone
  <2>2. PICK i \in Nat : i = poolTotal BY <1>9
  <2>3. PICK j \in Nat : j = Pool!SizeOf(p) BY <1>9
  <2>4. f.total = i - (i - j) BY <1>1, <2>1, <2>2, <2>3
  <2>5. i - (i - j) = j OBVIOUS
  <2> QED BY <2>3, <2>4, <2>5
<1>11. f.of = [a \in Address |-> Pool!FreeIn(p[a])]
  <2>1. \A a \in Address : poolFreeOf[a] - gone[a] = Pool!FreeIn(p[a])
    <3> HIDE DEF p, gone
    <3> QED BY <1>8
  <2> HIDE DEF p, gone
  <2> QED BY <1>1, <2>1
<1>12. f.free = Pool!FoldFunction(+, 0, f.of)
  <2> DEFINE e == [a \in Address |-> Pool!FreeIn(p[a])]
  <2>1. poolFreeTotal = Total(poolFreeOf, Address) BY <1>2, <1>8, PoolSumIs DEF PoolCounted
  <2>2. Pool!FoldFunction(+, 0, gone) = Total(gone, Address) BY <1>8, PoolSumIs
  <2>3. Pool!FoldFunction(+, 0, e) = Total(e, Address) BY PoolSumIs
  <2>4. \A a \in Address : /\ poolFreeOf[a] \in Int /\ gone[a] \in Int /\ e[a] \in Int
                           /\ e[a] = poolFreeOf[a] - gone[a]
    <3>1. \A a \in Address : e[a] = Pool!FreeIn(p[a]) OBVIOUS
    <3> HIDE DEF e, gone, p
    <3> QED BY <1>8, <3>1
  <2>5. f.of = e BY <1>11
  <2> HIDE DEF e, gone, p
  <2>6. Total(e, Address) = Total(poolFreeOf, Address) - Total(gone, Address)
    BY <2>4, PoolGiven, TotalOfDifferences
  <2> QED BY <1>1, <2>1, <2>2, <2>3, <2>5, <2>6
<1> HIDE DEF p, gone
<1> QED BY <1>1, <1>6, <1>7, <1>10, <1>11, <1>12 DEF PoolCounted

-----------------------------------------------------------------------------
(* The nonces that the blocks of a path use up.                            *)

\* Numbers without a gap from one on are an interval.
LEMMA PoolNoGaps ==
  ASSUME NEW S, IsFiniteSet(S), S \subseteq Nat, NEW n \in Nat,
         \A x \in S : n <= x /\ n..(x - 1) \subseteq S
  PROVE  \E m \in Nat : m >= n /\ S = n..(m - 1)
<1>1. CASE S = {}
  <2>1. n..(n - 1) = {} OBVIOUS
  <2> QED BY <1>1, <2>1
<1>2. CASE S # {}
  <2>1. S \subseteq Int OBVIOUS
  <2>2. PICK x \in S : \A y \in S : x >= y BY <1>2, <2>1, LargestExists
  <2>3. x \in Nat /\ n <= x /\ n..(x - 1) \subseteq S BY <2>2
  <2>4. x + 1 \in Nat /\ x + 1 >= n /\ (x + 1) - 1 = x BY <2>3
  <2>5. \A y \in S : y \in n..x
    <3> SUFFICES ASSUME NEW y \in S PROVE y \in n..x OBVIOUS
    <3>1. y \in Nat /\ n <= y /\ x >= y BY <2>2
    <3> QED BY <2>3, <3>1
  <2>6. \A y \in n..x : y \in S
    <3> SUFFICES ASSUME NEW y \in n..x PROVE y \in S OBVIOUS
    <3>1. y = x \/ y \in n..(x - 1) BY <2>3
    <3> QED BY <2>3, <3>1
  <2>7. S = n..x BY <2>5, <2>6
  <2> QED BY <2>4, <2>7
<1> QED BY <1>1, <1>2

\* The body of a block has transactions of users.
LEMMA PoolBodiesHold ==
  ASSUME NEW b \in Pool!Body PROVE b.txs \subseteq UserTx /\ PoolSucceeded(b) \subseteq UserTx
BY DEF Pool!Body, PoolSucceeded

PoolAllSucceeded(p) == UNION {PoolSucceeded(b) : b \in Pool!Range(p)}

\* What the blocks of a path use up together.
LEMMA PoolPathOrders ==
  ASSUME NEW p \in Seq(Pool!Body), NEW a, NEW n \in Nat, NEW h, PoolCounts(h, p, a, n)
  PROVE  /\ Pool!OrdersIn(PoolAllSucceeded(p), a) = n..(h[Len(p)] - 1)
         /\ h[Len(p)] \in Nat /\ h[Len(p)] >= n
<1>1. /\ Len(p) \in Nat /\ DOMAIN p = 1..Len(p)
      /\ h \in [0..Len(p) -> Nat] /\ h[0] = n
      /\ \A i, j \in 0..Len(p) : i <= j => h[i] <= h[j]
      /\ \A i \in 1..Len(p) : Pool!OrdersIn(PoolSucceeded(p[i]), a) = h[i - 1]..(h[i] - 1)
  BY DEF PoolCounts
<1>2. PICK l \in Nat : l = Len(p) BY <1>1
<1>3. 0 \in 0..l /\ l \in 0..l /\ h[l] \in Nat /\ h[l] >= n
  <2>1. 0 \in 0..l /\ l \in 0..l BY <1>2
  <2> QED BY <1>1, <1>2, <2>1
<1>4. ASSUME NEW x \in Pool!OrdersIn(PoolAllSucceeded(p), a) PROVE x \in n..(h[l] - 1)
  <2>1. PICK u \in PoolAllSucceeded(p) \ Unordered : AddressOf[u] = a /\ x = OrderOf[u] BY <1>4 DEF Pool!OrdersIn
  <2>2. PICK i \in 1..l : u \in PoolSucceeded(p[i]) BY <1>1, <1>2, <2>1 DEF PoolAllSucceeded, Pool!Range
  <2>3. x \in h[i - 1]..(h[i] - 1)
    <3>1. x \in Pool!OrdersIn(PoolSucceeded(p[i]), a) BY <2>1, <2>2 DEF Pool!OrdersIn
    <3> QED BY <1>1, <1>2, <3>1
  <2>4. i - 1 \in 0..l /\ i \in 0..l BY <1>2
  <2>5. h[i - 1] \in Nat /\ h[i] \in Nat /\ n <= h[i - 1] /\ h[i] <= h[l]
    BY <1>1, <1>2, <1>3, <2>4
  <2> QED BY <1>3, <2>3, <2>5
<1>5. ASSUME NEW x \in n..(h[l] - 1) PROVE x \in Pool!OrdersIn(PoolAllSucceeded(p), a)
  <2> DEFINE K == {k \in 0..l : h[k] <= x}
  <2>1. K \subseteq Int /\ IsFiniteSet(K) /\ 0 \in K
    <3>1. IsFiniteSet(0..l) BY <1>2, FS_Interval
    <3>2. 0 \in K BY <1>1, <1>2, <1>3, <1>5
    <3> QED BY <3>1, <3>2, FS_Subset
  <2>2. PICK k \in K : \A y \in K : k >= y
    <3> HIDE DEF K
    <3> QED BY <2>1, LargestExists
  <2>3. k \in 0..l /\ h[k] <= x BY <2>2
  <2>4. k # l BY <1>3, <1>5, <2>3
  <2>5. k + 1 \in 1..l /\ k + 1 \in 0..l /\ (k + 1) - 1 = k BY <1>2, <2>3, <2>4
  <2>6. k + 1 \notin K
    <3> HIDE DEF K
    <3>1. ~(k >= k + 1) BY <2>3
    <3> QED BY <2>2, <3>1
  <2>7. h[k + 1] \in Nat /\ h[k] \in Nat /\ ~(h[k + 1] <= x) BY <1>1, <1>2, <2>3, <2>5, <2>6
  <2>8. x \in h[k]..(h[k + 1] - 1) BY <1>3, <1>5, <2>3, <2>7
  <2>9. x \in Pool!OrdersIn(PoolSucceeded(p[k + 1]), a) BY <1>1, <1>2, <2>5, <2>8
  <2>10. PoolSucceeded(p[k + 1]) \subseteq PoolAllSucceeded(p)
    BY <1>1, <1>2, <2>5 DEF PoolAllSucceeded, Pool!Range
  <2> QED BY <2>9, <2>10 DEF Pool!OrdersIn
<1> QED BY <1>2, <1>3, <1>4, <1>5

\* The accounts on a path, as its nonces say.
LEMMA PoolAccountsOnPath ==
  ASSUME Pool!TxPoolAssumption, poolFinal \in [Address -> Nat], NEW p \in Seq(Pool!Body), NEW a \in Numbered,
         NEW h, PoolCounts(h, p, a, poolFinal[a])
  PROVE  Pool!AccountsOn(p)[a] = h[Len(p)]
<1> DEFINE S == PoolAllSucceeded(p)
<1>1. S \in SUBSET UserTx
  <2>1. \A i \in DOMAIN p : p[i] \in Pool!Body OBVIOUS
  <2> QED BY <2>1, PoolBodiesHold DEF PoolAllSucceeded, Pool!Range
<1>2. Pool!AccountsOn(p) = Pool!AccountsAfter(poolFinal, S) BY DEF Pool!AccountsOn, PoolAllSucceeded, PoolSucceeded
<1> HIDE DEF S
<1>3. PICK n \in Nat : n = poolFinal[a] BY PoolGiven
<1>8. PoolCounts(h, p, a, n) BY <1>3
<1>9. Pool!OrdersIn(PoolAllSucceeded(p), a) = n..(h[Len(p)] - 1) /\ h[Len(p)] \in Nat /\ h[Len(p)] >= n
  BY <1>8, PoolPathOrders
<1>4. PICK m \in Nat : m = h[Len(p)] /\ m >= n /\ Pool!OrdersIn(PoolAllSucceeded(p), a) = n..(m - 1)
  BY <1>9
<1>5. Cardinality(n..(m - 1)) = m - n
  <2>1. n \in Int /\ m - 1 \in Int OBVIOUS
  <2>2. Cardinality(n..(m - 1)) = IF n > m - 1 THEN 0 ELSE (m - 1) - n + 1
    BY <2>1, FS_Interval
  <2> QED BY <1>4, <2>2
<1>6. Pool!AccountsAfter(poolFinal, S)[a] = poolFinal[a] + Cardinality(Pool!OrdersIn(S, a))
  BY <1>1, PoolAccountsGrow
<1>7. Pool!AccountsAfter(poolFinal, S)[a] = n + (m - n) BY <1>3, <1>4, <1>5, <1>6 DEF S
<1> QED BY <1>2, <1>4, <1>7

\* A block that can be executed takes the nonces that come next.
LEMMA PoolExtending ==
  ASSUME Pool!TxPoolAssumption, poolFinal \in [Address -> Nat], NEW p \in Seq(Pool!Body), NEW b \in Pool!Body,
         NEW a \in Numbered, PoolInOrder(p, a, poolFinal[a]), Pool!CanExecute(Pool!AccountsOn(p), b.txs, b.failed)
  PROVE  PoolInOrder(Append(p, b), a, poolFinal[a])
<1>1. PICK h : PoolCounts(h, p, a, poolFinal[a]) BY DEF PoolInOrder
<1>2. PICK n \in Nat, l \in Nat : n = poolFinal[a] /\ l = Len(p) BY PoolGiven
<1>3. /\ h \in [0..l -> Nat] /\ h[0] = n
      /\ \A i, j \in 0..l : i <= j => h[i] <= h[j]
      /\ \A i \in 1..l : Pool!OrdersIn(PoolSucceeded(p[i]), a) = h[i - 1]..(h[i] - 1)
  BY <1>1, <1>2 DEF PoolCounts
<1>4. Pool!AccountsOn(p)[a] = h[l] /\ h[l] \in Nat
  <2>1. l \in 0..l BY <1>2
  <2> QED BY <1>1, <1>2, <1>3, <2>1, PoolAccountsOnPath
<1>5. PICK k \in Nat : k = h[l] BY <1>4
<1>6. PICK m \in Nat : m >= k /\ Pool!OrdersIn(PoolSucceeded(b), a) = k..(m - 1)
  <2> DEFINE S == Pool!OrdersIn(PoolSucceeded(b), a)
  <2>1. IsFiniteSet(S) /\ S \subseteq Nat BY PoolBodiesHold, PoolOrdersAreFinite
  <2>2. ASSUME NEW x \in S PROVE k <= x /\ k..(x - 1) \subseteq S
    <3>1. PICK t \in PoolSucceeded(b) \ Unordered : AddressOf[t] = a /\ x = OrderOf[t] BY <2>2 DEF Pool!OrdersIn
    <3>2. t \in b.txs \ Unordered BY <3>1 DEF PoolSucceeded
    <3>3. /\ Pool!AccountsOn(p)[AddressOf[t]] <= OrderOf[t]
          /\ Pool!AccountsOn(p)[AddressOf[t]]..(OrderOf[t] - 1)
               \subseteq Pool!OrdersIn(b.txs \ b.failed, AddressOf[t])
      BY <3>1, <3>2 DEF Pool!CanExecute
    <3> QED BY <1>4, <1>5, <3>1, <3>3 DEF PoolSucceeded
  <2> HIDE DEF S
  <2>3. \E m \in Nat : m >= k /\ S = k..(m - 1) BY <2>1, <2>2, PoolNoGaps
  <2> QED BY <2>3 DEF S
<1>7. PICK q : q = Append(p, b) OBVIOUS
<1>8. /\ q \in Seq(Pool!Body) /\ Len(q) = l + 1 /\ q[l + 1] = b
      /\ \A i \in 1..l : q[i] = p[i]
  BY <1>2, <1>7
<1>9. PICK g : g = [i \in 0..(l + 1) |-> IF i = l + 1 THEN m ELSE h[i]] OBVIOUS
<1>10. g \in [0..(l + 1) -> Nat] /\ g[l + 1] = m /\ (\A i \in 0..l : g[i] = h[i]) /\ g[0] = n
  <2>1. l + 1 \in 0..(l + 1) /\ 0 \in 0..l BY <1>2
  <2>2. \A i \in 0..l : i \in 0..(l + 1) /\ i # l + 1 BY <1>2
  <2>3. \A i \in 0..(l + 1) : i # l + 1 => i \in 0..l BY <1>2
  <2>4. \A i \in 0..l : h[i] \in Nat BY <1>3
  <2>5. g \in [0..(l + 1) -> Nat] BY <1>9, <2>3, <2>4
  <2> QED BY <1>3, <1>9, <2>1, <2>2, <2>5
<1>11. \A i, j \in 0..(l + 1) : i <= j => g[i] <= g[j]
  <2> SUFFICES ASSUME NEW i \in 0..(l + 1), NEW j \in 0..(l + 1), i <= j PROVE g[i] <= g[j]
    OBVIOUS
  <2>1. CASE j # l + 1
    <3>1. i \in 0..l /\ j \in 0..l BY <1>2, <2>1
    <3> QED BY <1>3, <1>10, <3>1
  <2>2. CASE j = l + 1 /\ i # l + 1
    <3>1. i \in 0..l /\ l \in 0..l /\ i <= l BY <1>2, <2>2
    <3>2. h[i] \in Nat /\ h[i] <= k BY <1>3, <1>5, <3>1
    <3> QED BY <1>6, <1>10, <2>2, <3>1, <3>2
  <2>3. CASE j = l + 1 /\ i = l + 1 BY <1>10, <2>3
  <2> QED BY <2>1, <2>2, <2>3
<1>12. \A i \in 1..(l + 1) : Pool!OrdersIn(PoolSucceeded(q[i]), a) = g[i - 1]..(g[i] - 1)
  <2> SUFFICES ASSUME NEW i \in 1..(l + 1)
               PROVE  Pool!OrdersIn(PoolSucceeded(q[i]), a) = g[i - 1]..(g[i] - 1) OBVIOUS
  <2>1. CASE i # l + 1
    <3>1. i \in 1..l /\ i \in 0..l /\ i - 1 \in 0..l BY <1>2, <2>1
    <3> QED BY <1>3, <1>8, <1>10, <3>1
  <2>2. CASE i = l + 1
    <3>1. i - 1 = l /\ l \in 0..l BY <1>2, <2>2
    <3>2. g[i - 1] = k /\ g[i] = m BY <1>5, <1>10, <2>2, <3>1
    <3> QED BY <1>6, <1>8, <2>2, <3>2
  <2> QED BY <2>1, <2>2
<1>13. PoolCounts(g, q, a, poolFinal[a]) BY <1>2, <1>8, <1>10, <1>11, <1>12 DEF PoolCounts
<1> QED BY <1>7, <1>13 DEF PoolInOrder

\* A path of no blocks uses nothing up.
LEMMA PoolNothingYet == ASSUME NEW n \in Nat, NEW a PROVE PoolInOrder(<<>>, a, n)
<1>1. PICK h : h = [i \in 0..0 |-> n] OBVIOUS
<1>2. Len(<<>>) = 0 /\ 1..0 = {} /\ h \in [0..0 -> Nat] /\ h[0] = n BY <1>1
<1>3. \A i \in 0..0 : i = 0 OBVIOUS
<1>4. PoolCounts(h, <<>>, a, n) BY <1>2, <1>3 DEF PoolCounts
<1> QED BY <1>4 DEF PoolInOrder

\* After the first block of a path became final the rest of it takes the nonces that
\* come next, and those of the block have had their turn.
LEMMA PoolDropping ==
  ASSUME Pool!TxPoolAssumption, poolFinal \in [Address -> Nat], NEW p \in Seq(Pool!Body), p # <<>>,
         NEW a \in Numbered, PoolInOrder(p, a, poolFinal[a]),
         NEW n, n = Pool!AccountsAfter(poolFinal, PoolSucceeded(Head(p)))[a]
  PROVE  /\ PoolInOrder(Tail(p), a, n) /\ n \in Nat /\ n >= poolFinal[a]
         /\ Pool!OrdersIn(PoolSucceeded(Head(p)), a) = poolFinal[a]..(n - 1)
<1>1. PICK h : PoolCounts(h, p, a, poolFinal[a]) BY DEF PoolInOrder
<1>2. PICK k \in Nat, l \in Nat : k = poolFinal[a] /\ Len(p) = l + 1
  <2>1. Len(p) \in Nat /\ Len(p) # 0 OBVIOUS
  <2>2. (Len(p) - 1) \in Nat /\ Len(p) = (Len(p) - 1) + 1 BY <2>1
  <2> QED BY <2>2, PoolGiven
<1>3. /\ h \in [0..(l + 1) -> Nat] /\ h[0] = k
      /\ \A i, j \in 0..(l + 1) : i <= j => h[i] <= h[j]
      /\ \A i \in 1..(l + 1) : Pool!OrdersIn(PoolSucceeded(p[i]), a) = h[i - 1]..(h[i] - 1)
  BY <1>1, <1>2 DEF PoolCounts
<1>4. 0 \in 0..(l + 1) /\ 1 \in 0..(l + 1) /\ 1 \in 1..(l + 1) /\ 1 - 1 = 0 BY <1>2
<1>5. PICK m \in Nat : m = h[1] /\ m >= k BY <1>3, <1>4
<1>6. Head(p) = p[1] /\ Head(p) \in Pool!Body OBVIOUS
<1>7. Pool!OrdersIn(PoolSucceeded(Head(p)), a) = k..(m - 1) BY <1>3, <1>4, <1>5, <1>6
<1>8. n = m
  <2>1. n = poolFinal[a] + Cardinality(Pool!OrdersIn(PoolSucceeded(Head(p)), a))
    BY <1>6, PoolBodiesHold, PoolAccountsGrow
  <2>2. k \in Int /\ m - 1 \in Int OBVIOUS
  <2>3. Cardinality(k..(m - 1)) = IF k > m - 1 THEN 0 ELSE (m - 1) - k + 1 BY <2>2, FS_Interval
  <2>4. Cardinality(k..(m - 1)) = m - k BY <1>5, <2>3
  <2>5. n = k + (m - k) BY <1>2, <1>7, <2>1, <2>4
  <2> QED BY <2>5
<1>9. PICK q : q = Tail(p) OBVIOUS
<1>10. q \in Seq(Pool!Body) /\ Len(q) = l /\ \A i \in 1..l : q[i] = p[i + 1] BY <1>2, <1>9
<1>11. PICK g : g = [i \in 0..l |-> h[i + 1]] OBVIOUS
<1>12. \A i \in 0..l : i + 1 \in 0..(l + 1) /\ g[i] = h[i + 1] /\ g[i] \in Nat
  <2>1. \A i \in 0..l : i + 1 \in 0..(l + 1) BY <1>2
  <2> QED BY <1>3, <1>11, <2>1
<1>13. g \in [0..l -> Nat] /\ g[0] = m
  <2>1. 0 \in 0..l /\ 0 + 1 = 1 BY <1>2
  <2> QED BY <1>5, <1>11, <1>12, <2>1
<1>14. \A i, j \in 0..l : i <= j => g[i] <= g[j]
  <2> SUFFICES ASSUME NEW i \in 0..l, NEW j \in 0..l, i <= j PROVE g[i] <= g[j] OBVIOUS
  <2>1. i + 1 <= j + 1 OBVIOUS
  <2> QED BY <1>3, <1>12, <2>1
<1>15. \A i \in 1..l : Pool!OrdersIn(PoolSucceeded(q[i]), a) = g[i - 1]..(g[i] - 1)
  <2> SUFFICES ASSUME NEW i \in 1..l
               PROVE  Pool!OrdersIn(PoolSucceeded(q[i]), a) = g[i - 1]..(g[i] - 1) OBVIOUS
  <2>1. i \in 0..l /\ i - 1 \in 0..l /\ i + 1 \in 1..(l + 1) /\ (i + 1) - 1 = i /\ (i - 1) + 1 = i
    BY <1>2
  <2>2. g[i - 1] = h[i] /\ g[i] = h[i + 1] BY <1>12, <2>1
  <2>3. Pool!OrdersIn(PoolSucceeded(p[i + 1]), a) = h[i]..(h[i + 1] - 1) BY <1>3, <2>1
  <2> QED BY <1>10, <2>2, <2>3
<1>16. PoolCounts(g, q, a, m) BY <1>10, <1>13, <1>14, <1>15 DEF PoolCounts
<1>17. PoolInOrder(q, a, m) BY <1>16 DEF PoolInOrder
<1> QED BY <1>2, <1>5, <1>7, <1>8, <1>9, <1>17

-----------------------------------------------------------------------------
(* The steps.                                                              *)

\* The pool is empty at first.
LEMMA PoolStarting == ASSUME Pool!TxPoolAssumption, Pool!Init PROVE PoolIInv
<1>1. PoolShapesOK BY PoolGiven DEF Pool!Init, PoolShapesOK, Pool!Untracked
<1>2. \A a \in Address : poolPool[a] = <<>> /\ Pool!Range(poolPool[a]) = {} /\ poolPool[a] \in Seq(Pool!Tx)
  BY DEF Pool!Init, Pool!Range
<1>3. PoolListsOK(poolPool)
  <2>1. poolPool \in [Address -> Seq(Pool!Tx)] BY <1>2 DEF Pool!Init
  <2>2. \A a \in Address : DOMAIN poolPool[a] = {} BY <1>2
  <2> QED BY <2>1, <2>2 DEF PoolListsOK, PoolListOK
<1>4. Pool!Pooled = {} BY <1>2 DEF Pool!Pooled
<1>5. Pool!CountsAreExact
  <2>1. \A a \in Address : Pool!FreeIn(poolPool[a]) = 0
    <3> SUFFICES ASSUME NEW a \in Address PROVE Pool!FreeIn(poolPool[a]) = 0 OBVIOUS
    <3>1. {i \in DOMAIN poolPool[a] : poolPool[a][i] \in Free} = {} BY <1>2
    <3> QED BY <3>1, PoolCards, FS_EmptySet DEF Pool!FreeIn
  <2>2. poolFreeOf = [a \in Address |-> Pool!FreeIn(poolPool[a])] BY <2>1 DEF Pool!Init
  <2>3. Pool!FoldFunction(+, 0, poolFreeOf) = 0
    <3>1. DOMAIN poolFreeOf = Address /\ \A a \in Address : poolFreeOf[a] = 0 BY DEF Pool!Init
    <3>2. Total(poolFreeOf, Address) = 0 BY <3>1, PoolGiven, TotalOfZeros
    <3> QED BY <3>1, <3>2, PoolSumIs
  <2>4. Pool!SizeOf(poolPool) = 0
    <3> DEFINE c == [a \in Address |-> Len(poolPool[a])]
    <3>1. \A a \in Address : c[a] = 0 BY <1>2
    <3> HIDE DEF c
    <3>2. Total(c, Address) = 0 BY <3>1, PoolGiven, TotalOfZeros
    <3> QED BY <3>2, PoolSizeIs DEF c
  <2> QED BY <2>2, <2>3, <2>4 DEF Pool!CountsAreExact, Pool!Init
<1>6. PoolTrackedInTime /\ Pool!SettledIsGone /\ Pool!PoolIsNotStale
  BY <1>4 DEF PoolTrackedInTime, Pool!SettledIsGone, Pool!PoolIsNotStale
<1>7. PoolTurnsOK BY DEF PoolTurnsOK, Pool!Init
<1> QED BY <1>1, <1>3, <1>5, <1>6, <1>7 DEF PoolIInv

\* What IInv says, taken apart.
LEMMA PoolKnown ==
  ASSUME Pool!TxPoolAssumption, PoolIInv
  PROVE  /\ poolTracker \in [Pool!Tx -> [state : Pool!TxState \cup {"none"}, at : 0 .. MaxTime]]
         /\ poolCreated \in [Pool!Tx -> 0 .. MaxTime] /\ \A t \in Pool!Tx : poolCreated[t] <= poolNow
         /\ poolFront \in [Address -> Nat] /\ poolFinal \in [Address -> Nat]
         /\ poolBlocks \subseteq Seq(Pool!Body) \ {<<>>}
         /\ poolFinalized \subseteq Pool!Tx /\ poolTold \in [Pool!Tx -> Pool!TxState \cup {"none"}]
         /\ poolNow \in 0 .. MaxTime /\ poolNow \in Nat
         /\ PoolListsOK(poolPool) /\ Pool!CountsAreExact /\ Pool!Pooled = PoolInLists(poolPool) /\ Pool!Pooled \subseteq Pool!Tx
         /\ PoolCounted(poolPool, poolTotal, poolFreeTotal, poolFreeOf)
<1>1. Pool!Pooled = PoolInLists(poolPool) BY DEF Pool!Pooled, PoolInLists
<1>2. Pool!Pooled \subseteq Pool!Tx
  <2>1. \A a \in Address : poolPool[a] \in Seq(Pool!Tx) BY DEF PoolIInv, PoolListsOK
  <2>2. \A a \in Address : Pool!Range(poolPool[a]) \subseteq Pool!Tx BY <2>1 DEF Pool!Range
  <2> QED BY <2>2 DEF Pool!Pooled
<1>3. poolNow \in 0 .. MaxTime /\ poolNow \in Nat BY PoolGiven DEF PoolIInv, PoolShapesOK
<1> QED BY <1>1, <1>2, <1>3 DEF PoolIInv, PoolShapesOK, Pool!CountsAreExact, PoolCounted

\* Lists that are counted are exactly counted.
LEMMA PoolExact ==
  ASSUME PoolCounted(poolPool', poolTotal', poolFreeTotal', poolFreeOf'), PoolListsOK(poolPool')
  PROVE  Pool!CountsAreExact' /\ PoolListsOK(poolPool)' /\ Pool!Pooled' = PoolInLists(poolPool')
<1>1. Pool!Pooled' = PoolInLists(poolPool') BY DEF Pool!Pooled, PoolInLists
<1>2. PoolListsOK(poolPool)' BY DEF PoolListsOK
<1>3. poolTotal' = Pool!SizeOf(poolPool') /\ poolFreeTotal' = Pool!FoldFunction(+, 0, poolFreeOf') BY DEF PoolCounted
<1>4. poolFreeOf' = [a \in Address |-> Pool!FreeIn(poolPool'[a])] BY DEF PoolCounted
<1>5. (poolTotal = Pool!SizeOf(poolPool))'
  BY <1>3, Zenon DEF Pool!SizeOf, Pool!FoldFunction, Pool!FoldFunctionOnSet, Pool!MapThenFoldSet
<1>6. (poolFreeOf = [a \in Address |-> Pool!FreeIn(poolPool[a])])' BY <1>4 DEF Pool!FreeIn
<1>7. (poolFreeTotal = Pool!FoldFunction(+, 0, poolFreeOf))'
  BY <1>3, Zenon DEF Pool!FoldFunction, Pool!FoldFunctionOnSet, Pool!MapThenFoldSet
<1> QED BY <1>1, <1>2, <1>5, <1>6, <1>7 DEF Pool!CountsAreExact

\* What a push leaves.
LEMMA PoolPushed ==
  ASSUME Pool!TxPoolAssumption, PoolIInv, NEW t \in Pool!Tx, t \in UserTx => t \notin Pool!Pooled, Pool!Push(t)
  PROVE  Pool!CountsAreExact' /\ PoolListsOK(poolPool)' /\ Pool!Pooled' = Pool!Pooled \cup {t}
<1> DEFINE a == AddressOf[t]
           n == IF t \in Free THEN 1 ELSE 0
<1>1. /\ poolPool' = [poolPool EXCEPT ![a] = Append(@, t)]
      /\ poolTotal' = poolTotal + 1 /\ poolFreeTotal' = poolFreeTotal + n
      /\ poolFreeOf' = [poolFreeOf EXCEPT ![a] = @ + n]
  BY DEF Pool!Push
<1>2. /\ PoolListsOK(poolPool') /\ PoolInLists(poolPool') = PoolInLists(poolPool) \cup {t}
      /\ PoolCounted(poolPool', poolTotal + 1, poolFreeTotal + n, [poolFreeOf EXCEPT ![AddressOf[t]] = @ + n])
  <2>1. PoolListsOK(poolPool) /\ PoolCounted(poolPool, poolTotal, poolFreeTotal, poolFreeOf) BY PoolKnown
  <2>2. t \in UserTx => t \notin PoolInLists(poolPool) BY PoolKnown
  <2>3. poolPool' = [poolPool EXCEPT ![AddressOf[t]] = Append(@, t)] BY <1>1
  <2>4. n = IF t \in Free THEN 1 ELSE 0 OBVIOUS
  <2> HIDE DEF n, a
  <2> QED BY <2>1, <2>2, <2>3, <2>4, PoolPushing
<1> QED BY <1>1, <1>2, PoolKnown, PoolExact

\* What a filter leaves.
LEMMA PoolRemaining ==
  ASSUME Pool!TxPoolAssumption, PoolIInv, NEW keep, Pool!Keep(keep)
  PROVE  Pool!CountsAreExact' /\ PoolListsOK(poolPool)' /\ Pool!Pooled' \subseteq Pool!Pooled \cap keep
<1> PICK f : f = Pool!Filtered(keep) OBVIOUS
<1>1. poolPool' = f.pool /\ poolTotal' = f.total /\ poolFreeTotal' = f.free /\ poolFreeOf' = f.of BY DEF Pool!Keep
<1>2. /\ PoolListsOK(f.pool) /\ PoolInLists(f.pool) \subseteq Pool!Pooled \cap keep
      /\ PoolCounted(f.pool, f.total, f.free, f.of)
  BY PoolKnown, PoolFiltering
<1>3. PoolListsOK(poolPool') /\ PoolCounted(poolPool', poolTotal', poolFreeTotal', poolFreeOf') BY <1>1, <1>2
<1> QED BY <1>1, <1>2, <1>3, PoolExact

\* The turns of the next state, taken apart.
LEMMA PoolTurnsNext ==
  ASSUME \A a \in Address : poolFront'[a] >= poolFinal'[a],
         \A t \in poolFinalized' \cap Pool!Ordered : PoolIsOver(t, poolFinal'[AddressOf[t]]),
         \A p \in poolBlocks' : \A a \in Numbered : PoolInOrder(p, a, poolFinal'[a])
  PROVE  PoolTurnsOK'
BY DEF PoolTurnsOK, PoolIsOver, PoolInOrder, PoolCounts, Pool!OrdersIn, PoolSucceeded, Pool!Ordered

\* While no block becomes final, only the blocks and the front may move.
LEMMA PoolTurnsStay ==
  ASSUME Pool!TxPoolAssumption, PoolIInv, poolFinal' = poolFinal, poolFinalized' = poolFinalized,
         \A a \in Address : poolFront'[a] >= poolFinal[a],
         \A p \in poolBlocks' \ poolBlocks : \A a \in Numbered : PoolInOrder(p, a, poolFinal[a])
  PROVE  PoolTurnsOK'
<1>1. /\ \A t \in poolFinalized \cap Pool!Ordered : PoolIsOver(t, poolFinal[AddressOf[t]])
      /\ \A p \in poolBlocks : \A a \in Numbered : PoolInOrder(p, a, poolFinal[a])
  BY DEF PoolIInv, PoolTurnsOK
<1>2. \A p \in poolBlocks' : \A a \in Numbered : PoolInOrder(p, a, poolFinal'[a]) BY <1>1
<1>3. \A t \in poolFinalized' \cap Pool!Ordered : PoolIsOver(t, poolFinal'[AddressOf[t]]) BY <1>1
<1>4. \A a \in Address : poolFront'[a] >= poolFinal'[a] OBVIOUS
<1> QED BY <1>2, <1>3, <1>4, PoolTurnsNext

\* A transaction of a user comes.
LEMMA PoolSubmitStep ==
  ASSUME Pool!TxPoolAssumption, PoolIInv, NEW t \in UserTx, NEW ok \in BOOLEAN, Pool!Submit(t, ok)
  PROVE  PoolIInv'
<1> DEFINE state == IF ok THEN "EXECUTED" ELSE "PENDING"
<1>1. PICK a \in Address : a = AddressOf[t] BY PoolGiven
<1>2. /\ t \in Pool!Tx /\ t \notin Pool!Pooled /\ Pool!Push(t) /\ Pool!HasNextNonce(poolFront, t)
      /\ poolTracker' = Pool!Track({t}, state) /\ poolTold' = Pool!Tell({t}, state)
      /\ poolCreated' = [poolCreated EXCEPT ![t] = poolNow]
      /\ poolFront' = IF ok THEN Pool!AccountsAfter(poolFront, {t}) ELSE poolFront
      /\ poolFinal' = poolFinal /\ poolBlocks' = poolBlocks /\ poolFinalized' = poolFinalized /\ poolNow' = poolNow
  BY PoolGiven DEF Pool!Submit, Pool!IsEligible
<1>3. Pool!CountsAreExact' /\ PoolListsOK(poolPool)' /\ Pool!Pooled' = Pool!Pooled \cup {t} BY <1>2, PoolPushed
<1>4. /\ state \in {"EXECUTED", "PENDING"}
      /\ \A u \in Pool!Tx : poolTracker'[u] = IF u = t THEN [state |-> state, at |-> poolNow] ELSE poolTracker[u]
      /\ poolTracker' \in [Pool!Tx -> [state : Pool!TxState \cup {"none"}, at : 0 .. MaxTime]]
      /\ poolTold' \in [Pool!Tx -> Pool!TxState \cup {"none"}]
  <2>1. state \in {"EXECUTED", "PENDING"} OBVIOUS
  <2>2. state \in Pool!TxState \cup {"none"} BY DEF Pool!TxState
  <2> HIDE DEF state
  <2> QED BY <1>2, <2>1, <2>2, PoolKnown DEF Pool!Track, Pool!Tell
<1>5. poolFront' \in [Address -> Nat] /\ \A b \in Address : poolFront'[b] >= poolFront[b]
  <2>1. {t} \in SUBSET UserTx /\ poolFront \in [Address -> Nat] BY PoolKnown
  <2>2. /\ Pool!AccountsAfter(poolFront, {t}) \in [Address -> Nat]
        /\ \A b \in Address : Pool!AccountsAfter(poolFront, {t})[b] >= poolFront[b]
    BY <2>1, PoolAccountsGrow
  <2>3. \A b \in Address : poolFront[b] \in Nat BY <2>1
  <2> QED BY <1>2, <2>1, <2>2, <2>3
<1>6. /\ poolCreated' \in [Pool!Tx -> 0 .. MaxTime] /\ \A u \in Pool!Tx : poolCreated'[u] <= poolNow
      /\ poolCreated'[t] = poolNow /\ \A u \in Pool!Tx \ {t} : poolCreated'[u] = poolCreated[u]
  BY <1>2, PoolKnown
<1> HIDE DEF state
<1>7. PoolShapesOK' BY <1>2, <1>4, <1>5, <1>6, PoolKnown DEF PoolShapesOK
<1>8. PoolTrackedInTime'
  <2> SUFFICES ASSUME NEW u \in Pool!Pooled'
               PROVE  poolTracker'[u].state # "none" /\ poolTracker'[u].at >= poolCreated'[u]
    BY DEF PoolTrackedInTime
  <2>1. u \in Pool!Tx BY <1>2, <1>3, PoolKnown
  <2>2. CASE u = t
    <3>1. poolTracker'[t] = [state |-> state, at |-> poolNow] BY <1>2, <1>4
    <3>2. poolTracker'[t].state = state /\ poolTracker'[t].at = poolNow BY <3>1
    <3>3. poolNow >= poolNow BY PoolKnown
    <3> QED BY <1>4, <1>6, <2>2, <3>2, <3>3
  <2>3. CASE u # t
    <3>1. poolTracker[u].state # "none" /\ poolTracker[u].at >= poolCreated[u]
      BY <1>3, <2>3 DEF PoolIInv, PoolTrackedInTime
    <3> QED BY <1>4, <1>6, <2>1, <2>3, <3>1
  <2> QED BY <2>2, <2>3
<1>9. OrderOf[t] \in Nat /\ poolFront[a] \in Nat /\ poolFinal[a] \in Nat /\ poolFront[a] >= poolFinal[a]
  BY PoolGiven, PoolKnown DEF PoolIInv, PoolTurnsOK
<1>10. t \in Pool!Ordered => IF a \in Numbered THEN OrderOf[t] >= poolFinal[a] ELSE OrderOf[t] > poolFinal[a]
  BY <1>1, <1>2, <1>9 DEF Pool!HasNextNonce
<1>11. t \in Pool!Ordered => t \notin poolFinalized BY <1>1, <1>9, <1>10 DEF PoolIInv, PoolTurnsOK, PoolIsOver
<1>12. PoolTurnsOK'
  <2>1. \A b \in Address : poolFront'[b] >= poolFinal[b]
    <3> SUFFICES ASSUME NEW b \in Address PROVE poolFront'[b] >= poolFinal[b] OBVIOUS
    <3>1. poolFront[b] >= poolFinal[b] /\ poolFront'[b] >= poolFront[b] BY <1>5 DEF PoolIInv, PoolTurnsOK
    <3>2. poolFront[b] \in Nat /\ poolFinal[b] \in Nat /\ poolFront'[b] \in Nat BY <1>5, PoolKnown
    <3> QED BY <3>1, <3>2
  <2> QED BY <1>2, <2>1, PoolTurnsStay
<1>13. Pool!SettledIsGone'
  <2> SUFFICES ASSUME NEW u \in Pool!Pooled' \cap UserTx
               PROVE  (u \in Pool!Ordered => u \notin poolFinalized') /\ poolTracker'[u].state \notin {"FINALIZED", "FAILED", "TIMED_OUT"}
    BY PoolGiven DEF Pool!SettledIsGone, Pool!Ordered
  <2>1. CASE u = t
    <3>1. poolTracker'[t] = [state |-> state, at |-> poolNow] BY <1>2, <1>4
    <3>2. poolTracker'[t].state = state BY <3>1
    <3> QED BY <1>2, <1>4, <1>11, <2>1, <3>2
  <2>2. CASE u # t
    <3>1. u \in Pool!Pooled /\ u \in Pool!Tx BY <1>3, <2>2, PoolKnown
    <3> QED BY <1>2, <1>4, <2>2, <3>1 DEF PoolIInv, Pool!SettledIsGone
  <2> QED BY <2>1, <2>2
<1>14. Pool!PoolIsNotStale'
  <2> SUFFICES ASSUME NEW u \in Pool!Pooled' \cap Pool!Ordered
               PROVE  IF AddressOf[u] \in Numbered THEN OrderOf[u] >= poolFinal'[AddressOf[u]]
                                                   ELSE OrderOf[u] > poolFinal'[AddressOf[u]]
    BY DEF Pool!PoolIsNotStale, Pool!Ordered
  <2>1. CASE u = t BY <1>1, <1>2, <1>10, <2>1
  <2>2. CASE u # t BY <1>2, <1>3, <2>2 DEF PoolIInv, Pool!PoolIsNotStale
  <2> QED BY <2>1, <2>2
<1> QED BY <1>3, <1>7, <1>8, <1>12, <1>13, <1>14 DEF PoolIInv

\* While no block becomes final and no user's transaction comes, none has had its turn.
LEMMA PoolNoTurnPasses ==
  ASSUME Pool!TxPoolAssumption, PoolIInv, poolFinal' = poolFinal, poolFinalized' = poolFinalized,
         \A u \in Pool!Pooled' \cap UserTx :
           u \in Pool!Pooled /\ poolTracker'[u].state \in {poolTracker[u].state, "REVERTED", "IN_BLOCK"}
  PROVE  Pool!SettledIsGone' /\ Pool!PoolIsNotStale'
<1>1. Pool!SettledIsGone'
  <2> SUFFICES ASSUME NEW u \in Pool!Pooled' \cap UserTx
               PROVE  (u \in Pool!Ordered => u \notin poolFinalized') /\ poolTracker'[u].state \notin {"FINALIZED", "FAILED", "TIMED_OUT"}
    BY PoolGiven DEF Pool!SettledIsGone, Pool!Ordered
  <2>1. u \in Pool!Pooled /\ poolTracker'[u].state \in {poolTracker[u].state, "REVERTED", "IN_BLOCK"} OBVIOUS
  <2>2. (u \in Pool!Ordered => u \notin poolFinalized) /\ poolTracker[u].state \notin {"FINALIZED", "FAILED", "TIMED_OUT"}
    BY <2>1 DEF PoolIInv, Pool!SettledIsGone
  <2> QED BY <2>1, <2>2
<1>2. Pool!PoolIsNotStale'
  <2> SUFFICES ASSUME NEW u \in Pool!Pooled' \cap Pool!Ordered
               PROVE  IF AddressOf[u] \in Numbered THEN OrderOf[u] >= poolFinal'[AddressOf[u]]
                                                   ELSE OrderOf[u] > poolFinal'[AddressOf[u]]
    BY DEF Pool!PoolIsNotStale, Pool!Ordered
  <2>1. u \in UserTx BY PoolGiven
  <2> QED BY <2>1 DEF PoolIInv, Pool!PoolIsNotStale
<1> QED BY <1>1, <1>2

\* A vote comes, or a proposal whose block was rejected.
LEMMA PoolAddConsensusTxStep ==
  ASSUME Pool!TxPoolAssumption, PoolIInv, NEW t \in ConsensusTx, Pool!AddConsensusTx(t)
  PROVE  PoolIInv'
<1>1. /\ t \in Pool!Tx /\ t \notin UserTx /\ Pool!Push(t)
      /\ poolTracker' = Pool!Track({t}, "PENDING") /\ poolTold' = Pool!Tell({t}, "PENDING")
      /\ poolCreated' = [poolCreated EXCEPT ![t] = poolNow]
      /\ poolFront' = poolFront /\ poolFinal' = poolFinal /\ poolBlocks' = poolBlocks /\ poolFinalized' = poolFinalized /\ poolNow' = poolNow
  BY PoolGiven DEF Pool!AddConsensusTx
<1>2. Pool!CountsAreExact' /\ PoolListsOK(poolPool)' /\ Pool!Pooled' = Pool!Pooled \cup {t} BY <1>1, PoolPushed
<1>3. /\ \A u \in Pool!Tx : poolTracker'[u] = IF u = t THEN [state |-> "PENDING", at |-> poolNow] ELSE poolTracker[u]
      /\ poolTracker' \in [Pool!Tx -> [state : Pool!TxState \cup {"none"}, at : 0 .. MaxTime]]
      /\ poolTold' \in [Pool!Tx -> Pool!TxState \cup {"none"}]
  BY <1>1, PoolKnown DEF Pool!Track, Pool!Tell, Pool!TxState
<1>4. /\ poolCreated' \in [Pool!Tx -> 0 .. MaxTime] /\ \A u \in Pool!Tx : poolCreated'[u] <= poolNow
      /\ poolCreated'[t] = poolNow /\ \A u \in Pool!Tx \ {t} : poolCreated'[u] = poolCreated[u]
  BY <1>1, PoolKnown
<1>5. PoolShapesOK' BY <1>1, <1>3, <1>4, PoolKnown DEF PoolShapesOK
<1>6. PoolTrackedInTime'
  <2> SUFFICES ASSUME NEW u \in Pool!Pooled'
               PROVE  poolTracker'[u].state # "none" /\ poolTracker'[u].at >= poolCreated'[u]
    BY DEF PoolTrackedInTime
  <2>1. u \in Pool!Tx BY <1>1, <1>2, PoolKnown
  <2>2. CASE u = t
    <3>1. poolTracker'[t] = [state |-> "PENDING", at |-> poolNow] BY <1>1, <1>3
    <3>2. poolTracker'[t].state = "PENDING" /\ poolTracker'[t].at = poolNow BY <3>1
    <3>3. poolNow >= poolNow BY PoolKnown
    <3> QED BY <1>4, <2>2, <3>2, <3>3
  <2>3. CASE u # t
    <3>1. poolTracker[u].state # "none" /\ poolTracker[u].at >= poolCreated[u]
      BY <1>2, <2>3 DEF PoolIInv, PoolTrackedInTime
    <3> QED BY <1>3, <1>4, <2>1, <2>3, <3>1
  <2> QED BY <2>2, <2>3
<1>7. PoolTurnsOK' BY <1>1, PoolTurnsStay DEF PoolIInv, PoolTurnsOK
<1>8. Pool!SettledIsGone' /\ Pool!PoolIsNotStale'
  <2>1. \A u \in Pool!Pooled' \cap UserTx : u \in Pool!Pooled /\ poolTracker'[u] = poolTracker[u]
    BY <1>1, <1>2, <1>3, PoolKnown
  <2> QED BY <1>1, <2>1, PoolNoTurnPasses
<1> QED BY <1>2, <1>5, <1>6, <1>7, <1>8 DEF PoolIInv

\* Consensus messages of a forgotten block leave.
LEMMA PoolCleanUpStep ==
  ASSUME Pool!TxPoolAssumption, PoolIInv, NEW S, Pool!CleanUpConsensusTxs(S)
  PROVE  PoolIInv'
<1>1. /\ Pool!Keep(Pool!Tx \ S) /\ poolTracker' = poolTracker /\ poolCreated' = poolCreated /\ poolFront' = poolFront /\ poolFinal' = poolFinal
      /\ poolBlocks' = poolBlocks /\ poolFinalized' = poolFinalized /\ poolTold' = poolTold /\ poolNow' = poolNow
  BY DEF Pool!CleanUpConsensusTxs
<1>2. Pool!CountsAreExact' /\ PoolListsOK(poolPool)' /\ Pool!Pooled' \subseteq Pool!Pooled BY <1>1, PoolRemaining
<1>3. PoolShapesOK' BY <1>1, PoolKnown DEF PoolShapesOK
<1>4. PoolTrackedInTime' BY <1>1, <1>2 DEF PoolIInv, PoolTrackedInTime
<1>5. PoolTurnsOK' BY <1>1, PoolTurnsStay DEF PoolIInv, PoolTurnsOK
<1>6. Pool!SettledIsGone' /\ Pool!PoolIsNotStale' BY <1>1, <1>2, PoolNoTurnPasses
<1> QED BY <1>2, <1>3, <1>4, <1>5, <1>6 DEF PoolIInv

\* The lists and counters stay.
LEMMA PoolUntouched ==
  ASSUME Pool!TxPoolAssumption, PoolIInv, UNCHANGED <<poolPool, poolTotal, poolFreeTotal, poolFreeOf>>
  PROVE  Pool!CountsAreExact' /\ PoolListsOK(poolPool)' /\ Pool!Pooled' = Pool!Pooled
<1>1. PoolListsOK(poolPool') /\ PoolCounted(poolPool', poolTotal', poolFreeTotal', poolFreeOf') BY PoolKnown
<1> QED BY <1>1, PoolExact DEF Pool!Pooled

\* Time passes.
LEMMA PoolTickStep ==
  ASSUME Pool!TxPoolAssumption, PoolIInv, Pool!Tick
  PROVE  PoolIInv'
<1>1. /\ UNCHANGED <<poolPool, poolTotal, poolFreeTotal, poolFreeOf>>
      /\ poolTracker' = poolTracker /\ poolCreated' = poolCreated /\ poolFront' = poolFront /\ poolFinal' = poolFinal
      /\ poolBlocks' = poolBlocks /\ poolFinalized' = poolFinalized /\ poolTold' = poolTold
      /\ poolNow < MaxTime /\ poolNow' = poolNow + 1
  BY DEF Pool!Tick
<1>2. Pool!CountsAreExact' /\ PoolListsOK(poolPool)' /\ Pool!Pooled' = Pool!Pooled BY <1>1, PoolUntouched
<1>3. poolNow' \in 0 .. MaxTime /\ \A t \in Pool!Tx : poolCreated[t] <= poolNow'
  <2>1. \A t \in Pool!Tx : poolCreated[t] \in Nat /\ poolCreated[t] <= poolNow
    <3>1. MaxTime \in Nat BY PoolGiven
    <3> QED BY <3>1, PoolKnown
  <2> QED BY <1>1, <2>1, PoolGiven, PoolKnown
<1>4. PoolShapesOK' BY <1>1, <1>3, PoolKnown DEF PoolShapesOK
<1>5. PoolTrackedInTime' BY <1>1, <1>2 DEF PoolIInv, PoolTrackedInTime
<1>6. PoolTurnsOK' BY <1>1, PoolTurnsStay DEF PoolIInv, PoolTurnsOK
<1>7. Pool!SettledIsGone' /\ Pool!PoolIsNotStale' BY <1>1, <1>2, PoolNoTurnPasses
<1> QED BY <1>2, <1>4, <1>5, <1>6, <1>7 DEF PoolIInv

\* Nothing happens.
LEMMA PoolStutterStep ==
  ASSUME Pool!TxPoolAssumption, PoolIInv, UNCHANGED Pool!vars
  PROVE  PoolIInv'
<1>1. /\ UNCHANGED <<poolPool, poolTotal, poolFreeTotal, poolFreeOf>>
      /\ poolTracker' = poolTracker /\ poolCreated' = poolCreated /\ poolFront' = poolFront /\ poolFinal' = poolFinal
      /\ poolBlocks' = poolBlocks /\ poolFinalized' = poolFinalized /\ poolTold' = poolTold /\ poolNow' = poolNow
  BY DEF Pool!vars
<1>2. Pool!CountsAreExact' /\ PoolListsOK(poolPool)' /\ Pool!Pooled' = Pool!Pooled BY <1>1, PoolUntouched
<1>3. PoolShapesOK' BY <1>1, PoolKnown DEF PoolShapesOK
<1>4. PoolTrackedInTime' BY <1>1, <1>2 DEF PoolIInv, PoolTrackedInTime
<1>5. PoolTurnsOK' BY <1>1, PoolTurnsStay DEF PoolIInv, PoolTurnsOK
<1>6. Pool!SettledIsGone' /\ Pool!PoolIsNotStale' BY <1>1, <1>2, PoolNoTurnPasses
<1> QED BY <1>2, <1>3, <1>4, <1>5, <1>6 DEF PoolIInv

-----------------------------------------------------------------------------
\* The blocks that may come now.
LEMMA PoolBodiesNow ==
  ASSUME Pool!TxPoolAssumption, PoolIInv, NEW b \in Pool!BodyNow
  PROVE  b \in Pool!Body /\ b.proposal \in ConsensusTx /\ b.proposal \in Pool!Tx
<1>1. PICK G \in Together :
        b \in UNION {[txs : {T}, failed : SUBSET T, proposal : ConsensusTx \cap G,
                      votes : {V \in SUBSET (ConsensusTx \cap G) : Pool!Cardinality(V) <= 1}, at : {poolNow}] :
                        T \in {U \in SUBSET (UserTx \cap G) : Pool!Cardinality(U) <= MaxTxs}}
  BY DEF Pool!BodyNow
<1>4. PICK T \in SUBSET UserTx :
        b \in [txs : {T}, failed : SUBSET T, proposal : ConsensusTx \cap G,
               votes : {V \in SUBSET (ConsensusTx \cap G) : Pool!Cardinality(V) <= 1}, at : {poolNow}]
  BY <1>1
<1>2. poolNow \in 0 .. MaxTime BY PoolKnown
<1>3. b \in Pool!Body BY <1>2, <1>4 DEF Pool!Body
<1> QED BY <1>3, PoolGiven DEF Pool!Body

\* The place of a new block.
LEMMA PoolNewBlock ==
  ASSUME Pool!TxPoolAssumption, PoolIInv, NEW p \in Pool!Paths, NEW b \in Pool!BodyNow, Pool!Executed(p, b)
  PROVE  /\ poolBlocks' \subseteq Seq(Pool!Body) \ {<<>>}
         /\ \A q \in poolBlocks' \ poolBlocks : \A a \in Numbered : PoolInOrder(q, a, poolFinal[a])
         /\ poolCreated' = [poolCreated EXCEPT ![b.proposal] = poolNow]
<1>1. /\ Pool!CanExecute(Pool!AccountsOn(p), b.txs, b.failed) /\ poolBlocks' = poolBlocks \cup {Append(p, b)}
      /\ poolCreated' = [poolCreated EXCEPT ![b.proposal] = poolNow]
  BY DEF Pool!Executed
<1>2. p \in Seq(Pool!Body) /\ b \in Pool!Body
  <2>1. <<>> \in Seq(Pool!Body) OBVIOUS
  <2>2. poolBlocks \subseteq Seq(Pool!Body) \ {<<>>} BY PoolKnown
  <2> QED BY <2>1, <2>2, PoolBodiesNow DEF Pool!Paths
<1>3. Append(p, b) \in Seq(Pool!Body) \ {<<>>}
  <2>1. Append(p, b) \in Seq(Pool!Body) /\ Len(Append(p, b)) = Len(p) + 1 /\ Len(p) \in Nat BY <1>2
  <2>2. Len(Append(p, b)) # 0 BY <2>1
  <2> QED BY <2>1, <2>2
<1>4. ASSUME NEW a \in Numbered PROVE PoolInOrder(Append(p, b), a, poolFinal[a])
  <2>1. poolFinal \in [Address -> Nat] /\ poolFinal[a] \in Nat BY PoolGiven, PoolKnown
  <2>2. PoolInOrder(p, a, poolFinal[a])
    <3>1. CASE p = <<>> BY <2>1, <3>1, PoolNothingYet
    <3>2. CASE p \in poolBlocks BY <3>2 DEF PoolIInv, PoolTurnsOK
    <3> QED BY <3>1, <3>2 DEF Pool!Paths
  <2> QED BY <1>1, <1>2, <2>1, <2>2, PoolExtending
<1> QED BY <1>1, <1>3, <1>4, PoolKnown

\* What is tracked of a block.
LEMMA PoolTrackedBlock ==
  ASSUME Pool!TxPoolAssumption, PoolIInv, NEW b \in Pool!BodyNow
  PROVE  /\ \A t \in Pool!Tx : Pool!TrackBlock(b)[t] \in {poolTracker[t], [state |-> "REVERTED", at |-> poolNow],
                                               [state |-> "IN_BLOCK", at |-> poolNow]}
         /\ Pool!TrackBlock(b)[b.proposal] \in {[state |-> "REVERTED", at |-> poolNow],
                                           [state |-> "IN_BLOCK", at |-> poolNow]}
         /\ Pool!TellBlock(b) \in [Pool!Tx -> Pool!TxState \cup {"none"}]
<1>1. \A t \in Pool!Tx : Pool!TrackBlock(b)[t] \in {poolTracker[t], [state |-> "REVERTED", at |-> poolNow],
                                          [state |-> "IN_BLOCK", at |-> poolNow]}
  BY DEF Pool!TrackBlock
<1>2. Pool!TrackBlock(b)[b.proposal] \in {[state |-> "REVERTED", at |-> poolNow], [state |-> "IN_BLOCK", at |-> poolNow]}
  BY PoolBodiesNow DEF Pool!TrackBlock
<1>3. \A t \in Pool!Tx : Pool!TrackBlock(b)[t].state \in Pool!TxState \cup {"none"}
  BY <1>1, PoolKnown DEF Pool!TxState, Pool!InBlock
<1>4. Pool!TellBlock(b) \in [Pool!Tx -> Pool!TxState \cup {"none"}] BY <1>3, PoolKnown DEF Pool!TellBlock
<1> QED BY <1>1, <1>2, <1>4

\* A block is executed, by a node that drops those of I from its pool.
LEMMA PoolBlockStep ==
  ASSUME Pool!TxPoolAssumption, PoolIInv, NEW p \in Pool!Paths, NEW b \in Pool!BodyNow, Pool!Executed(p, b),
         NEW I, I \subseteq UserTx,
         poolTracker' = [t \in Pool!Tx |-> IF t \in I THEN Pool!TrackInvalid(I)[t] ELSE Pool!TrackBlock(b)[t]],
         poolTold' = [t \in Pool!Tx |-> IF t \in I THEN "FAILED" ELSE Pool!TellBlock(b)[t]],
         Pool!CountsAreExact', PoolListsOK(poolPool)', Pool!Pooled' \subseteq (Pool!Pooled \ I) \cup {b.proposal},
         poolFront' = poolFront, poolFinal' = poolFinal, poolFinalized' = poolFinalized, poolNow' = poolNow
  PROVE  PoolIInv'
<1>1. /\ poolBlocks' \subseteq Seq(Pool!Body) \ {<<>>}
      /\ \A q \in poolBlocks' \ poolBlocks : \A a \in Numbered : PoolInOrder(q, a, poolFinal[a])
      /\ poolCreated' = [poolCreated EXCEPT ![b.proposal] = poolNow]
      /\ b.proposal \in ConsensusTx /\ b.proposal \in Pool!Tx /\ b.proposal \notin UserTx
  BY PoolBodiesNow, PoolNewBlock, PoolGiven
<1>2. /\ \A t \in Pool!Tx : Pool!TrackBlock(b)[t] \in {poolTracker[t], [state |-> "REVERTED", at |-> poolNow],
                                            [state |-> "IN_BLOCK", at |-> poolNow]}
      /\ Pool!TrackBlock(b)[b.proposal] \in {[state |-> "REVERTED", at |-> poolNow],
                                        [state |-> "IN_BLOCK", at |-> poolNow]}
      /\ Pool!TellBlock(b) \in [Pool!Tx -> Pool!TxState \cup {"none"}]
  BY PoolTrackedBlock
<1>3. /\ poolCreated' \in [Pool!Tx -> 0 .. MaxTime] /\ \A u \in Pool!Tx : poolCreated'[u] <= poolNow
      /\ poolCreated'[b.proposal] = poolNow /\ \A u \in Pool!Tx \ {b.proposal} : poolCreated'[u] = poolCreated[u]
  BY <1>1, PoolKnown
<1>4. \A t \in Pool!Tx \ I : poolTracker'[t] = Pool!TrackBlock(b)[t] OBVIOUS
<1>5. poolTracker' \in [Pool!Tx -> [state : Pool!TxState \cup {"none"}, at : 0 .. MaxTime]]
  <2> SUFFICES ASSUME NEW t \in Pool!Tx PROVE poolTracker'[t] \in [state : Pool!TxState \cup {"none"}, at : 0 .. MaxTime]
    OBVIOUS
  <2>1. poolTracker[t] \in [state : Pool!TxState \cup {"none"}, at : 0 .. MaxTime] /\ poolNow \in 0 .. MaxTime
    BY PoolKnown
  <2>2. CASE t \in I
    <3>1. poolTracker'[t] \in {poolTracker[t], [poolTracker[t] EXCEPT !.state = "FAILED"]}
      BY <2>2 DEF Pool!TrackInvalid
    <3> QED BY <2>1, <3>1 DEF Pool!TxState, Pool!EndState
  <2>3. CASE t \notin I
    <3>1. poolTracker'[t] \in {poolTracker[t], [state |-> "REVERTED", at |-> poolNow], [state |-> "IN_BLOCK", at |-> poolNow]}
      BY <1>2, <1>4, <2>3
    <3> QED BY <2>1, <3>1 DEF Pool!TxState, Pool!InBlock
  <2> QED BY <2>2, <2>3
<1>6. poolTold' \in [Pool!Tx -> Pool!TxState \cup {"none"}]
  <2>1. "FAILED" \in Pool!TxState BY DEF Pool!TxState, Pool!EndState
  <2> QED BY <1>2, <2>1
<1>7. PoolShapesOK' BY <1>1, <1>3, <1>5, <1>6, PoolKnown DEF PoolShapesOK
<1>8. PoolTrackedInTime'
  <2> SUFFICES ASSUME NEW u \in Pool!Pooled'
               PROVE  poolTracker'[u].state # "none" /\ poolTracker'[u].at >= poolCreated'[u]
    BY DEF PoolTrackedInTime
  <2>1. u \in Pool!Tx /\ u \notin I BY <1>1, PoolKnown
  <2>2. poolTracker'[u] = Pool!TrackBlock(b)[u] BY <1>4, <2>1
  <2>3. poolCreated'[u] <= poolNow /\ poolCreated'[u] \in Nat /\ poolNow \in Nat
    <3>1. MaxTime \in Nat BY PoolGiven
    <3> QED BY <1>3, <2>1, <3>1, PoolKnown
  <2>4. CASE poolTracker'[u] \in {[state |-> "REVERTED", at |-> poolNow], [state |-> "IN_BLOCK", at |-> poolNow]}
    <3>1. poolTracker'[u].state # "none" /\ poolTracker'[u].at = poolNow BY <2>4
    <3> QED BY <2>3, <3>1
  <2>5. CASE poolTracker'[u] \notin {[state |-> "REVERTED", at |-> poolNow], [state |-> "IN_BLOCK", at |-> poolNow]}
    <3>1. u # b.proposal /\ poolTracker'[u] = poolTracker[u] BY <1>2, <2>1, <2>2, <2>5
    <3>2. u \in Pool!Pooled BY <3>1
    <3> QED BY <1>3, <2>1, <3>1, <3>2 DEF PoolIInv, PoolTrackedInTime
  <2> QED BY <2>4, <2>5
<1>9. PoolTurnsOK' BY <1>1, PoolTurnsStay DEF PoolIInv, PoolTurnsOK
<1>10. Pool!SettledIsGone' /\ Pool!PoolIsNotStale'
  <2>1. ASSUME NEW u \in Pool!Pooled' \cap UserTx
        PROVE  u \in Pool!Pooled /\ poolTracker'[u].state \in {poolTracker[u].state, "REVERTED", "IN_BLOCK"}
    <3>1. u \in Pool!Pooled /\ u \notin I /\ u \in Pool!Tx BY <1>1, PoolKnown
    <3>2. poolTracker'[u] \in {poolTracker[u], [state |-> "REVERTED", at |-> poolNow], [state |-> "IN_BLOCK", at |-> poolNow]}
      BY <1>2, <1>4, <3>1
    <3> QED BY <3>1, <3>2
  <2> QED BY <2>1, PoolNoTurnPasses
<1> QED BY <1>7, <1>8, <1>9, <1>10 DEF PoolIInv

\* A block comes from a peer.
LEMMA PoolReceiveBlockStep ==
  ASSUME Pool!TxPoolAssumption, PoolIInv, NEW p \in Pool!Paths, NEW b \in Pool!BodyNow, Pool!ReceiveBlock(p, b)
  PROVE  PoolIInv'
<1>1. /\ Pool!Executed(p, b) /\ Pool!Push(b.proposal) /\ poolTracker' = Pool!TrackBlock(b) /\ poolTold' = Pool!TellBlock(b)
      /\ poolFront' = poolFront /\ poolFinal' = poolFinal /\ poolFinalized' = poolFinalized /\ poolNow' = poolNow
  BY DEF Pool!ReceiveBlock
<1>2. b.proposal \in Pool!Tx /\ b.proposal \notin UserTx BY PoolBodiesNow, PoolGiven
<1>3. Pool!CountsAreExact' /\ PoolListsOK(poolPool)' /\ Pool!Pooled' = Pool!Pooled \cup {b.proposal} BY <1>1, <1>2, PoolPushed
<1> DEFINE I == {}
<1>4. poolTracker' = [t \in Pool!Tx |-> IF t \in I THEN Pool!TrackInvalid(I)[t] ELSE Pool!TrackBlock(b)[t]]
  BY <1>1 DEF Pool!TrackBlock
<1>5. poolTold' = [t \in Pool!Tx |-> IF t \in I THEN "FAILED" ELSE Pool!TellBlock(b)[t]]
  BY <1>1 DEF Pool!TellBlock
<1>6. I \subseteq UserTx /\ Pool!Pooled' \subseteq (Pool!Pooled \ I) \cup {b.proposal} BY <1>3
<1> HIDE DEF I
<1> QED BY <1>1, <1>3, <1>4, <1>5, <1>6, PoolBlockStep

\* This node proposes a block, of what its pool has.
LEMMA PoolProposeStep ==
  ASSUME Pool!TxPoolAssumption, PoolIInv, NEW p \in Pool!Paths, NEW b \in Pool!BodyNow, Pool!Propose(p, b)
  PROVE  PoolIInv'
<1>1. Pool!Executed(p, b) /\ poolFront' = poolFront /\ poolFinal' = poolFinal /\ poolFinalized' = poolFinalized /\ poolNow' = poolNow
  BY DEF Pool!Propose
<1>2. PICK S : /\ S \subseteq Pool!Candidates(Pool!AccountsOn(p), UNION {c.txs : c \in Pool!Range(p)})
               /\ LET invalid == S \ b.txs
                      f       == Pool!Filtered(Pool!Tx \ invalid)
                      a       == AddressOf[b.proposal]
                      tracked == Pool!TrackInvalid(invalid)
                  IN  /\ poolPool' = [f.pool EXCEPT ![a] = Append(@, b.proposal)]
                      /\ poolTotal' = f.total + 1
                      /\ poolFreeTotal' = f.free + 1
                      /\ poolFreeOf' = [f.of EXCEPT ![a] = @ + 1]
                      /\ poolTracker' = [t \in Pool!Tx |-> IF t \in invalid THEN tracked[t] ELSE Pool!TrackBlock(b)[t]]
                      /\ poolTold' = [t \in Pool!Tx |-> IF t \in invalid THEN "FAILED" ELSE Pool!TellBlock(b)[t]]
  BY DEF Pool!Propose
<1>3. PICK I : I = S \ b.txs OBVIOUS
<1>4. I \subseteq UserTx /\ I \subseteq Pool!Pooled BY <1>2, <1>3 DEF Pool!Candidates
<1>5. PICK f : f = Pool!Filtered(Pool!Tx \ I) OBVIOUS
<1>6. /\ poolPool' = [f.pool EXCEPT ![AddressOf[b.proposal]] = Append(@, b.proposal)]
      /\ poolTotal' = f.total + 1 /\ poolFreeTotal' = f.free + 1
      /\ poolFreeOf' = [f.of EXCEPT ![AddressOf[b.proposal]] = @ + 1]
      /\ poolTracker' = [t \in Pool!Tx |-> IF t \in I THEN Pool!TrackInvalid(I)[t] ELSE Pool!TrackBlock(b)[t]]
      /\ poolTold' = [t \in Pool!Tx |-> IF t \in I THEN "FAILED" ELSE Pool!TellBlock(b)[t]]
  BY <1>2, <1>3, <1>5
<1>7. b.proposal \in Pool!Tx /\ b.proposal \notin UserTx /\ b.proposal \in Free BY PoolBodiesNow, PoolGiven
<1>8. /\ PoolListsOK(f.pool) /\ PoolInLists(f.pool) \subseteq Pool!Pooled \cap (Pool!Tx \ I)
      /\ PoolCounted(f.pool, f.total, f.free, f.of)
  BY <1>5, PoolKnown, PoolFiltering
<1>9. 1 = IF b.proposal \in Free THEN 1 ELSE 0 BY <1>7
<1>10. /\ PoolListsOK(poolPool') /\ PoolInLists(poolPool') = PoolInLists(f.pool) \cup {b.proposal}
       /\ PoolCounted(poolPool', f.total + 1, f.free + 1, [f.of EXCEPT ![AddressOf[b.proposal]] = @ + 1])
  BY <1>6, <1>7, <1>8, <1>9, PoolPushing
<1>11. PoolCounted(poolPool', poolTotal', poolFreeTotal', poolFreeOf') BY <1>6, <1>10
<1>12. Pool!CountsAreExact' /\ PoolListsOK(poolPool)' /\ Pool!Pooled' = PoolInLists(poolPool') BY <1>10, <1>11, PoolExact
<1>13. Pool!Pooled' \subseteq (Pool!Pooled \ I) \cup {b.proposal} BY <1>8, <1>10, <1>12
<1> QED BY <1>1, <1>4, <1>6, <1>12, <1>13, PoolBlockStep

\* What the transactions of a final block leave to an account: those whose turn is to
\* come, and nothing that had it.
LEMMA PoolTurnsMove ==
  ASSUME Pool!TxPoolAssumption, PoolIInv, NEW b \in Pool!Body, <<b>> \in poolBlocks,
         NEW accounts, accounts = Pool!AccountsAfter(poolFinal, PoolSucceeded(b))
  PROVE  /\ accounts \in [Address -> Nat]
         /\ \A t \in (poolFinalized \cup PoolSucceeded(b)) \cap Pool!Ordered : PoolIsOver(t, accounts[AddressOf[t]])
         /\ \A t \in Pool!Pooled \cap Pool!Ordered : ~Pool!Leaves(b, t) =>
              IF AddressOf[t] \in Numbered THEN OrderOf[t] >= accounts[AddressOf[t]]
                                           ELSE OrderOf[t] > accounts[AddressOf[t]]
<1>1. PoolSucceeded(b) \in SUBSET UserTx /\ poolFinal \in [Address -> Nat] BY PoolBodiesHold, PoolKnown
<1>2. /\ accounts \in [Address -> Nat]
      /\ \A a \in Address : accounts[a] >= poolFinal[a]
      /\ \A a \in Address \ Numbered :
           /\ accounts[a] \in Pool!OrdersIn(PoolSucceeded(b), a) \cup {poolFinal[a]}
           /\ \A n \in Pool!OrdersIn(PoolSucceeded(b), a) : n <= accounts[a]
  BY <1>1, PoolAccountsGrow
<1>3. ASSUME NEW a \in Numbered PROVE Pool!OrdersIn(PoolSucceeded(b), a) = poolFinal[a]..(accounts[a] - 1)
  <2>1. PICK p : p = <<b>> OBVIOUS
  <2>2. p \in Seq(Pool!Body) /\ p # <<>> /\ Head(p) = b BY <2>1
  <2>3. PoolInOrder(p, a, poolFinal[a]) BY <2>1 DEF PoolIInv, PoolTurnsOK
  <2>4. PICK n : n = accounts[a] OBVIOUS
  <2>5. n = Pool!AccountsAfter(poolFinal, PoolSucceeded(Head(p)))[a] BY <2>2, <2>4
  <2>6. Pool!OrdersIn(PoolSucceeded(Head(p)), a) = poolFinal[a]..(n - 1) BY <1>1, <2>2, <2>3, <2>5, PoolDropping
  <2> QED BY <2>2, <2>4, <2>6
<1>4. ASSUME NEW t \in Pool!Ordered, NEW a \in Address, a = AddressOf[t],
             t \in poolFinalized \cup PoolSucceeded(b)
      PROVE  PoolIsOver(t, accounts[a])
  <2>1. /\ OrderOf[t] \in Nat /\ accounts[a] \in Nat /\ poolFinal[a] \in Nat /\ accounts[a] >= poolFinal[a]
    BY <1>1, <1>2, PoolGiven
  <2>2. CASE t \in poolFinalized
    <3>1. PoolIsOver(t, poolFinal[a]) BY <1>4, <2>2 DEF PoolIInv, PoolTurnsOK
    <3> QED BY <1>4, <2>1, <3>1 DEF PoolIsOver
  <2>3. CASE t \in PoolSucceeded(b)
    <3>1. OrderOf[t] \in Pool!OrdersIn(PoolSucceeded(b), a) BY <1>4, <2>3, PoolGiven DEF Pool!OrdersIn
    <3>2. CASE a \in Numbered
      <4>1. OrderOf[t] \in poolFinal[a]..(accounts[a] - 1) BY <1>3, <3>1, <3>2
      <4> QED BY <1>4, <2>1, <3>2, <4>1 DEF PoolIsOver
    <3>3. CASE a \notin Numbered BY <1>2, <1>4, <2>1, <3>1, <3>3 DEF PoolIsOver
    <3> QED BY <3>2, <3>3
  <2> QED BY <1>4, <2>2, <2>3
<1>5. ASSUME NEW t \in Pool!Pooled \cap Pool!Ordered, ~Pool!Leaves(b, t), NEW a \in Address, a = AddressOf[t]
      PROVE  IF a \in Numbered THEN OrderOf[t] >= accounts[a] ELSE OrderOf[t] > accounts[a]
  <2>1. /\ OrderOf[t] \in Nat /\ accounts[a] \in Nat /\ poolFinal[a] \in Nat /\ accounts[a] >= poolFinal[a]
    BY <1>1, <1>2, PoolGiven
  <2>2. IF a \in Numbered THEN OrderOf[t] >= poolFinal[a] ELSE OrderOf[t] > poolFinal[a]
    BY <1>5 DEF PoolIInv, Pool!PoolIsNotStale
  <2>3. ASSUME NEW n \in Pool!OrdersIn(PoolSucceeded(b), a) PROVE OrderOf[t] > n /\ n \in Nat
    <3>1. PICK u \in PoolSucceeded(b) \ Unordered : AddressOf[u] = a /\ n = OrderOf[u] BY <2>3 DEF Pool!OrdersIn
    <3>2. u \in b.txs \ Unordered /\ u \in UserTx /\ n \in Nat BY <1>1, <3>1, PoolGiven DEF PoolSucceeded
    <3>3. ~(OrderOf[t] <= OrderOf[u]) BY <1>5, <3>1, <3>2 DEF Pool!Leaves
    <3> QED BY <2>1, <3>1, <3>2, <3>3
  <2>4. CASE accounts[a] = poolFinal[a] BY <2>2, <2>4
  <2>5. CASE accounts[a] # poolFinal[a] /\ a \in Numbered
    <3>1. accounts[a] - 1 \in poolFinal[a]..(accounts[a] - 1) BY <2>1, <2>5
    <3>2. accounts[a] - 1 \in Pool!OrdersIn(PoolSucceeded(b), a) BY <1>3, <2>5, <3>1
    <3>3. OrderOf[t] > accounts[a] - 1 BY <2>3, <3>2
    <3> QED BY <2>1, <2>5, <3>3
  <2>6. CASE accounts[a] # poolFinal[a] /\ a \notin Numbered
    <3>1. accounts[a] \in Pool!OrdersIn(PoolSucceeded(b), a) BY <1>2, <2>6
    <3> QED BY <2>3, <2>6, <3>1
  <2> QED BY <2>4, <2>5, <2>6
<1>6. \A t \in Pool!Ordered : AddressOf[t] \in Address BY PoolGiven
<1> QED BY <1>2, <1>4, <1>5, <1>6

\* A block becomes final.
LEMMA PoolFinalizeStep ==
  ASSUME Pool!TxPoolAssumption, PoolIInv, NEW body, Pool!Finalize(body)
  PROVE  PoolIInv'
<1> DEFINE accounts == Pool!AccountsAfter(poolFinal, body.txs \ body.failed)
           stays    == {t \in Pool!Pooled : ~Pool!Leaves(body, t)}
           late     == Pool!TimedOut(stays, body.at)
           settled  == [t \in Pool!Tx |->
                          CASE t \in body.failed -> [state |-> "REVERTED", at |-> poolNow]
                            [] t \in body.txs \cup body.votes -> [state |-> "FINALIZED", at |-> poolNow]
                            [] OTHER -> poolTracker[t]]
           expired  == {t \in Pool!Tx : Pool!IsTimedOut(settled[t].at, body.at, TrackerTimeout)}
           timed    == [t \in Pool!Tx |->
                          CASE t \in expired -> Pool!Untracked
                            [] t \in late \ expired /\ settled[t].state \notin Pool!InBlock \cup {"none"} ->
                                 [settled[t] EXCEPT !.state = "TIMED_OUT"]
                            [] OTHER -> settled[t]]
           E        == [state : Pool!TxState \cup {"none"}, at : 0 .. MaxTime]
<1>1. /\ <<body>> \in poolBlocks /\ poolFinal' = accounts
      /\ poolBlocks' = {Tail(p) : p \in {q \in poolBlocks : Head(q) = body}} \ {<<>>}
      /\ poolFinalized' = poolFinalized \cup (body.txs \ body.failed) \cup body.votes
      /\ poolCreated' = poolCreated /\ poolNow' = poolNow
  BY DEF Pool!Finalize
<1>2. PICK S \in SUBSET Pool!Candidates(accounts, UserTx \ (stays \ late)) :
      \E valid \in SUBSET S : \E bad \in SUBSET valid :
        /\ LET invalid == S \ valid
           IN  /\ Pool!Keep((stays \ late) \ invalid)
               /\ poolTracker' = [t \in Pool!Tx |->
                    IF t \in invalid /\ timed[t].state \notin Pool!InBlock \cup {"none"}
                    THEN [timed[t] EXCEPT !.state = "FAILED"] ELSE timed[t]]
               /\ poolTold' = [t \in Pool!Tx |->
                    CASE t \in invalid -> "FAILED"
                      [] t \in late -> "TIMED_OUT"
                      [] t \in body.txs \cup body.votes -> settled[t].state
                      [] OTHER -> poolTold[t]]
        /\ poolFront' = Pool!AccountsAfter(accounts, valid \ bad)
  BY DEF Pool!Finalize
<1>0. S \subseteq UserTx
  <2> HIDE DEF accounts, stays, late
  <2> QED BY <1>2 DEF Pool!Candidates
<1>23. PICK valid \in SUBSET S : \E bad \in SUBSET valid :
        /\ LET invalid == S \ valid
           IN  /\ Pool!Keep((stays \ late) \ invalid)
               /\ poolTracker' = [t \in Pool!Tx |->
                    IF t \in invalid /\ timed[t].state \notin Pool!InBlock \cup {"none"}
                    THEN [timed[t] EXCEPT !.state = "FAILED"] ELSE timed[t]]
               /\ poolTold' = [t \in Pool!Tx |->
                    CASE t \in invalid -> "FAILED"
                      [] t \in late -> "TIMED_OUT"
                      [] t \in body.txs \cup body.votes -> settled[t].state
                      [] OTHER -> poolTold[t]]
        /\ poolFront' = Pool!AccountsAfter(accounts, valid \ bad)
  BY <1>2
<1>3. PICK I : I = S \ valid OBVIOUS
<1>4. /\ Pool!Keep((stays \ late) \ I)
      /\ poolTracker' = [t \in Pool!Tx |->
                    IF t \in I /\ timed[t].state \notin Pool!InBlock \cup {"none"}
                    THEN [timed[t] EXCEPT !.state = "FAILED"] ELSE timed[t]]
      /\ poolTold' = [t \in Pool!Tx |->
                    CASE t \in I -> "FAILED"
                      [] t \in late -> "TIMED_OUT"
                      [] t \in body.txs \cup body.votes -> settled[t].state
                      [] OTHER -> poolTold[t]]
  BY <1>23, <1>3
<1>5. PICK D \in SUBSET UserTx : poolFront' = Pool!AccountsAfter(accounts, D)
  <2> HIDE DEF accounts
  <2> QED BY <1>0, <1>23
<1>6. body \in Pool!Body
  <2>1. <<body>> \in Seq(Pool!Body) BY <1>1, PoolKnown
  <2> QED BY <2>1
<1>7. /\ body.at \in 0 .. MaxTime /\ body.at \in Nat /\ poolNow \in Nat /\ poolNow \in 0 .. MaxTime
      /\ body.txs \subseteq UserTx /\ body.failed \subseteq UserTx
      /\ body.votes \subseteq ConsensusTx /\ body.votes \subseteq Pool!Tx /\ body.txs \subseteq Pool!Tx
  BY <1>6, PoolGiven, PoolKnown DEF Pool!Body
<1>8. settled \in [Pool!Tx -> E]
  <2>1. \A t \in Pool!Tx : settled[t] \in {poolTracker[t], [state |-> "REVERTED", at |-> poolNow],
                                      [state |-> "FINALIZED", at |-> poolNow]}
    OBVIOUS
  <2>2. DOMAIN settled = Pool!Tx /\ settled = [t \in Pool!Tx |-> settled[t]] OBVIOUS
  <2> HIDE DEF settled
  <2>3. \A t \in Pool!Tx : settled[t] \in E BY <1>7, <2>1, PoolKnown DEF Pool!TxState, Pool!InBlock
  <2> QED BY <2>2, <2>3
<1>9. timed \in [Pool!Tx -> E]
  <2>1. \A t \in Pool!Tx : timed[t] \in {Pool!Untracked, [settled[t] EXCEPT !.state = "TIMED_OUT"], settled[t]}
    <3> HIDE DEF settled, expired, late
    <3> QED OBVIOUS
  <2>2. timed = [t \in Pool!Tx |-> timed[t]] OBVIOUS
  <2> HIDE DEF timed, settled
  <2>3. \A t \in Pool!Tx : timed[t] \in E
    <3> SUFFICES ASSUME NEW t \in Pool!Tx PROVE timed[t] \in E OBVIOUS
    <3>1. settled[t] \in E BY <1>8
    <3>2. 0 \in 0 .. MaxTime BY PoolGiven
    <3>3. Pool!Untracked \in E BY <3>2 DEF Pool!Untracked
    <3> QED BY <2>1, <3>1, <3>3 DEF Pool!TxState, Pool!EndState
  <2> QED BY <2>2, <2>3
<1>10. poolTracker' \in [Pool!Tx -> E]
  <2> HIDE DEF timed
  <2>1. \A t \in Pool!Tx : poolTracker'[t] \in {[timed[t] EXCEPT !.state = "FAILED"], timed[t]} BY <1>4
  <2>2. \A t \in Pool!Tx : poolTracker'[t] \in E BY <1>9, <2>1 DEF Pool!TxState, Pool!EndState
  <2> QED BY <1>4, <2>2
<1>11. poolTold' \in [Pool!Tx -> Pool!TxState \cup {"none"}]
  <2> HIDE DEF settled, late, stays
  <2>1. \A t \in Pool!Tx : poolTold'[t] \in {"FAILED", "TIMED_OUT", settled[t].state, poolTold[t]} BY <1>4
  <2>2. \A t \in Pool!Tx : settled[t].state \in Pool!TxState \cup {"none"} BY <1>8
  <2>3. \A t \in Pool!Tx : poolTold'[t] \in Pool!TxState \cup {"none"}
    BY <2>1, <2>2, PoolKnown DEF Pool!TxState, Pool!EndState
  <2> QED BY <1>4, <2>3
<1>12. /\ accounts \in [Address -> Nat]
       /\ \A t \in (poolFinalized \cup (body.txs \ body.failed)) \cap Pool!Ordered :
            PoolIsOver(t, accounts[AddressOf[t]])
       /\ \A t \in Pool!Pooled \cap Pool!Ordered : ~Pool!Leaves(body, t) =>
            IF AddressOf[t] \in Numbered THEN OrderOf[t] >= accounts[AddressOf[t]]
                                         ELSE OrderOf[t] > accounts[AddressOf[t]]
  <2>1. PoolSucceeded(body) = body.txs \ body.failed BY DEF PoolSucceeded
  <2>2. accounts = Pool!AccountsAfter(poolFinal, PoolSucceeded(body)) BY <2>1
  <2> HIDE DEF accounts
  <2> QED BY <1>1, <1>6, <2>1, <2>2, PoolTurnsMove
<1>13. poolFront' \in [Address -> Nat] /\ \A a \in Address : poolFront'[a] >= accounts[a]
  <2> HIDE DEF accounts
  <2> QED BY <1>5, <1>12, PoolAccountsGrow
<1>14. Pool!CountsAreExact' /\ PoolListsOK(poolPool)' /\ Pool!Pooled' \subseteq Pool!Pooled \cap ((stays \ late) \ I)
  <2> HIDE DEF stays, late
  <2> QED BY <1>4, PoolRemaining
<1>15. ASSUME NEW p \in poolBlocks, Head(p) = body, Tail(p) # <<>>
       PROVE  /\ Tail(p) \in Seq(Pool!Body)
              /\ \A a \in Numbered : PoolInOrder(Tail(p), a, accounts[a])
  <2>1. p \in Seq(Pool!Body) /\ p # <<>> /\ Tail(p) \in Seq(Pool!Body) BY <1>15, PoolKnown
  <2>2. ASSUME NEW a \in Numbered PROVE PoolInOrder(Tail(p), a, accounts[a])
    <3>1. PoolInOrder(p, a, poolFinal[a]) BY <1>15 DEF PoolIInv, PoolTurnsOK
    <3>2. accounts[a] = Pool!AccountsAfter(poolFinal, PoolSucceeded(Head(p)))[a] BY <1>15 DEF PoolSucceeded
    <3> HIDE DEF accounts
    <3> QED BY <2>1, <3>1, <3>2, PoolKnown, PoolDropping
  <2> QED BY <2>1, <2>2
<1>16. poolBlocks' \subseteq Seq(Pool!Body) \ {<<>>}
  <2> HIDE DEF accounts
  <2> QED BY <1>1, <1>15
<1>17. PoolShapesOK'
  <2>1. poolFinalized' \subseteq Pool!Tx BY <1>1, <1>7, PoolKnown
  <2> HIDE DEF accounts
  <2> QED BY <1>1, <1>10, <1>11, <1>12, <1>13, <1>16, <2>1, PoolKnown DEF PoolShapesOK
<1>18. PoolTurnsOK'
  <2>1. \A p \in poolBlocks' : \A a \in Numbered : PoolInOrder(p, a, poolFinal'[a])
    <3> HIDE DEF accounts
    <3> QED BY <1>1, <1>15
  <2>2. \A t \in poolFinalized' \cap Pool!Ordered : PoolIsOver(t, poolFinal'[AddressOf[t]])
    <3>1. body.votes \cap Pool!Ordered = {} BY <1>7, PoolGiven
    <3> HIDE DEF accounts
    <3> QED BY <1>1, <1>12, <3>1
  <2>3. \A a \in Address : poolFront'[a] >= poolFinal'[a]
    <3> HIDE DEF accounts
    <3> QED BY <1>1, <1>13
  <2> QED BY <2>1, <2>2, <2>3, PoolTurnsNext
<1>19. ASSUME NEW u \in Pool!Pooled'
       PROVE  /\ u \in Pool!Pooled /\ u \in Pool!Tx /\ ~Pool!Leaves(body, u) /\ u \notin body.txs /\ u \notin body.votes
              /\ poolTracker'[u] \in {poolTracker[u], [state |-> "REVERTED", at |-> poolNow]}
  <2>1. u \in Pool!Pooled /\ u \in stays /\ u \notin late /\ u \notin I BY <1>14
  <2>2. u \in Pool!Tx BY <2>1, PoolKnown
  <2>3. ~Pool!Leaves(body, u) BY <2>1
  <2>4. u \notin body.txs /\ u \notin body.votes BY <2>3 DEF Pool!Leaves
  <2>5. settled[u] \in {poolTracker[u], [state |-> "REVERTED", at |-> poolNow]} BY <2>2, <2>4
  <2>6. settled[u].at >= poolCreated[u] /\ settled[u].at \in Nat /\ poolCreated[u] \in Nat
    <3>1. poolTracker[u].at >= poolCreated[u] /\ poolTracker[u].at \in Nat
      <4>1. poolTracker[u] \in E /\ MaxTime \in Nat BY <2>2, PoolGiven, PoolKnown
      <4> QED BY <2>1, <4>1 DEF PoolIInv, PoolTrackedInTime
    <3>2. poolCreated[u] \in Nat /\ poolNow \in Nat /\ poolNow >= poolCreated[u]
      <4>1. poolCreated[u] \in 0 .. MaxTime /\ poolCreated[u] <= poolNow /\ poolNow \in Nat /\ MaxTime \in Nat
        BY <2>2, PoolGiven, PoolKnown
      <4> QED BY <4>1
    <3>3. CASE settled[u] = poolTracker[u] BY <3>1, <3>2, <3>3
    <3>4. CASE settled[u] = [state |-> "REVERTED", at |-> poolNow]
      <4>1. settled[u].at = poolNow BY <3>4
      <4> QED BY <3>2, <4>1
    <3> HIDE DEF settled
    <3> QED BY <2>5, <3>3, <3>4
  <2>7. ~(body.at >= poolCreated[u] + PoolTimeout) BY <2>1 DEF Pool!TimedOut, Pool!IsTimedOut
  <2>8. u \notin expired
    <3>1. PICK z \in Nat : z = settled[u].at BY <2>6
    <3>2. ~(body.at >= z + TrackerTimeout) BY <1>7, <2>6, <2>7, <3>1, PoolGiven
    <3> QED BY <3>1, <3>2 DEF Pool!IsTimedOut
  <2>9. timed[u] = settled[u]
    <3> HIDE DEF settled, expired, late
    <3> QED BY <2>1, <2>2, <2>8
  <2>10. poolTracker'[u] = timed[u]
    <3> HIDE DEF timed
    <3> QED BY <1>4, <2>1, <2>2
  <2> HIDE DEF settled, timed
  <2> QED BY <2>1, <2>2, <2>3, <2>4, <2>5, <2>9, <2>10
<1> HIDE DEF accounts, stays, late, settled, expired, timed
<1>20. PoolTrackedInTime'
  <2> SUFFICES ASSUME NEW u \in Pool!Pooled'
               PROVE  poolTracker'[u].state # "none" /\ poolTracker'[u].at >= poolCreated'[u]
    BY DEF PoolTrackedInTime
  <2>1. u \in Pool!Pooled /\ u \in Pool!Tx /\ poolTracker'[u] \in {poolTracker[u], [state |-> "REVERTED", at |-> poolNow]}
    BY <1>19
  <2>2. poolCreated'[u] = poolCreated[u] /\ poolCreated[u] <= poolNow /\ poolCreated[u] \in Nat
    <3>1. poolCreated[u] \in 0 .. MaxTime /\ poolCreated[u] <= poolNow /\ MaxTime \in Nat BY <2>1, PoolGiven, PoolKnown
    <3> QED BY <1>1, <3>1
  <2>3. poolTracker[u].state # "none" /\ poolTracker[u].at >= poolCreated[u] BY <2>1 DEF PoolIInv, PoolTrackedInTime
  <2>4. CASE poolTracker'[u] = [state |-> "REVERTED", at |-> poolNow]
    <3>1. poolTracker'[u].state = "REVERTED" /\ poolTracker'[u].at = poolNow BY <2>4
    <3> QED BY <1>7, <2>2, <3>1
  <2> QED BY <2>1, <2>2, <2>3, <2>4
<1>21. Pool!SettledIsGone'
  <2> SUFFICES ASSUME NEW u \in Pool!Pooled' \cap UserTx
               PROVE  (u \in Pool!Ordered => u \notin poolFinalized') /\ poolTracker'[u].state \notin {"FINALIZED", "FAILED", "TIMED_OUT"}
    BY PoolGiven DEF Pool!SettledIsGone, Pool!Ordered
  <2>1. /\ u \in Pool!Pooled /\ u \notin body.txs /\ u \notin body.votes
        /\ poolTracker'[u] \in {poolTracker[u], [state |-> "REVERTED", at |-> poolNow]}
    BY <1>19
  <2>2. (u \in Pool!Ordered => u \notin poolFinalized) /\ poolTracker[u].state \notin {"FINALIZED", "FAILED", "TIMED_OUT"}
    BY <2>1 DEF PoolIInv, Pool!SettledIsGone
  <2>3. poolTracker'[u].state \in {poolTracker[u].state, "REVERTED"} BY <2>1
  <2> QED BY <1>1, <2>1, <2>2, <2>3
<1>22. Pool!PoolIsNotStale'
  <2> SUFFICES ASSUME NEW u \in Pool!Pooled' \cap Pool!Ordered
               PROVE  IF AddressOf[u] \in Numbered THEN OrderOf[u] >= poolFinal'[AddressOf[u]]
                                                   ELSE OrderOf[u] > poolFinal'[AddressOf[u]]
    BY DEF Pool!PoolIsNotStale, Pool!Ordered
  <2>1. u \in Pool!Pooled /\ ~Pool!Leaves(body, u) BY <1>19
  <2> QED BY <1>1, <1>12, <2>1
<1> QED BY <1>14, <1>17, <1>18, <1>20, <1>21, <1>22 DEF PoolIInv

-----------------------------------------------------------------------------
\* No step breaks the invariant.
LEMMA PoolSteps == ASSUME Pool!TxPoolAssumption, PoolIInv, [Pool!Next]_Pool!vars PROVE PoolIInv'
<1>1. CASE UNCHANGED Pool!vars BY <1>1, PoolStutterStep
<1>2. ASSUME NEW t \in UserTx, NEW ok \in BOOLEAN, Pool!Submit(t, ok) PROVE PoolIInv'
  BY <1>2, PoolSubmitStep
<1>3. ASSUME NEW t \in ConsensusTx, Pool!AddConsensusTx(t) PROVE PoolIInv'
  BY <1>3, PoolAddConsensusTxStep
<1>4. ASSUME NEW b \in Pool!BodyNow, NEW p \in Pool!Paths, Pool!ReceiveBlock(p, b) \/ Pool!Propose(p, b) PROVE PoolIInv'
  BY <1>4, PoolReceiveBlockStep, PoolProposeStep
<1>5. ASSUME NEW b, Pool!Finalize(b) PROVE PoolIInv' BY <1>5, PoolFinalizeStep
<1>6. ASSUME NEW S, Pool!CleanUpConsensusTxs(S) PROVE PoolIInv' BY <1>6, PoolCleanUpStep
<1>7. CASE Pool!Tick BY <1>7, PoolTickStep
<1> QED BY <1>1, <1>2, <1>3, <1>4, <1>5, <1>6, <1>7 DEF Pool!Next

\* The invariant gives the types.
LEMMA PoolTyped == ASSUME Pool!TxPoolAssumption, PoolIInv PROVE Pool!TypeOK
<1>1. poolTotal \in Nat /\ poolFreeTotal \in Nat /\ poolFreeOf \in [Address -> Nat]
  BY PoolKnown, PoolCountersAreNat DEF PoolListsOK
<1>2. \A t \in Pool!Tx : poolTracker[t].state \in Pool!TxState \cup {"none"} /\ poolTracker[t].at \in 0 .. MaxTime
  BY PoolKnown
<1>3. poolPool \in [Address -> Seq(Pool!Tx)] BY PoolKnown DEF PoolListsOK
<1>4. \A p \in poolBlocks : p \in Seq(Pool!Body) /\ p # <<>> BY PoolKnown
<1> QED BY <1>1, <1>2, <1>3, <1>4, PoolKnown DEF Pool!TypeOK

\* The invariant gives what the runs check.
LEMMA PoolClean ==
  ASSUME Pool!TxPoolAssumption, PoolIInv
  PROVE  Pool!CountsAreExact /\ Pool!SettledIsGone /\ Pool!PoolIsTracked /\ Pool!OncePerPool /\ Pool!PoolIsNotStale
<1>1. Pool!CountsAreExact /\ Pool!SettledIsGone /\ Pool!PoolIsNotStale BY DEF PoolIInv
<1>2. Pool!PoolIsTracked BY DEF PoolIInv, PoolTrackedInTime, Pool!PoolIsTracked
<1>3. Pool!OncePerPool BY DEF PoolIInv, PoolListsOK, PoolListOK, Pool!OncePerPool
<1> QED BY <1>1, <1>2, <1>3

-----------------------------------------------------------------------------
(* The parts together: a step of the node is a step of one part, and the   *)
(* invariant of each part is kept by its steps and by those of the others. *)

ServicesInv ==
  /\ PoolIInv
  /\ EventsIInv /\ EventsTightOK
  /\ SyncIInv
  /\ RepIInv
  /\ ColdIInv /\ ColdOneAtATime

\* Every part starts where it would start by itself.
LEMMA ServicesStart == Init => ServicesInv
<1> SUFFICES ASSUME Init PROVE ServicesInv OBVIOUS
<1>5. PoolIInv BY PoolIsAssumed, PoolStarting DEF Init
<1>1. EventsIInv /\ EventsTightOK
  BY EventsAreAssumed, EventsStarting, EventsTightStarting DEF Init
<1>2. SyncIInv BY SyncIsAssumed, SyncStarting DEF Init
<1>3. RepIInv BY ReportsAreAssumed, RepStarting DEF Init
<1>4. ColdIInv /\ ColdOneAtATime
  BY ColdIsAssumed, ColdStarting, ColdOneStarting DEF Init
<1> QED BY <1>1, <1>2, <1>3, <1>4, <1>5 DEF ServicesInv

\* A step is a step of each part, or nothing to it.
LEMMA OneServiceSteps ==
  ASSUME [Next]_vars
  PROVE  /\ [Pool!Next]_Pool!vars
         /\ [Events!Next]_Events!vars
         /\ [Syncing!Next]_Syncing!vars
         /\ [Reports!Next]_Reports!vars
         /\ [Cold!Next]_Cold!vars
<1>6. UNCHANGED poolVars => UNCHANGED Pool!vars BY DEF poolVars, Pool!vars
<1>1. UNCHANGED handVars => UNCHANGED Events!vars
  BY DEF handVars, Events!vars, Events!treeVars, Events!handlerVars
<1>2. UNCHANGED syncVars => UNCHANGED Syncing!vars BY DEF syncVars, Syncing!vars
<1>3. UNCHANGED repVars => UNCHANGED Reports!vars
  BY DEF repVars, Reports!vars, Reports!reporter, Reports!parent
<1>4. UNCHANGED coldVars => UNCHANGED Cold!vars
  BY DEF coldVars, Cold!vars, Cold!wire, Cold!old
<1>5. UNCHANGED vars => UNCHANGED <<poolVars, handVars, syncVars, repVars, coldVars>> BY DEF vars
<1> QED BY <1>1, <1>2, <1>3, <1>4, <1>5, <1>6 DEF Next, Only

\* No step of any part breaks the invariant.
LEMMA ServicesStep == ServicesInv /\ [Next]_vars => ServicesInv'
<1> SUFFICES ASSUME ServicesInv, [Next]_vars PROVE ServicesInv' OBVIOUS
<1>5. PoolIInv' BY OneServiceSteps, PoolIsAssumed, PoolSteps DEF ServicesInv
<1>1. EventsIInv' /\ EventsTightOK'
  BY OneServiceSteps, EventsAreAssumed, EventsSteps, EventsTightSteps DEF ServicesInv
<1>2. SyncIInv' BY OneServiceSteps, SyncIsAssumed, SyncSteps DEF ServicesInv
<1>3. RepIInv' BY OneServiceSteps, ReportsAreAssumed, RepSteps DEF ServicesInv
<1>4. ColdIInv' /\ ColdOneAtATime'
  BY OneServiceSteps, ColdIsAssumed, ColdSteps, ColdOneSteps DEF ServicesInv
<1> QED BY <1>1, <1>2, <1>3, <1>4, <1>5 DEF ServicesInv

\* The invariant of every part holds in every behaviour of the node, whichever part
\* takes the steps.
THEOREM ServicesInvariance == Spec => []ServicesInv
BY ServicesStart, ServicesStep, PTL DEF Spec

\* For any transactions, with a turn and without, any accounts and limits, when the
\* tracker forgets a transaction no sooner than the pool does: the pool is counted,
\* tracked, without anything twice, nothing in it is settled as the tracker knows it, and
\* no transaction that has a turn has had it (tx-pool/index.js).
THEOREM PoolTheorem == Spec => []PoolIsClean
<1>1. ServicesInv => PoolIsClean BY PoolIsAssumed, PoolClean DEF ServicesInv, PoolIsClean
<1> QED BY <1>1, ServicesInvariance, PTL

\* What the filters say of each other, for every set of channels, filters, patterns and
\* transactions (event-handler/index.js, event-channel-manager.js, state-event-tree-manager.js).
THEOREM FiltersTheorem == Spec => []FiltersAgree
<1>1. ServicesInv => FiltersAgree
  BY EventsAreAssumed, EventsAgreeing DEF ServicesInv, FiltersAgree
<1> QED BY <1>1, ServicesInvariance, PTL

\* The chain of a node that serves, the old chain and the reports of a shard are whole
\* when the peers have their chains from the genesis block on and reports are checked
\* (p2p/client.js handleChainSegment, tool/cold start; reportShardProofHashes).
THEOREM ChainsTheorem ==
  ASSUME SyncAreWhole, ~Lightweight PROVE Spec => []ChainsAreWhole
<1>1. ASSUME ServicesInv PROVE ChainsAreWhole
  <2>1. Syncing!ServingIsSynced BY <1>1 DEF ServicesInv, SyncIInv, SyncServingOK
  <2>2. Cold!FilesAreContiguous /\ Cold!DoneIsWhole
    BY <1>1 DEF ServicesInv, ColdIInv, ColdOldOK
  <2>3. Reports!ReportsAreConsecutive BY <1>1, RepInOrder DEF ServicesInv
  <2> QED BY <2>1, <2>2, <2>3 DEF ChainsAreWhole
<1> QED BY <1>1, ServicesInvariance, PTL

\* Only a restart takes the chain back, and nothing what a shard has reported
\* (mergeChainSegment, tryFinalizeChain; _updateLatestShardReport).
THEOREM NotBackTheorem == ASSUME ~Lightweight PROVE Spec => NothingGoesBack
<1>1. ASSUME ServicesInv, [Next]_vars
      PROVE  /\ [syncLast' >= syncLast \/ Syncing!Restart]_Syncing!vars
             /\ [repLatest' >= repLatest /\ (repLatest' >= 0 => Reports!Contains(repReports', repLatest'))]_Reports!vars
  BY <1>1, OneServiceSteps, SyncIsAssumed, ReportsAreAssumed, SyncSteps, RepNeverLess
  DEF ServicesInv
<1> QED BY <1>1, ServicesInvariance, PTL DEF Spec, NothingGoesBack, Syncing!NeverBack, Reports!LatestIsReported

\* The types of the parts, with what each bounds: requests and answers under way, one
\* call that sends, one request for old blocks.
THEOREM TypesTheorem == Spec => []TypeOK
<1>1. ASSUME ServicesInv PROVE TypeOK
  <2>1. Pool!TypeOK BY <1>1, PoolIsAssumed, PoolTyped DEF ServicesInv
  <2>2. Events!TypeOK BY <1>1 DEF ServicesInv, EventsIInv
  <2>3. Syncing!TypeOK BY <1>1, SyncIsAssumed, SyncTyped DEF ServicesInv
  <2>4. Reports!TypeOK BY <1>1, ReportsAreAssumed, RepTyped DEF ServicesInv
  <2>5. Cold!TypeOK BY <1>1, ColdIsAssumed, ColdTyped DEF ServicesInv
  <2> QED BY <2>1, <2>2, <2>3, <2>4, <2>5 DEF TypeOK
<1> QED BY <1>1, ServicesInvariance, PTL
=============================================================================
