---------------------------- MODULE FoldTheorems ----------------------------
(***************************************************************************)
(* Induction over the folds of the community modules.  MapThenFoldSet is   *)
(* defined by a recursive function on the subsets of a set; that there is  *)
(* such a function, and what it returns, follows from the smallest subset  *)
(* for which it would not hold.  The operators are parameters, so that a   *)
(* module takes these theorems for its own folds with INSTANCE ... WITH;   *)
(* c stands for what the folded operator depends on otherwise.             *)
(***************************************************************************)
EXTENDS Integers, FiniteSetTheorems, WellFoundedInduction, TLAPS

CONSTANTS
  Op(_, _, _),  \* what is done with a value and the result so far
  Value(_, _),  \* the value of an element
  Pick(_)       \* the element of a set that is folded last

\* f is the function that folds the subsets of S.
IsFold(c, base, f, S) ==
  f = [s \in SUBSET S |->
         IF s = {} THEN base ELSE Op(c, Value(c, Pick(s)), f[s \ {Pick(s)}])]

FoldOf(c, base, S) == CHOOSE f : IsFold(c, base, f, S)

\* The fold over S.
Fold(c, base, S) == FoldOf(c, base, S)[S]

Picks(S) == \A T \in SUBSET S : T # {} => Pick(T) \in T

\* A step keeps the values in I, and two steps may change places.
Keeps(c, S, I) == \A x \in S, v \in I : Op(c, Value(c, x), v) \in I
Commutes(c, S, I) ==
  \A x, y \in S, v \in I :
    Op(c, Value(c, x), Op(c, Value(c, y), v)) = Op(c, Value(c, y), Op(c, Value(c, x), v))

\* A set of subsets of a finite set has a smallest one.
LEMMA Smallest ==
  ASSUME NEW S, IsFiniteSet(S), NEW M \in SUBSET SUBSET S, M # {}
  PROVE  \E T \in M : \A U \in M : U \subseteq T => U = T
<1>1. IsWellFoundedOn(StrictSubsetOrdering(S), SUBSET S)
  BY FS_StrictSubsetOrderingWellFounded, FS_FiniteSubsetsOfFinite
<1>2. PICK T \in M : \A U \in M : <<U, T>> \notin StrictSubsetOrdering(S)
  BY <1>1, WFMin
<1> QED BY <1>2 DEF StrictSubsetOrdering

\* Two such functions agree where both are defined.
LEMMA FoldIsUnique ==
  ASSUME NEW c, NEW base, NEW S, IsFiniteSet(S), Picks(S), NEW T,
         NEW f, NEW g, IsFold(c, base, f, S), IsFold(c, base, g, T),
         NEW s \in SUBSET S, s \in SUBSET T
  PROVE  f[s] = g[s]
<1> DEFINE M == {u \in SUBSET S : u \in SUBSET T /\ f[u] # g[u]}
<1> SUFFICES ASSUME M # {} PROVE FALSE OBVIOUS
<1>1. PICK u \in M : \A w \in M : w \subseteq u => w = u
  <2>1. M \in SUBSET SUBSET S OBVIOUS
  <2> HIDE DEF M
  <2> QED BY <2>1, Smallest
<1>2. CASE u = {}
  BY <1>2, <1>1 DEF IsFold
<1>3. CASE u # {}
  <2> DEFINE r == u \ {Pick(u)}
  <2>1. Pick(u) \in u BY <1>3 DEF Picks
  <2>2. f[r] = g[r] BY <2>1, <1>1
  <2>3. f[u] = Op(c, Value(c, Pick(u)), f[r]) BY <1>3 DEF IsFold
  <2>4. g[u] = Op(c, Value(c, Pick(u)), g[r]) BY <1>3 DEF IsFold
  <2> QED BY <1>1, <2>2, <2>3, <2>4
<1> QED BY <1>2, <1>3

\* There is one for every finite set.
LEMMA FoldExists ==
  ASSUME NEW c, NEW base, NEW S, IsFiniteSet(S), Picks(S)
  PROVE  IsFold(c, base, FoldOf(c, base, S), S)
<1> DEFINE F(s) == FoldOf(c, base, s)
           M == {u \in SUBSET S : ~IsFold(c, base, F(u), u)}
<1> SUFFICES ASSUME M # {} PROVE FALSE OBVIOUS
<1>1. PICK T \in M : \A w \in M : w \subseteq T => w = T
  <2>1. M \in SUBSET SUBSET S OBVIOUS
  <2> HIDE DEF M
  <2> QED BY <2>1, Smallest
<1> DEFINE f == [s \in SUBSET T |->
                   IF s = {} THEN base
                   ELSE Op(c, Value(c, Pick(s)), F(s \ {Pick(s)})[s \ {Pick(s)}])]
<1>2. ASSUME NEW s \in SUBSET T, s # T PROVE IsFold(c, base, F(s), s)
  BY <1>1, <1>2
<1>3. ASSUME NEW s \in SUBSET T, s # T PROVE f[s] = F(s)[s]
  <2>1. IsFold(c, base, F(s), s) BY <1>2, <1>3
  <2>2. CASE s = {}
    BY <2>1, <2>2 DEF IsFold
  <2>3. CASE s # {}
    <3> DEFINE u == s \ {Pick(s)}
    <3>1. Pick(s) \in s BY <2>3 DEF Picks
    <3>2. IsFold(c, base, F(u), u) BY <1>2, <3>1
    <3>3. IsFiniteSet(s) /\ Picks(s) BY FS_Subset DEF Picks
    <3>4. F(s)[u] = F(u)[u]
      <4>1. u \in SUBSET s /\ u \in SUBSET u OBVIOUS
      <4> HIDE DEF u, F
      <4> QED BY <2>1, <3>2, <3>3, <4>1, FoldIsUnique
    <3>5. F(s)[s] = Op(c, Value(c, Pick(s)), F(s)[u])
      BY <2>1, <2>3 DEF IsFold
    <3>6. f[s] = Op(c, Value(c, Pick(s)), F(u)[u])
      BY <2>3
    <3> QED BY <3>4, <3>5, <3>6
  <2> QED BY <2>2, <2>3
<1>4. IsFold(c, base, f, T)
  <2>1. ASSUME NEW s \in SUBSET T, s # {}
        PROVE  F(s \ {Pick(s)})[s \ {Pick(s)}] = f[s \ {Pick(s)}]
    <3>1. Pick(s) \in s BY <2>1 DEF Picks
    <3>2. s \ {Pick(s)} \in SUBSET T /\ s \ {Pick(s)} # T BY <3>1
    <3> HIDE DEF f
    <3> QED BY <3>2, <1>3
  <2> QED BY <2>1 DEF IsFold
<1> HIDE DEF f
<1>5. IsFold(c, base, F(T), T) BY <1>4 DEF FoldOf
<1> QED BY <1>1, <1>5

\* What a fold returns.
LEMMA FoldEmpty == ASSUME NEW c, NEW base PROVE Fold(c, base, {}) = base
<1>1. IsFiniteSet({}) /\ Picks({}) BY FS_EmptySet DEF Picks
<1>2. IsFold(c, base, FoldOf(c, base, {}), {}) BY <1>1, FoldExists
<1> QED BY <1>2 DEF Fold, IsFold

\* The fold over a set ends with the element that is picked.
LEMMA FoldStep ==
  ASSUME NEW c, NEW base, NEW S, IsFiniteSet(S), S # {}, Picks(S)
  PROVE  /\ Pick(S) \in S
         /\ Fold(c, base, S) = Op(c, Value(c, Pick(S)), Fold(c, base, S \ {Pick(S)}))
<1> DEFINE u == S \ {Pick(S)}
           F(s) == FoldOf(c, base, s)
<1>1. IsFiniteSet(u) /\ Picks(u) BY FS_Subset DEF Picks
<1>2. IsFold(c, base, F(S), S) /\ IsFold(c, base, F(u), u) BY <1>1, FoldExists
<1>3. F(S)[u] = F(u)[u]
  <2>1. u \in SUBSET S /\ u \in SUBSET u OBVIOUS
  <2> HIDE DEF u, F
  <2> QED BY <1>2, <2>1, FoldIsUnique
<1>4. F(S)[S] = Op(c, Value(c, Pick(S)), F(S)[u]) BY <1>2 DEF IsFold
<1> QED BY <1>3, <1>4 DEF Picks, Fold

\* What every step keeps holds of the fold.
LEMMA FoldKeeps ==
  ASSUME NEW c, NEW base, NEW S, IsFiniteSet(S), Picks(S), NEW I, base \in I, Keeps(c, S, I)
  PROVE  Fold(c, base, S) \in I
<1> DEFINE M == {u \in SUBSET S : Fold(c, base, u) \notin I}
<1> SUFFICES ASSUME M # {} PROVE FALSE OBVIOUS
<1>1. PICK T \in M : \A w \in M : w \subseteq T => w = T
  <2>1. M \in SUBSET SUBSET S OBVIOUS
  <2> HIDE DEF M
  <2> QED BY <2>1, Smallest
<1>2. CASE T = {}
  BY <1>1, <1>2, FoldEmpty
<1>3. CASE T # {}
  <2>1. IsFiniteSet(T) /\ Picks(T) BY FS_Subset DEF Picks
  <2>2. /\ Pick(T) \in T
        /\ Fold(c, base, T) = Op(c, Value(c, Pick(T)), Fold(c, base, T \ {Pick(T)}))
    BY <1>3, <2>1, FoldStep
  <2>3. Fold(c, base, T \ {Pick(T)}) \in I BY <1>1, <2>2
  <2> QED BY <1>1, <2>2, <2>3 DEF Keeps
<1> QED BY <1>2, <1>3

\* What the step of one element brings about, and every other step keeps, holds of
\* the fold.
LEMMA FoldReaches ==
  ASSUME NEW c, NEW base, NEW S, IsFiniteSet(S), Picks(S), NEW I, base \in I, Keeps(c, S, I),
         NEW z \in S, NEW J, Keeps(c, S, J), \A v \in I : Op(c, Value(c, z), v) \in J
  PROVE  Fold(c, base, S) \in J
<1> DEFINE M == {u \in SUBSET S : z \in u /\ Fold(c, base, u) \notin J}
<1> SUFFICES ASSUME M # {} PROVE FALSE OBVIOUS
<1>1. PICK T \in M : \A w \in M : w \subseteq T => w = T
  <2>1. M \in SUBSET SUBSET S OBVIOUS
  <2> HIDE DEF M
  <2> QED BY <2>1, Smallest
<1>2. IsFiniteSet(T) /\ Picks(T) /\ T # {} BY <1>1, FS_Subset DEF Picks
<1>3. PICK p \in T : Fold(c, base, T) = Op(c, Value(c, p), Fold(c, base, T \ {p}))
  <2> HIDE DEF M
  <2>1. /\ Pick(T) \in T
        /\ Fold(c, base, T) = Op(c, Value(c, Pick(T)), Fold(c, base, T \ {Pick(T)}))
    BY <1>2, FoldStep
  <2> QED BY <2>1
<1>4. CASE p = z
  <2> DEFINE U == T \ {p}
  <2>1. IsFiniteSet(U) /\ Picks(U) /\ Keeps(c, U, I) BY <1>1, FS_Subset DEF Picks, Keeps
  <2> HIDE DEF U
  <2>2. Fold(c, base, U) \in I BY <2>1, FoldKeeps
  <2> QED BY <1>1, <1>3, <1>4, <2>2 DEF U
<1>5. CASE p # z
  <2>1. Fold(c, base, T \ {p}) \in J BY <1>1, <1>5
  <2> QED BY <1>1, <1>3, <2>1 DEF Keeps
<1> QED BY <1>4, <1>5

\* When the order does not matter, any element can be the last one.
LEMMA FoldAnyLast ==
  ASSUME NEW c, NEW base, NEW S, IsFiniteSet(S), Picks(S), NEW I, base \in I,
         Keeps(c, S, I), Commutes(c, S, I), NEW z \in S
  PROVE  Fold(c, base, S) = Op(c, Value(c, z), Fold(c, base, S \ {z}))
<1> DEFINE M == {u \in SUBSET S :
                   \E x \in u : Fold(c, base, u) # Op(c, Value(c, x), Fold(c, base, u \ {x}))}
<1> SUFFICES ASSUME M # {} PROVE FALSE OBVIOUS
<1>1. PICK T \in M : \A w \in M : w \subseteq T => w = T
  <2>1. M \in SUBSET SUBSET S OBVIOUS
  <2> HIDE DEF M
  <2> QED BY <2>1, Smallest
<1>2. PICK x \in T : Fold(c, base, T) # Op(c, Value(c, x), Fold(c, base, T \ {x}))
  BY <1>1
<1>3. IsFiniteSet(T) /\ Picks(T) /\ T # {} BY <1>1, <1>2, FS_Subset DEF Picks
<1>4. PICK p \in T : Fold(c, base, T) = Op(c, Value(c, p), Fold(c, base, T \ {p}))
  <2> HIDE DEF M
  <2>1. /\ Pick(T) \in T
        /\ Fold(c, base, T) = Op(c, Value(c, Pick(T)), Fold(c, base, T \ {Pick(T)}))
    BY <1>3, FoldStep
  <2> QED BY <2>1
<1>5. p # x BY <1>2, <1>4
<1>6. Fold(c, base, T \ {p}) = Op(c, Value(c, x), Fold(c, base, T \ {p, x}))
  <2>1. T \ {p} \notin M /\ x \in T \ {p} /\ (T \ {p}) \ {x} = T \ {p, x} BY <1>1, <1>4, <1>5
  <2> QED BY <2>1, <1>1
<1>7. Fold(c, base, T \ {x}) = Op(c, Value(c, p), Fold(c, base, T \ {p, x}))
  <2>1. T \ {x} \notin M /\ p \in T \ {x} /\ (T \ {x}) \ {p} = T \ {p, x} BY <1>1, <1>2, <1>4, <1>5
  <2> QED BY <2>1, <1>1
<1>8. Fold(c, base, T \ {p, x}) \in I
  <2> DEFINE U == T \ {p, x}
  <2>1. IsFiniteSet(U) /\ Picks(U) /\ Keeps(c, U, I) BY <1>1, FS_Subset DEF Picks, Keeps
  <2> HIDE DEF U
  <2>2. Fold(c, base, U) \in I BY <2>1, FoldKeeps
  <2> QED BY <2>2 DEF U
<1> QED BY <1>1, <1>2, <1>4, <1>6, <1>7, <1>8 DEF Commutes

\* Induction along the picks: R relates a set to the fold over it.
LEMMA FoldInduction ==
  ASSUME NEW c, NEW base, NEW S, IsFiniteSet(S), Picks(S), NEW R, <<{}, base>> \in R,
         \A T \in SUBSET S : \A v :
           T # {} /\ <<T \ {Pick(T)}, v>> \in R => <<T, Op(c, Value(c, Pick(T)), v)>> \in R
  PROVE  <<S, Fold(c, base, S)>> \in R
<1> DEFINE M == {u \in SUBSET S : <<u, Fold(c, base, u)>> \notin R}
<1> SUFFICES ASSUME M # {} PROVE FALSE OBVIOUS
<1>1. PICK T \in M : \A w \in M : w \subseteq T => w = T
  <2>1. M \in SUBSET SUBSET S OBVIOUS
  <2> HIDE DEF M
  <2> QED BY <2>1, Smallest
<1>2. CASE T = {}
  BY <1>1, <1>2, FoldEmpty
<1>3. CASE T # {}
  <2>1. IsFiniteSet(T) /\ Picks(T) BY FS_Subset DEF Picks
  <2>2. /\ Pick(T) \in T
        /\ Fold(c, base, T) = Op(c, Value(c, Pick(T)), Fold(c, base, T \ {Pick(T)}))
    BY <1>3, <2>1, FoldStep
  <2>3. <<T \ {Pick(T)}, Fold(c, base, T \ {Pick(T)})>> \in R BY <1>1, <2>2
  <2> QED BY <1>1, <1>3, <2>2, <2>3
<1> QED BY <1>2, <1>3

\* Three folds over one set stay in a relation that all steps keep.
LEMMA FoldsRelate ==
  ASSUME NEW S, IsFiniteSet(S), Picks(S), NEW R,
         NEW c, NEW a, NEW d, NEW b, NEW e, NEW z, <<a, b, z>> \in R,
         \A x \in S : \A u, v, w :
           <<u, v, w>> \in R =>
             <<Op(c, Value(c, x), u), Op(d, Value(d, x), v), Op(e, Value(e, x), w)>> \in R
  PROVE  <<Fold(c, a, S), Fold(d, b, S), Fold(e, z, S)>> \in R
<1> DEFINE Folds(u) == <<Fold(c, a, u), Fold(d, b, u), Fold(e, z, u)>>
           M == {u \in SUBSET S : Folds(u) \notin R}
<1> SUFFICES ASSUME M # {} PROVE FALSE OBVIOUS
<1>1. PICK T \in M : \A w \in M : w \subseteq T => w = T
  <2>1. M \in SUBSET SUBSET S OBVIOUS
  <2> HIDE DEF M
  <2> QED BY <2>1, Smallest
<1>2. CASE T = {}
  BY <1>1, <1>2, FoldEmpty
<1>3. CASE T # {}
  <2> DEFINE p == Pick(T)
  <2>1. IsFiniteSet(T) /\ Picks(T) BY FS_Subset DEF Picks
  <2>2. /\ p \in T
        /\ Fold(c, a, T) = Op(c, Value(c, p), Fold(c, a, T \ {p}))
        /\ Fold(d, b, T) = Op(d, Value(d, p), Fold(d, b, T \ {p}))
        /\ Fold(e, z, T) = Op(e, Value(e, p), Fold(e, z, T \ {p}))
    BY <1>3, <2>1, FoldStep
  <2>3. Folds(T \ {p}) \in R BY <1>1, <2>2
  <2> HIDE DEF p
  <2> QED BY <1>1, <2>2, <2>3
<1> QED BY <1>2, <1>3
=============================================================================
