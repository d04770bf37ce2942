--------------------------- MODULE BlockPool_proofs ---------------------------
(***************************************************************************)
(* What the operators of BlockPool.tla and ConsensusNode.tla keep of a     *)
(* pool, for every block tree, stake and number of validators: the lemmas  *)
(* that OneNode_proofs.tla and Consensus_proofs.tla rest on.               *)
(***************************************************************************)
EXTENDS ConsensusNode, FiniteSetTheorems, WellFoundedInduction, TLAPS

-----------------------------------------------------------------------------
(* The block tree.                                                         *)

\* What is proved of chains next to the abstract specification, of which only
\* the tree matters for that.
Trees == INSTANCE ChainFinality_proofs WITH Quorum <- {}, votes <- {}, final <- {}

\* Numbers and epochs grow along a chain, which has one block of every number.
LEMMA ChainsAreOrdered == ChainIsOrdered
<1>1. Trees!TreeAssumption
  BY TreeIsAssumed DEF TreeAssumption, Trees!TreeAssumption
<1>2. Trees!QuorumAssumption
  BY DEF Trees!QuorumAssumption
<1>3. Trees!ChainIsOrdered
  BY <1>1, <1>2, Trees!ChainsAreOrdered
<1> QED BY <1>3 DEF ChainIsOrdered, Trees!ChainIsOrdered

\* The constants of the tree have their types, and a chain its ends.
LEMMA Typing ==
  /\ Root \in Block
  /\ \A b \in Block : /\ Parent[b] \in Block /\ Number[b] \in Nat /\ Epoch[b] \in Nat
                      /\ Chain[b] \subseteq Block /\ b \in Chain[b] /\ Root \in Chain[b]
BY TreeIsAssumed, ChainsAreOrdered DEF TreeAssumption, ChainIsOrdered

\* Below a block of a chain, the chain is that of the block.
LEMMA ChainIsLinear ==
  ASSUME NEW b \in Block, NEW a \in Chain[b], NEW c \in Chain[b], Number[a] <= Number[c]
  PROVE  a \in Chain[c]
<1>1. /\ a \in Block /\ c \in Block
      /\ Number[a] \in Nat /\ Number[c] \in Nat /\ Number[Root] \in Nat
  BY Typing
<1>2. Number[Root] <= Number[a]
  BY <1>1, Typing, ChainsAreOrdered DEF ChainIsOrdered
<1>3. PICK d \in Chain[c] : Number[d] = Number[a]
  BY <1>1, <1>2, ChainsAreOrdered DEF ChainIsOrdered
<1>4. d \in Chain[b] /\ d = a
  BY <1>1, <1>3, ChainsAreOrdered DEF ChainIsOrdered
<1> QED BY <1>3, <1>4

\* A block other than the last one of a chain is on the chain of its predecessor.
LEMMA ChainOfParent ==
  ASSUME NEW b \in Block, NEW a \in Chain[b], a # b
  PROVE  /\ b # Root /\ Parent[b] \in Block
         /\ a \in Chain[Parent[b]] /\ Parent[b] \in Chain[b]
         /\ Chain[b] = Chain[Parent[b]] \cup {b}
         /\ Number[b] = Number[Parent[b]] + 1
         /\ Epoch[b] > Epoch[Parent[b]]
         /\ Number[a] <= Number[Parent[b]] /\ Epoch[a] <= Epoch[Parent[b]]
BY Typing, TreeIsAssumed, ChainsAreOrdered DEF TreeAssumption, ChainIsOrdered

\* Numbers and epochs grow along a chain.
LEMMA ChainGrows ==
  ASSUME NEW b \in Block, NEW a \in Chain[b]
  PROVE  /\ a \in Block /\ Chain[a] \subseteq Chain[b]
         /\ Number[a] <= Number[b] /\ Epoch[a] <= Epoch[b]
         /\ Number[a] = Number[b] => a = b
         /\ b \in Chain[a] => a = b
BY Typing, ChainsAreOrdered DEF ChainIsOrdered

-----------------------------------------------------------------------------
(* Sums of stakes, as folds.                                               *)

AnyOf(S) == CHOOSE x \in S : TRUE
Plus(c, x, y) == x + y
StakeOfVote(b, t) == Stake[b][Voter(t)]
StakeOfNode(b, n) == Stake[b][n]

VoteSums == INSTANCE FoldTheorems WITH Op <- Plus, Value <- StakeOfVote, Pick <- AnyOf
NodeSums == INSTANCE FoldTheorems WITH Op <- Plus, Value <- StakeOfNode, Pick <- AnyOf

\* Stakes are natural numbers, those of voters too.
LEMMA StakeTyping ==
  /\ \A b \in Block, n \in Node : Stake[b][n] \in Nat
  /\ \A b \in Block, t \in VoteTx : Voter(t) \in Node /\ StakeOfVote(b, t) \in Nat
BY StakeIsAssumed DEF StakeAssumption, VoteTx, Voter, StakeOfVote

\* The stake of some votes is a fold over the votes ...
LEMMA StakeSumIsFold ==
  ASSUME NEW b, NEW V PROVE StakeSum(b, V) = VoteSums!Fold(b, 0, V)
BY Zenon DEF StakeSum, MapThenSumSet, MapThenFoldSet, VoteSums!Fold, VoteSums!FoldOf,
             VoteSums!IsFold, AnyOf, Plus, StakeOfVote

\* ... and the stake of a block one over the validators.
LEMMA TotalIsFold ==
  ASSUME NEW b PROVE TotalAtStake(b) = NodeSums!Fold(b, 0, Node)
BY Zenon DEF TotalAtStake, MapThenSumSet, MapThenFoldSet, NodeSums!Fold, NodeSums!FoldOf,
             NodeSums!IsFold, AnyOf, Plus, StakeOfNode

\* There are finitely many vote transactions.
LEMMA VotesAreFinite == IsFiniteSet(VoteTx) /\ \A V \in SUBSET VoteTx : IsFiniteSet(V)
BY VoteTxIsAssumed, FS_Product, FS_Subset DEF VoteTx

\* The instances have their own name for IsFiniteSet.
LEMMA SumsOverFinite ==
  \A S : IsFiniteSet(S) => /\ VoteSums!IsFiniteSet(S) /\ VoteSums!Picks(S)
                           /\ NodeSums!IsFiniteSet(S) /\ NodeSums!Picks(S)
BY DEF IsFiniteSet, VoteSums!IsFiniteSet, NodeSums!IsFiniteSet, VoteSums!Picks, NodeSums!Picks, AnyOf

\* The stake of some votes is a number ...
LEMMA StakeSumIsNat ==
  ASSUME NEW b \in Block, NEW V \in SUBSET VoteTx PROVE StakeSum(b, V) \in Nat
<1> DEFINE I == Nat
<1>1. VoteSums!IsFiniteSet(V) /\ VoteSums!Picks(V) /\ 0 \in I
  BY VotesAreFinite, SumsOverFinite
<1>2. VoteSums!Keeps(b, V, I)
  BY StakeTyping DEF Plus, VoteSums!Keeps
<1> HIDE DEF I
<1>3. VoteSums!Fold(b, 0, V) \in I
  BY <1>1, <1>2, VoteSums!FoldKeeps
<1> QED BY <1>3, StakeSumIsFold DEF I

\* ... which is 0 without votes.
LEMMA StakeSumOfNone == ASSUME NEW b PROVE StakeSum(b, {}) = 0
BY StakeSumIsFold, VoteSums!FoldEmpty

\* One more vote is its voter's stake more.
LEMMA StakeSumOfMore ==
  ASSUME NEW b \in Block, NEW V \in SUBSET VoteTx, NEW t \in VoteTx, t \notin V
  PROVE  StakeSum(b, V \cup {t}) = StakeSum(b, V) + Stake[b][Voter(t)]
<1> DEFINE W == V \cup {t}
           I == Nat
<1>1. /\ VoteSums!IsFiniteSet(W) /\ VoteSums!Picks(W) /\ 0 \in I /\ t \in W /\ W \ {t} = V
      /\ W \in SUBSET VoteTx
  BY VotesAreFinite, SumsOverFinite
<1> HIDE DEF W
<1>2. VoteSums!Keeps(b, W, I)
  BY <1>1, StakeTyping DEF Plus, VoteSums!Keeps
<1>3. VoteSums!Commutes(b, W, I)
  BY <1>1, StakeTyping DEF Plus, VoteSums!Commutes
<1> HIDE DEF I
<1>4. VoteSums!Fold(b, 0, W) = Plus(b, StakeOfVote(b, t), VoteSums!Fold(b, 0, W \ {t}))
  BY <1>1, <1>2, <1>3, VoteSums!FoldAnyLast
<1>5. StakeSum(b, W) = StakeOfVote(b, t) + StakeSum(b, V)
  BY <1>1, <1>4, StakeSumIsFold DEF Plus
<1>6. StakeSum(b, V) \in Nat /\ StakeOfVote(b, t) \in Nat
  BY StakeSumIsNat, StakeTyping
<1> QED BY <1>5, <1>6 DEF StakeOfVote, W

\* The stake of all validators is a number.
LEMMA TotalIsNat == ASSUME NEW b \in Block PROVE TotalAtStake(b) \in Nat
<1> DEFINE I == Nat
<1>1. NodeSums!IsFiniteSet(Node) /\ NodeSums!Picks(Node) /\ 0 \in I
  BY VoteTxIsAssumed, SumsOverFinite
<1>2. NodeSums!Keeps(b, Node, I)
  BY StakeTyping DEF Plus, StakeOfNode, NodeSums!Keeps
<1> HIDE DEF I
<1>3. NodeSums!Fold(b, 0, Node) \in I
  BY <1>1, <1>2, NodeSums!FoldKeeps
<1> QED BY <1>3, TotalIsFold DEF I

-----------------------------------------------------------------------------
(* Sorting a finite set by a strict order R.                               *)

IsStrictOrder(R, S) ==
  /\ \A x \in S : <<x, x>> \notin R
  /\ \A x, y, z \in S : <<x, y>> \in R /\ <<y, z>> \in R => <<x, z>> \in R

IsSorting(R, S, s) ==
  /\ s \in [1 .. Cardinality(S) -> S]
  /\ IsInjective(s)
  /\ \A i, j \in DOMAIN s : i < j => <<s[j], s[i]>> \notin R

\* A set of subsets of a finite set has a smallest one.
LEMMA SmallestSubset ==
  ASSUME NEW S, IsFiniteSet(S), NEW M \in SUBSET SUBSET S, M # {}
  PROVE  \E T \in M : \A U \in M : U \subseteq T => U = T
BY SumsOverFinite, VoteSums!Smallest

\* Some element is below no other.
LEMMA MaximalExists ==
  ASSUME NEW R, NEW S, IsFiniteSet(S), S # {}, IsStrictOrder(R, S)
  PROVE  \E m \in S : \A x \in S : <<m, x>> \notin R
<1> DEFINE Above(m) == {x \in S : <<m, x>> \in R}
           M == {Above(m) : m \in S}
<1>1. PICK T \in M : \A U \in M : U \subseteq T => U = T
  <2>1. M \in SUBSET SUBSET S /\ M # {} OBVIOUS
  <2> HIDE DEF M
  <2> QED BY <2>1, SmallestSubset
<1>2. PICK m \in S : T = Above(m)
  BY <1>1
<1>3. ASSUME NEW x \in S, <<m, x>> \in R PROVE FALSE
  <2>1. Above(x) \subseteq Above(m) /\ x \in Above(m) /\ x \notin Above(x)
    BY <1>3 DEF IsStrictOrder
  <2>2. Above(x) \in M OBVIOUS
  <2> QED BY <1>1, <1>2, <2>1, <2>2
<1> QED BY <1>3

\* A finite set can be sorted by a strict order.
LEMMA SortingExists ==
  ASSUME NEW R, NEW S, IsFiniteSet(S), IsStrictOrder(R, S)
  PROVE  \E s : IsSorting(R, S, s)
<1> DEFINE M == {T \in SUBSET S : ~ \E s : IsSorting(R, T, s)}
<1> SUFFICES ASSUME M # {} PROVE FALSE OBVIOUS
<1>1. PICK T \in M : \A U \in M : U \subseteq T => U = T
  <2>1. M \in SUBSET SUBSET S OBVIOUS
  <2> HIDE DEF M
  <2> QED BY <2>1, SmallestSubset
<1>2. IsFiniteSet(T) /\ IsStrictOrder(R, T) /\ T \subseteq S
  BY <1>1, FS_Subset DEF IsStrictOrder
<1>3. T # {}
  <2>1. Cardinality({}) = 0 BY FS_EmptySet
  <2>2. IsSorting(R, {}, [i \in 1 .. 0 |-> i]) BY <2>1 DEF IsSorting, IsInjective
  <2> QED BY <1>1, <2>2
<1>4. PICK m \in T : \A x \in T : <<m, x>> \notin R
  BY <1>2, <1>3, MaximalExists
<1> DEFINE U == T \ {m}
           n == Cardinality(U)
<1>5. IsFiniteSet(U) /\ n \in Nat /\ Cardinality(T) = n + 1
  <2>1. IsFiniteSet(U) /\ n = Cardinality(T) - 1 BY <1>2, FS_RemoveElement
  <2>2. n \in Nat /\ Cardinality(T) \in Nat BY <2>1, <1>2, FS_CardinalityType
  <2> HIDE DEF n
  <2> QED BY <2>1, <2>2
<1>6. PICK s : IsSorting(R, U, s)
  BY <1>1
<1> HIDE DEF n, M
<1> DEFINE r == [i \in 1 .. n + 1 |-> IF i = n + 1 THEN m ELSE s[i]]
<1>7. s \in [1 .. n -> U]
  BY <1>6 DEF IsSorting, n
<1>8. r \in [1 .. Cardinality(T) -> T]
  BY <1>5, <1>7
<1>r. /\ DOMAIN r = 1 .. n + 1 /\ r[n + 1] = m
      /\ \A i \in 1 .. n : r[i] = s[i] /\ s[i] \in U
      /\ \A i \in 1 .. n + 1 : i = n + 1 \/ i \in 1 .. n
  BY <1>5, <1>7
<1> HIDE DEF r
<1>9. IsInjective(r)
  <2>1. \A i, j \in 1 .. n : s[i] = s[j] => i = j BY <1>6, <1>7 DEF IsInjective, IsSorting
  <2>2. m \notin U OBVIOUS
  <2> QED BY <1>r, <2>1, <2>2 DEF IsInjective
<1>10. ASSUME NEW i \in DOMAIN r, NEW j \in DOMAIN r, i < j PROVE <<r[j], r[i]>> \notin R
  <2>1. i \in 1 .. n BY <1>5, <1>r, <1>10
  <2>2. CASE j = n + 1 BY <1>4, <1>r, <2>1, <2>2
  <2>3. CASE j \in 1 .. n BY <1>6, <1>7, <1>r, <1>10, <2>1, <2>3 DEF IsSorting
  <2> QED BY <1>r, <2>2, <2>3
<1>11. IsSorting(R, T, r)
  BY <1>8, <1>9, <1>10 DEF IsSorting
<1> QED BY <1>1, <1>11 DEF M

\* A sorting is a sequence of all elements of the set.
LEMMA SortingIsComplete ==
  ASSUME NEW R, NEW S, IsFiniteSet(S), NEW s, IsSorting(R, S, s)
  PROVE  s \in Seq(S) /\ ToSet(s) = S
<1> DEFINE n == Cardinality(S)
<1>1. n \in Nat BY FS_CardinalityType
<1>2. s \in [1 .. n -> S] /\ s \in Injection(1 .. n, S)
  BY DEF IsSorting, Injection, IsInjective
<1>3. Cardinality(1 .. n) = n
  BY <1>1, FS_Interval
<1>4. s \in Surjection(1 .. n, S)
  BY <1>2, <1>3, FS_Injection
<1> HIDE DEF n
<1> QED BY <1>1, <1>2, <1>4 DEF ToSet, Surjection

-----------------------------------------------------------------------------
(* The order of the depth-first search, and the longest chains.            *)

\* Where the chains of a and b part, and where those of b and c do, one of the
\* two partings is below the other or they are the same: either way a is before c.
LEMMA BeforeIsTransitive ==
  ASSUME NEW p \in Pool, \A b \in Block : IsInjective(p.children[b]),
         NEW a \in Block, NEW b \in Block, NEW c \in Block, Before(p, a, b), Before(p, b, c)
  PROVE  Before(p, a, c)
<1> DEFINE kids(x) == p.children[Parent[x]]
<1>1. PICK x \in Chain[a] \ Chain[b], y \in Chain[b] \ Chain[a] :
        /\ Parent[x] = Parent[y]
        /\ \E i, j \in DOMAIN kids(x) : i < j /\ kids(x)[i] = x /\ kids(x)[j] = y
  BY DEF Before
<1>2. PICK u \in Chain[b] \ Chain[c], v \in Chain[c] \ Chain[b] :
        /\ Parent[u] = Parent[v]
        /\ \E i, j \in DOMAIN kids(u) : i < j /\ kids(u)[i] = u /\ kids(u)[j] = v
  BY DEF Before
<1>3. \A z \in {x, y, u, v} : /\ z \in Block /\ z # Root /\ Number[z] = Number[Parent[z]] + 1
                              /\ Parent[z] \in Block /\ Number[Parent[z]] \in Nat
                              /\ kids(z) \in Seq(Block) /\ IsInjective(kids(z))
  <2>1. \A z \in {x, y, u, v} : z \in Block /\ z # Root BY <1>1, <1>2, Typing
  <2>2. \A z \in {x, y, u, v} : /\ Number[z] = Number[Parent[z]] + 1
                                /\ Parent[z] \in Block /\ Number[Parent[z]] \in Nat
    BY <2>1, Typing, TreeIsAssumed DEF TreeAssumption
  <2>3. \A z \in Block : p.children[z] \in Seq(Block) BY DEF Pool
  <2> QED BY <2>1, <2>2, <2>3
<1> DEFINE parts(g, h) == /\ g \in Chain[a] \ Chain[c] /\ h \in Chain[c] \ Chain[a]
                          /\ Parent[g] = Parent[h]
                          /\ \E i, j \in DOMAIN kids(g) : i < j /\ kids(g)[i] = g /\ kids(g)[j] = h
<1> SUFFICES \E g, h : parts(g, h)
  BY DEF Before
<1>4. CASE Number[y] < Number[u]
  <2>1. y \in Chain[u] /\ y # u BY <1>1, <1>2, <1>3, <1>4, ChainIsLinear
  <2>2. y \in Chain[Parent[u]] BY <1>3, <2>1, ChainOfParent
  <2>3. y \in Chain[c]
    BY <1>2, <1>3, <2>2, ChainGrows, TreeIsAssumed DEF TreeAssumption
  <2>4. x \notin Chain[c]
    BY <1>1, <1>3, <2>3, ChainsAreOrdered DEF ChainIsOrdered
  <2> QED BY <1>1, <2>3, <2>4
<1>5. CASE Number[u] < Number[y]
  <2>1. u \in Chain[y] /\ u # y BY <1>1, <1>2, <1>3, <1>5, ChainIsLinear
  <2>2. u \in Chain[Parent[y]] BY <1>3, <2>1, ChainOfParent
  <2>3. u \in Chain[a]
    BY <1>1, <1>3, <2>2, ChainGrows, TreeIsAssumed DEF TreeAssumption
  <2>4. v \notin Chain[a]
    BY <1>2, <1>3, <2>3, ChainsAreOrdered DEF ChainIsOrdered
  <2> QED BY <1>2, <2>3, <2>4
<1>6. CASE Number[u] = Number[y]
  <2>1. u = y BY <1>1, <1>2, <1>6, ChainsAreOrdered DEF ChainIsOrdered
  <2>2. PICK i, j, k \in DOMAIN kids(x) : /\ i < j /\ j < k
                                        /\ kids(x)[i] = x /\ kids(x)[j] = y /\ kids(x)[k] = v
    <3>1. PICK i, j \in DOMAIN kids(x) : i < j /\ kids(x)[i] = x /\ kids(x)[j] = y BY <1>1
    <3>2. PICK l, k \in DOMAIN kids(x) : l < k /\ kids(x)[l] = y /\ kids(x)[k] = v
      BY <1>1, <1>2, <2>1
    <3>3. l = j BY <1>3, <3>1, <3>2 DEF IsInjective
    <3> QED BY <3>1, <3>2, <3>3
  <2>3. DOMAIN kids(x) \subseteq Nat BY <1>3
  <2>4. x # v /\ i < k
    <3>1. i \in Nat /\ j \in Nat /\ k \in Nat BY <2>3
    <3>2. i < k BY <2>2, <3>1
    <3>3. \A g, h \in DOMAIN kids(x) : kids(x)[g] = kids(x)[h] => g = h BY <1>3 DEF IsInjective
    <3> QED BY <2>2, <3>1, <3>2, <3>3
  <2>5. /\ x \in Block /\ v \in Block /\ Number[x] = Number[v] /\ Parent[x] = Parent[v]
    BY <1>1, <1>2, <1>3, <2>1
  <2>6. v \notin Chain[a] /\ x \notin Chain[c]
    BY <1>1, <1>2, <2>4, <2>5, ChainsAreOrdered DEF ChainIsOrdered
  <2> QED BY <1>1, <1>2, <2>2, <2>4, <2>5, <2>6
<1>7. Number[u] \in Nat /\ Number[y] \in Nat BY <1>3, Typing
<1> QED BY <1>4, <1>5, <1>6, <1>7

\* longestNotarizedChainTips and the finalizable chain hold the last blocks of the
\* longest chains, whatever the order.
LEMMA LongestExists ==
  ASSUME NEW S \in SUBSET Block, IsFiniteSet(S), S # {} PROVE Longest(S) # {}
<1> DEFINE R == {ss \in S \X S : Number[ss[1]] < Number[ss[2]]}
<1>1. \A x \in S : Number[x] \in Nat BY Typing
<1>2. IsStrictOrder(R, S) BY <1>1 DEF IsStrictOrder
<1>3. \E m \in S : \A x \in S : <<m, x>> \notin R
  <2> HIDE DEF R
  <2> QED BY <1>2, MaximalExists
<1>4. PICK m \in S : \A x \in S : <<m, x>> \notin R BY <1>3
<1>5. ASSUME NEW x \in S PROVE Number[x] <= Number[m]
  <2>1. Number[x] \in Nat /\ Number[m] \in Nat /\ ~(Number[m] < Number[x]) BY <1>1, <1>4
  <2> QED BY <2>1
<1> QED BY <1>5 DEF Longest

\* The tips that dfsLongest returns are the longest ones, in some order.
LEMMA LongestIsWhole ==
  ASSUME NEW p \in Pool, \A b \in Block : IsInjective(p.children[b]),
         NEW S \in SUBSET Block, IsFiniteSet(S)
  PROVE  /\ LongestOf(p, S) \in Seq(Block)
         /\ ToSet(LongestOf(p, S)) = Longest(S)
         /\ LongestOf(p, S) # <<>> => Head(LongestOf(p, S)) \in Longest(S)
<1> DEFINE R == {e \in Block \X Block : Before(p, e[1], e[2])}
           top == Longest(S)
<1>1. top \subseteq Block /\ IsFiniteSet(top)
  BY FS_Subset DEF Longest
<1>2. IsStrictOrder(R, top)
  <2>1. \A x \in top : <<x, x>> \notin R BY DEF Before
  <2> QED BY <1>1, <2>1, BeforeIsTransitive DEF IsStrictOrder
<1>3. LongestOf(p, S) = CHOOSE s \in [1 .. Cardinality(top) -> top] :
                          IsInjective(s) /\ \A i, j \in DOMAIN s : i < j => ~Before(p, s[j], s[i])
  BY DEF LongestOf
<1>4. \A s : IsSorting(R, top, s) <=>
               /\ s \in [1 .. Cardinality(top) -> top]
               /\ IsInjective(s) /\ \A i, j \in DOMAIN s : i < j => ~Before(p, s[j], s[i])
  <2> SUFFICES ASSUME NEW s, s \in [1 .. Cardinality(top) -> top]
               PROVE  (\A i, j \in DOMAIN s : i < j => <<s[j], s[i]>> \notin R)
                      <=> \A i, j \in DOMAIN s : i < j => ~Before(p, s[j], s[i])
    BY DEF IsSorting
  <2>1. \A i, j \in DOMAIN s : <<s[j], s[i]>> \in R <=> Before(p, s[j], s[i])
    BY <1>1
  <2> QED BY <2>1
<1>5. IsSorting(R, top, LongestOf(p, S))
  BY <1>1, <1>2, <1>3, <1>4, SortingExists
<1> HIDE DEF top, R
<1>6. LongestOf(p, S) \in Seq(top) /\ ToSet(LongestOf(p, S)) = top
  BY <1>1, <1>5, SortingIsComplete
<1>7. LongestOf(p, S) # <<>> => Head(LongestOf(p, S)) \in top
  BY <1>6
<1>8. LongestOf(p, S) \in Seq(Block)
  BY <1>1, <1>6
<1> QED BY <1>6, <1>7, <1>8 DEF top

-----------------------------------------------------------------------------
(* The notarized tree.                                                     *)

\* The block that decides about a block above the last final one is its predecessor,
\* and that is notarized.
LEMMA PrevIsParent ==
  ASSUME NEW p \in Pool, p.notarized \subseteq p.blocks, p.last \in p.notarized,
         NEW b \in Block, p.last \in Chain[b], b # p.last,
         Chain[b] \ (Chain[p.last] \cup {b}) \subseteq p.notarized
  PROVE  /\ b # Root /\ Parent[b] \in p.notarized /\ p.last \in Chain[Parent[b]]
         /\ Number[b] > 0 /\ PrevBlocks(p, b) = {Parent[b]}
<1>1. p.last \in Block /\ Number[p.last] \in Nat
  BY Typing DEF Pool
<1>2. /\ b # Root /\ Parent[b] \in Block /\ p.last \in Chain[Parent[b]] /\ Parent[b] \in Chain[b]
      /\ Number[b] = Number[Parent[b]] + 1
  BY <1>1, ChainOfParent
<1>3. Parent[b] \in p.notarized
  <2>1. CASE Parent[b] \in Chain[p.last]
    BY <1>1, <1>2, <2>1, ChainGrows
  <2>2. Parent[b] # b BY <1>2, Typing
  <2> QED BY <1>2, <2>1, <2>2
<1>4. Number[Parent[b]] \in Nat
  BY <1>2, Typing
<1>5. ASSUME Number[p.last] + 1 = Number[b] PROVE p.last = Parent[b]
  <2>1. Number[p.last] = Number[Parent[b]] BY <1>1, <1>2, <1>4, <1>5
  <2> QED BY <1>2, <2>1, ChainGrows
<1> QED BY <1>2, <1>3, <1>4, <1>5 DEF PrevBlocks

\* A block that decides about another one by number is below the last final block, or
\* its predecessor.
LEMMA DecidersAre ==
  ASSUME NEW p \in Pool, NEW b \in Block \ {Root}
  PROVE  /\ Deciders(p, b) \subseteq Block /\ PrevBlocks(p, b) \subseteq Deciders(p, b)
         /\ \A d \in Deciders(p, b) : Number[d] + 1 = Number[b]
<1>1. /\ p.last \in Chain[p.last] /\ Chain[p.last] \subseteq Block /\ Parent[b] \in Block
      /\ Number[Parent[b]] + 1 = Number[b]
  BY Typing, TreeIsAssumed DEF TreeAssumption, Pool
<1> QED BY <1>1 DEF Deciders, PrevBlocks

\* What the searches reach is every notarized block above the last final one.
LEMMA AboveIsNotarized ==
  ASSUME NEW p \in Pool, NEW K, PoolIsNested(p, K), PoolIsLinked(p, K),
         p.last \in p.notarized,
         \A b \in p.blocks : p.last \in Chain[b] =>
           Chain[b] \ (Chain[p.last] \cup {b}) \subseteq p.notarized
  PROVE  NotarizedAbove(p) = {b \in p.notarized : p.last \in Chain[b]}
<1>1. p.last \in Block /\ p.notarized \subseteq p.blocks /\ p.blocks \subseteq Block
  BY DEF Pool, PoolIsNested
<1>2. ASSUME NEW b \in NotarizedAbove(p) PROVE b \in p.notarized
  <2>1. b \in Block /\ p.last \in Chain[b] BY <1>2 DEF NotarizedAbove
  <2>2. CASE b \in Chain[p.last]
    BY <1>1, <2>1, <2>2, ChainGrows
  <2>3. CASE b \notin Chain[p.last]
    BY <1>2, <2>1, <2>3, Typing DEF NotarizedAbove
  <2> QED BY <2>2, <2>3
<1>3. ASSUME NEW b \in p.notarized, p.last \in Chain[b],
             NEW x \in Chain[b] \ Chain[p.last]
      PROVE  x \in p.notarized /\ Contains(p.children[Parent[x]], x)
  <2>1. x \in p.notarized /\ x \in Block BY <1>1, <1>3, Typing
  <2>2. p.last \in Chain[x] /\ x # p.last
    <3>1. Number[x] \in Nat /\ Number[p.last] \in Nat BY <1>1, <2>1, Typing
    <3>2. ~(Number[x] <= Number[p.last]) BY <1>1, <1>3, ChainIsLinear
    <3>3. p.last \in Chain[x] BY <1>1, <1>3, <3>1, <3>2, ChainIsLinear
    <3> QED BY <1>1, <1>3, <3>3, Typing
  <2>3. x # Root /\ Parent[x] \in p.notarized
    BY <1>1, <2>1, <2>2, PrevIsParent
  <2> QED BY <1>1, <2>1, <2>3 DEF PoolIsLinked
<1>4. NotarizedAbove(p) \subseteq {b \in p.notarized : p.last \in Chain[b]}
  BY <1>2 DEF NotarizedAbove
<1>5. {b \in p.notarized : p.last \in Chain[b]} \subseteq NotarizedAbove(p)
  BY <1>1, <1>3 DEF NotarizedAbove
<1> QED BY <1>4, <1>5

-----------------------------------------------------------------------------
(* Notarization.                                                           *)

\* The first of the cached tips is in the pool, so they are refreshed.
HasTip(p) == p.tips # <<>> /\ Head(p.tips) \in p.blocks

\* A pool but for the tips, with T as its tips.
LEMMA NewTipsKeep ==
  ASSUME NEW p \in Pool, NEW K, PoolIsNested(p, K), PoolIsCounted(p), PoolIsLinked(p, K),
         PoolIsNotarized(p),
         NEW T \in Seq(Block), ToSet(T) = Longest(NotarizedAbove(p)),
         T # <<>> => Head(T) \in Longest(NotarizedAbove(p)),
         NEW q, q = [p EXCEPT !.tips = T]
  PROVE  PoolIsWhole(q, K) /\ HasTip(q)
<1>1. /\ NotarizedAbove(p) \subseteq p.notarized /\ NotarizedAbove(p) \in SUBSET Block
      /\ IsFiniteSet(NotarizedAbove(p)) /\ p.notarized \subseteq p.blocks
  <2>1. NotarizedAbove(p) = {b \in p.notarized : p.last \in Chain[b]}
    BY AboveIsNotarized DEF PoolIsNotarized
  <2>2. p.notarized \subseteq p.blocks /\ p.blocks \subseteq Block /\ IsFiniteSet(p.blocks)
    BY DEF PoolIsNested, Pool
  <2> QED BY <2>1, <2>2, FS_Subset
<1>2. ToSet(T) \subseteq p.notarized
  BY <1>1 DEF Longest
<1>3. /\ q \in Pool /\ q.tips = T /\ q.last = p.last /\ q.state = p.state
      /\ q.blocks = p.blocks /\ q.proposals = p.proposals /\ q.votes = p.votes
      /\ q.tallied = p.tallied /\ q.notarized = p.notarized /\ q.children = p.children
      /\ q.atEpoch = p.atEpoch /\ q.listed = p.listed /\ q.dbs = p.dbs
      /\ q.invalid = p.invalid
  BY DEF Pool
<1>4. PoolIsNested(q, K) BY <1>1, <1>2, <1>3 DEF PoolIsNested
<1>5. PoolIsCounted(q) BY <1>3 DEF PoolIsCounted
<1>6. PoolIsLinked(q, K) BY <1>3 DEF PoolIsLinked
<1>7. PoolIsNotarized(q) BY <1>3 DEF PoolIsNotarized, Deciders
<1>8. NotarizedAbove(q) = NotarizedAbove(p) BY <1>3 DEF NotarizedAbove
<1>9. PoolHasTips(q) BY <1>2, <1>3, <1>8 DEF PoolHasTips
<1>10. HasTip(q)
  <2>1. p.last \in NotarizedAbove(p)
    BY AboveIsNotarized, Typing DEF PoolIsNotarized, Pool
  <2>2. Longest(NotarizedAbove(p)) # {} BY <1>1, <2>1, LongestExists
  <2>3. T # <<>> BY <2>2 DEF ToSet
  <2> QED BY <1>1, <1>3, <2>3 DEF HasTip, Longest
<1> QED BY <1>3, <1>4, <1>5, <1>6, <1>7, <1>9, <1>10 DEF PoolIsWhole

\* Only the cached tips are refreshed.
LEMMA UpdateLongestKeeps ==
  ASSUME NEW p \in Pool, NEW K, PoolIsNested(p, K), PoolIsCounted(p), PoolIsLinked(p, K),
         PoolIsNotarized(p), ToSet(p.tips) \cap p.blocks \subseteq p.notarized
  PROVE  /\ PoolIsWhole(UpdateLongestNotarizedChains(p), K)
         /\ UpdateLongestNotarizedChains(p)
              = [p EXCEPT !.tips = UpdateLongestNotarizedChains(p).tips]
         /\ HasTip(p) => HasTip(UpdateLongestNotarizedChains(p))
<1> DEFINE q == UpdateLongestNotarizedChains(p)
<1>1. CASE p.tips # <<>> /\ Head(p.tips) \notin p.blocks
  <2>1. q = p BY <1>1 DEF UpdateLongestNotarizedChains
  <2>2. PoolHasTips(p) BY <1>1 DEF PoolHasTips
  <2>3. p = [p EXCEPT !.tips = p.tips] BY DEF Pool
  <2> QED BY <2>1, <2>2, <2>3 DEF PoolIsWhole, HasTip
<1>2. CASE ~(p.tips # <<>> /\ Head(p.tips) \notin p.blocks)
  <2> DEFINE new == LongestOf(p, NotarizedAbove(p))
  <2>1. q = [p EXCEPT !.tips = new]
    BY <1>2 DEF UpdateLongestNotarizedChains, LongestNotarizedChainTips, PoolIsNotarized
  <2>2. NotarizedAbove(p) \in SUBSET Block /\ IsFiniteSet(NotarizedAbove(p))
    <3>1. NotarizedAbove(p) = {b \in p.notarized : p.last \in Chain[b]}
      BY AboveIsNotarized DEF PoolIsNotarized
    <3>2. p.notarized \subseteq p.blocks /\ p.blocks \subseteq Block /\ IsFiniteSet(p.blocks)
      BY DEF PoolIsNested, Pool
    <3> QED BY <3>1, <3>2, FS_Subset
  <2>3. /\ new \in Seq(Block) /\ ToSet(new) = Longest(NotarizedAbove(p))
        /\ new # <<>> => Head(new) \in Longest(NotarizedAbove(p))
    <3>1. \A b \in Block : IsInjective(p.children[b]) BY DEF PoolIsLinked
    <3> QED BY <2>2, <3>1, LongestIsWhole
  <2> HIDE DEF new, q
  <2>4. PoolIsWhole(q, K) /\ HasTip(q) BY <2>1, <2>3, NewTipsKeep
  <2>5. q.tips = new BY <2>1 DEF Pool
  <2> QED BY <2>1, <2>4, <2>5 DEF q
<1> QED BY <1>1, <1>2

\* What a pool is before the tally of b is looked at.
PoolIsWholeBut(p, K, b) ==
  /\ p \in Pool /\ PoolIsNested(p, K) /\ PoolIsCounted(p) /\ PoolIsLinked(p, K)
  /\ p.last \in p.notarized
  /\ p.state = p.last
  /\ \A c \in p.notarized \ {Root} :
       \E d \in Deciders(p, c) : IsMajority(p.tallied[c], TotalAtStake(d))
  /\ \A c \in p.blocks : p.last \in Chain[c] =>
       /\ Chain[c] \ (Chain[p.last] \cup {c}) \subseteq p.notarized
       /\ c # b /\ c \notin p.notarized => ~IsMajority(p.tallied[c], TotalAtStake(Parent[c]))
  /\ PoolHasTips(p)

\* Only the notarized blocks and the tips change, and they are right again.
LEMMA TryUpdateKeeps ==
  ASSUME NEW p, NEW K, NEW b \in Block, PoolIsWholeBut(p, K, b)
  PROVE  /\ PoolIsWhole(TryUpdateNotarized(p, b), K)
         /\ \E N, T : /\ TryUpdateNotarized(p, b) = [p EXCEPT !.notarized = N, !.tips = T]
                      /\ N = p.notarized \/ (N = p.notarized \cup {b} /\ NotarizedNow(p, b))
         /\ HasTip(p) => HasTip(TryUpdateNotarized(p, b))
<1> USE DEF PoolIsWholeBut
<1>0. /\ p \in Pool /\ p.last \in Block /\ p.notarized \subseteq p.blocks
      /\ p.blocks \in SUBSET Block
  BY DEF Pool, PoolIsNested
<1>1. CASE ~NotarizedNow(p, b)
  <2>1. TryUpdateNotarized(p, b) = p BY <1>1 DEF TryUpdateNotarized
  <2>2. ASSUME b \in p.blocks, p.last \in Chain[b], b \notin p.notarized
        PROVE  ~IsMajority(p.tallied[b], TotalAtStake(Parent[b]))
    <3>1. PrevBlocks(p, b) = {Parent[b]}
      BY <1>0, <2>2, PrevIsParent
    <3> QED BY <1>1, <2>2, <3>1 DEF NotarizedNow
  <2>3. PoolIsNotarized(p) BY <2>2 DEF PoolIsNotarized
  <2>4. p = [p EXCEPT !.notarized = p.notarized, !.tips = p.tips] BY DEF Pool
  <2> QED BY <2>1, <2>3, <2>4 DEF PoolIsWhole
<1>2. CASE NotarizedNow(p, b)
  <2> DEFINE q == [p EXCEPT !.notarized = @ \cup {b}]
  <2>1. TryUpdateNotarized(p, b) = UpdateLongestNotarizedChains(q)
    BY <1>2 DEF TryUpdateNotarized
  <2>2. b \in p.blocks BY <1>2 DEF NotarizedNow
  <2>3. /\ q \in Pool /\ q.tips = p.tips /\ q.last = p.last /\ q.state = p.state
        /\ q.blocks = p.blocks /\ q.proposals = p.proposals /\ q.votes = p.votes
        /\ q.tallied = p.tallied /\ q.notarized = p.notarized \cup {b}
        /\ q.children = p.children /\ q.atEpoch = p.atEpoch /\ q.listed = p.listed
        /\ q.dbs = p.dbs /\ q.invalid = p.invalid
    BY <1>0 DEF Pool
  <2> HIDE DEF q
  <2>4. PoolIsNested(q, K) BY <2>2, <2>3 DEF PoolIsNested
  <2>5. PoolIsCounted(q) BY <2>3 DEF PoolIsCounted
  <2>6. PoolIsLinked(q, K) BY <2>3 DEF PoolIsLinked
  <2>m. ASSUME b # Root
        PROVE  \E d \in Deciders(p, b) : IsMajority(p.tallied[b], TotalAtStake(d))
    <3>1. Number[b] # 0
      BY <2>m, Typing, TreeIsAssumed DEF TreeAssumption
    <3> QED BY <1>0, <1>2, <2>m, <3>1, DecidersAre DEF NotarizedNow
  <2>7. PoolIsNotarized(q) BY <2>3, <2>m DEF PoolIsNotarized, Deciders
  <2>8. ToSet(q.tips) \cap q.blocks \subseteq q.notarized BY <2>3 DEF PoolHasTips
  <2> DEFINE r == UpdateLongestNotarizedChains(q)
  <2>9. PoolIsWhole(r, K) /\ r = [q EXCEPT !.tips = r.tips] /\ (HasTip(q) => HasTip(r))
    BY <2>3, <2>4, <2>5, <2>6, <2>7, <2>8, UpdateLongestKeeps
  <2> HIDE DEF r
  <2>10. r = [p EXCEPT !.notarized = p.notarized \cup {b}, !.tips = r.tips]
    BY <2>9 DEF q
  <2>11. HasTip(p) => HasTip(q) BY <2>3 DEF HasTip
  <2> QED BY <1>2, <2>1, <2>9, <2>10, <2>11 DEF r
<1> QED BY <1>1, <1>2

(***************************************************************************)
(* What the votes V for b, and b's proposal transaction, may change: q is  *)
(* p with more votes for b, which may notarize b.                          *)
(***************************************************************************)
HasMoreVotes(p, q, b, V) ==
  /\ q.last = p.last /\ q.state = p.state /\ q.blocks = p.blocks /\ q.dbs = p.dbs
  /\ q.children = p.children /\ q.atEpoch = p.atEpoch /\ q.invalid = p.invalid
  /\ q.against = p.against /\ q.highest = p.highest /\ p.listed \subseteq q.listed
  /\ p.proposals \subseteq q.proposals
  /\ p.notarized \subseteq q.notarized /\ q.notarized \subseteq p.notarized \cup {b}
  /\ \A c \in Block \ {b} : q.votes[c] = p.votes[c]
  /\ p.votes[b] \subseteq q.votes[b] /\ q.votes[b] \subseteq p.votes[b] \cup V
  /\ HasTip(p) => HasTip(q)

\* Votes for a block that are added one after the other.
LEMMA MoreVotesAgain ==
  ASSUME NEW p, NEW q, NEW r, NEW b, NEW V,
         HasMoreVotes(p, q, b, V), HasMoreVotes(q, r, b, V)
  PROVE  HasMoreVotes(p, r, b, V)
BY DEF HasMoreVotes

\* Votes for b, and its proposal transaction, may enter the pool: it is there, or it
\* is not above the last block.
HasPlace(p, b) == b \in p.blocks \/ Number[b] <= Number[p.last]

\* addSeenVote of a vote for a block keeps the pool whole and adds that vote.
LEMMA AddVoteForKeeps ==
  ASSUME NEW p, NEW K, PoolIsWhole(p, K), NEW b \in Block, HasPlace(p, b), NEW t \in VoteTx
  PROVE  /\ PoolIsWhole(AddVoteFor(p, b, t), K)
         /\ HasMoreVotes(p, AddVoteFor(p, b, t), b, {t})
         /\ t \in AddVoteFor(p, b, t).votes[b]
<1> DEFINE q == [p EXCEPT !.listed = @ \cup {b}, !.votes[b] = @ \cup {t}]
<1>1. /\ p \in Pool /\ p.blocks \in SUBSET Block /\ p.votes \in [Block -> SUBSET VoteTx]
      /\ p.tallied \in [Block -> Nat]
      /\ p.tallied[b] = IF b \in p.blocks THEN StakeSum(b, p.votes[b]) ELSE 0
  BY DEF PoolIsWhole, PoolIsCounted, Pool
<1>2. Stake[b][Voter(t)] \in Nat
  BY <1>1, StakeTyping
<1>3. /\ q \in Pool /\ q.tips = p.tips /\ q.last = p.last /\ q.state = p.state
      /\ q.blocks = p.blocks /\ q.proposals = p.proposals
      /\ q.votes = [p.votes EXCEPT ![b] = @ \cup {t}]
      /\ q.tallied = p.tallied /\ q.notarized = p.notarized
      /\ q.children = p.children /\ q.atEpoch = p.atEpoch /\ q.listed = p.listed \cup {b}
      /\ q.dbs = p.dbs /\ q.invalid = p.invalid /\ q.against = p.against
      /\ q.highest = p.highest
  <2>1. [p.votes EXCEPT ![b] = @ \cup {t}] \in [Block -> SUBSET VoteTx] BY <1>1
  <2> QED BY <1>1, <2>1 DEF Pool
<1>4. q.votes[b] = p.votes[b] \cup {t} /\ \A c \in Block \ {b} : q.votes[c] = p.votes[c]
  BY <1>1, <1>3
<1> HIDE DEF q
<1>5. PoolIsNested(q, K)
  <2>1. ASSUME NEW c \in Block \ q.blocks, c \in q.proposals \/ q.votes[c] # {}
        PROVE  c \in q.listed /\ Number[c] <= Number[q.last]
    BY <1>3, <1>4, <2>1 DEF PoolIsNested, PoolIsWhole, HasPlace
  <2>2. q.blocks \subseteq q.listed BY <1>3 DEF PoolIsNested, PoolIsWhole
  <2> QED BY <1>1, <1>3, <2>1, <2>2 DEF PoolIsNested, PoolIsWhole
<1>6. PoolIsLinked(q, K)
  BY <1>3 DEF PoolIsLinked, PoolIsWhole
<1>7. PoolHasTips(q)
  <2>1. NotarizedAbove(q) = NotarizedAbove(p) BY <1>3 DEF NotarizedAbove
  <2> QED BY <1>3, <2>1 DEF PoolHasTips, PoolIsWhole
<1>8. HasMoreVotes(p, q, b, {t})
  BY <1>1, <1>3, <1>4 DEF HasMoreVotes, HasTip
<1>10. CASE t \in p.votes[b] \/ b \notin p.blocks \/ Stake[b][Voter(t)] = 0
  <2>1. AddVoteFor(p, b, t) = q BY <1>10 DEF AddVoteFor, q
  <2>2. b \in p.blocks => StakeSum(b, q.votes[b]) = StakeSum(b, p.votes[b])
    <3>1. CASE t \in p.votes[b]
      <4>1. q.votes[b] = p.votes[b] BY <1>4, <3>1
      <4> QED BY <4>1
    <3>2. CASE t \notin p.votes[b] /\ Stake[b][Voter(t)] = 0
      <4>1. StakeSum(b, p.votes[b]) \in Nat BY <1>1, StakeSumIsNat
      <4>2. StakeSum(b, p.votes[b] \cup {t}) = StakeSum(b, p.votes[b]) + Stake[b][Voter(t)]
        BY <1>1, <3>2, StakeSumOfMore
      <4> QED BY <1>4, <3>2, <4>1, <4>2
    <3> QED BY <1>10, <3>1, <3>2
  <2>3. PoolIsCounted(q)
    BY <1>1, <1>3, <1>4, <2>2 DEF PoolIsCounted, PoolIsWhole
  <2>4. PoolIsNotarized(q) BY <1>3 DEF PoolIsNotarized, PoolIsWhole, Deciders
  <2> QED BY <1>3, <1>4, <1>5, <1>6, <1>7, <1>8, <2>1, <2>3, <2>4 DEF PoolIsWhole
<1>11. CASE ~(t \in p.votes[b] \/ b \notin p.blocks \/ Stake[b][Voter(t)] = 0)
  <2> DEFINE r == [q EXCEPT !.tallied[b] = @ + Stake[b][Voter(t)]]
  <2>1. AddVoteFor(p, b, t) = TryUpdateNotarized(r, b) BY <1>11 DEF AddVoteFor, q
  <2>2. /\ r \in Pool /\ r.tips = q.tips /\ r.last = q.last /\ r.state = q.state
        /\ r.blocks = q.blocks /\ r.proposals = q.proposals /\ r.votes = q.votes
        /\ r.tallied = [p.tallied EXCEPT ![b] = @ + Stake[b][Voter(t)]]
        /\ r.notarized = q.notarized
        /\ r.children = q.children /\ r.atEpoch = q.atEpoch /\ r.listed = q.listed
        /\ r.dbs = q.dbs /\ r.invalid = q.invalid /\ r.against = q.against
        /\ r.highest = q.highest
    <3>1. [p.tallied EXCEPT ![b] = @ + Stake[b][Voter(t)]] \in [Block -> Nat] BY <1>1, <1>2
    <3> QED BY <1>1, <1>3, <3>1 DEF Pool
  <2>3. r.tallied[b] = p.tallied[b] + Stake[b][Voter(t)]
        /\ \A c \in Block \ {b} : r.tallied[c] = p.tallied[c]
    BY <1>1, <2>2
  <2> HIDE DEF r
  <2>4. PoolIsWholeBut(r, K, b)
    <3>1. PoolIsNested(r, K) BY <1>5, <2>2 DEF PoolIsNested
    <3>2. PoolIsLinked(r, K) BY <1>6, <2>2 DEF PoolIsLinked
    <3>3. PoolHasTips(r)
      <4>1. NotarizedAbove(r) = NotarizedAbove(q) BY <2>2 DEF NotarizedAbove
      <4> QED BY <1>7, <2>2, <4>1 DEF PoolHasTips
    <3>4. PoolIsCounted(r)
      <4>1. r.tallied[b] = StakeSum(b, r.votes[b])
        BY <1>1, <1>4, <1>11, <2>2, <2>3, StakeSumOfMore
      <4>2. \A c \in Block \ {b} :
              r.tallied[c] = IF c \in r.blocks THEN StakeSum(c, r.votes[c]) ELSE 0
        BY <1>3, <1>4, <2>2, <2>3 DEF PoolIsCounted, PoolIsWhole
      <4> QED BY <1>3, <1>11, <2>2, <4>1, <4>2 DEF PoolIsCounted
    <3>5. \A c \in r.notarized \ {Root} :
            \E d \in Deciders(r, c) : IsMajority(r.tallied[c], TotalAtStake(d))
      <4>1. ASSUME NEW c \in r.notarized \ {Root}
            PROVE  \E d \in Deciders(r, c) : IsMajority(r.tallied[c], TotalAtStake(d))
        <5>1. c \in Block BY <1>1, <2>2, <4>1 DEF Pool
        <5>2. PICK d \in Deciders(p, c) : IsMajority(p.tallied[c], TotalAtStake(d))
          BY <1>3, <2>2, <4>1 DEF PoolIsNotarized, PoolIsWhole
        <5>3. TotalAtStake(d) \in Nat /\ d \in Deciders(r, c)
          BY <1>1, <1>3, <2>2, <4>1, <5>1, DecidersAre, TotalIsNat DEF Deciders
        <5>4. r.tallied[c] \in Nat /\ p.tallied[c] \in Nat /\ r.tallied[c] >= p.tallied[c]
          BY <1>1, <1>2, <2>3, <5>1
        <5>5. IsMajority(r.tallied[c], TotalAtStake(d))
          BY <5>2, <5>3, <5>4 DEF IsMajority
        <5> QED BY <5>3, <5>5
      <4> QED BY <4>1
    <3>6. \A c \in r.blocks : r.last \in Chain[c] =>
            /\ Chain[c] \ (Chain[r.last] \cup {c}) \subseteq r.notarized
            /\ c # b /\ c \notin r.notarized => ~IsMajority(r.tallied[c], TotalAtStake(Parent[c]))
      <4>1. \A c \in r.blocks : c # b => r.tallied[c] = p.tallied[c]
        BY <1>1, <1>3, <2>2, <2>3
      <4> QED BY <1>3, <2>2, <4>1 DEF PoolIsNotarized, PoolIsWhole
    <3>7. r.last \in r.notarized /\ r.state = r.last
      BY <1>3, <2>2 DEF PoolIsNotarized, PoolIsWhole
    <3> QED BY <2>2, <3>1, <3>2, <3>3, <3>4, <3>5, <3>6, <3>7 DEF PoolIsWholeBut
  <2> DEFINE s == TryUpdateNotarized(r, b)
  <2>5. /\ PoolIsWhole(s, K)
        /\ \E N, T : /\ s = [r EXCEPT !.notarized = N, !.tips = T]
                     /\ N = r.notarized \/ N = r.notarized \cup {b}
        /\ HasTip(r) => HasTip(s)
    BY <1>1, <2>4, TryUpdateKeeps
  <2> HIDE DEF s
  <2>6. HasMoreVotes(q, s, b, {t}) /\ s.votes = q.votes
    <3>1. HasTip(q) => HasTip(s) BY <2>2, <2>5 DEF HasTip
    <3> QED BY <2>2, <2>5, <3>1 DEF HasMoreVotes, Pool
  <2>7. HasMoreVotes(p, s, b, {t})
    BY <1>8, <2>6, MoreVotesAgain
  <2> QED BY <1>4, <2>1, <2>5, <2>6, <2>7 DEF s
<1> QED BY <1>10, <1>11

\* Votes against a block and proposal transactions change nothing that matters here.
LEMMA AddVoteAgainstKeeps ==
  ASSUME NEW p, NEW K, PoolIsWhole(p, K), NEW b \in Block, NEW t \in VoteTx
  PROVE  /\ PoolIsWhole(AddVoteAgainst(p, b, t), K)
         /\ \A f \in DOMAIN p \ {"listed", "against"} : AddVoteAgainst(p, b, t)[f] = p[f]
<1> DEFINE q == AddVoteAgainst(p, b, t)
<1>1. p \in Pool BY DEF PoolIsWhole
<1>2. /\ q \in Pool /\ q.tips = p.tips /\ q.last = p.last /\ q.state = p.state
      /\ q.blocks = p.blocks /\ q.proposals = p.proposals /\ q.votes = p.votes
      /\ q.tallied = p.tallied /\ q.notarized = p.notarized
      /\ q.children = p.children /\ q.atEpoch = p.atEpoch /\ q.listed = p.listed \cup {b}
      /\ q.dbs = p.dbs /\ q.invalid = p.invalid /\ q.highest = p.highest
  <2>1. p.against \in [Block -> SUBSET VoteTx] BY <1>1 DEF Pool
  <2>2. [p.against EXCEPT ![b] = @ \cup {t}] \in [Block -> SUBSET VoteTx] BY <2>1
  <2> QED BY <1>1, <2>2 DEF Pool, AddVoteAgainst
<1>3. \A f \in DOMAIN p \ {"listed", "against"} : q[f] = p[f]
  BY <1>1 DEF Pool, AddVoteAgainst
<1> HIDE DEF q
<1>4. PoolIsNested(q, K) BY <1>2 DEF PoolIsNested, PoolIsWhole
<1>5. PoolIsCounted(q) BY <1>2 DEF PoolIsCounted, PoolIsWhole
<1>6. PoolIsLinked(q, K) BY <1>2 DEF PoolIsLinked, PoolIsWhole
<1>7. PoolIsNotarized(q) BY <1>2 DEF PoolIsNotarized, PoolIsWhole, Deciders
<1>8. NotarizedAbove(q) = NotarizedAbove(p) BY <1>2 DEF NotarizedAbove
<1>9. PoolHasTips(q) BY <1>2, <1>8 DEF PoolHasTips, PoolIsWhole
<1> QED BY <1>2, <1>3, <1>4, <1>5, <1>6, <1>7, <1>9 DEF PoolIsWhole, q

\* So does a proposal transaction, which adds no vote.
LEMMA AddProposalKeeps ==
  ASSUME NEW p, NEW K, PoolIsWhole(p, K), NEW b \in Block, HasPlace(p, b)
  PROVE  /\ PoolIsWhole(AddProposal(p, b), K)
         /\ HasMoreVotes(p, AddProposal(p, b), b, {})
         /\ b \in AddProposal(p, b).proposals
         /\ AddProposal(p, b).votes = p.votes
<1> DEFINE q == AddProposal(p, b)
<1>1. p \in Pool BY DEF PoolIsWhole
<1>2. /\ q \in Pool /\ q.tips = p.tips /\ q.last = p.last /\ q.state = p.state
      /\ q.blocks = p.blocks /\ q.proposals = p.proposals \cup {b} /\ q.votes = p.votes
      /\ q.tallied = p.tallied /\ q.notarized = p.notarized
      /\ q.children = p.children /\ q.atEpoch = p.atEpoch /\ q.listed = p.listed \cup {b}
      /\ q.dbs = p.dbs /\ q.invalid = p.invalid /\ q.against = p.against
      /\ q.highest = p.highest
  BY <1>1 DEF Pool, AddProposal
<1> HIDE DEF q
<1>4. PoolIsNested(q, K) BY <1>2 DEF PoolIsNested, PoolIsWhole, HasPlace
<1>5. PoolIsCounted(q) BY <1>2 DEF PoolIsCounted, PoolIsWhole
<1>6. PoolIsLinked(q, K) BY <1>2 DEF PoolIsLinked, PoolIsWhole
<1>7. PoolIsNotarized(q) BY <1>2 DEF PoolIsNotarized, PoolIsWhole, Deciders
<1>8. NotarizedAbove(q) = NotarizedAbove(p) BY <1>2 DEF NotarizedAbove
<1>9. PoolHasTips(q) BY <1>2, <1>8 DEF PoolHasTips, PoolIsWhole
<1>10. HasMoreVotes(p, q, b, {}) BY <1>2 DEF HasMoreVotes, HasTip
<1> QED BY <1>2, <1>4, <1>5, <1>6, <1>7, <1>9, <1>10 DEF PoolIsWhole, q

-----------------------------------------------------------------------------
(* The votes in last_votes, as a fold.                                     *)

VoteStep(b, t, q) == AddVoteFor(q, b, t)
Itself(b, t) == t

Voting == INSTANCE FoldTheorems WITH Op <- VoteStep, Value <- Itself, Pick <- AnyOf

\* The votes of a block can be folded.
LEMMA VotingOverFinite ==
  \A S : IsFiniteSet(S) => Voting!IsFiniteSet(S) /\ Voting!Picks(S)
BY DEF IsFiniteSet, Voting!IsFiniteSet, Voting!Picks, AnyOf

\* The votes in last_votes are added one after the other.
LEMMA AddLastVotesIsFold ==
  ASSUME NEW p, NEW m
  PROVE  AddLastVotes(p, m) =
           LET voted == Voting!Fold(Parent[m.block], p, m.lastVotes)
           IN  IF m.lastTx THEN AddProposal(voted, Parent[m.block]) ELSE voted
BY Zenon DEF AddLastVotes, FoldSet, MapThenFoldSet, Voting!Fold, Voting!FoldOf,
             Voting!IsFold, AnyOf, VoteStep, Itself

\* The pool has all the votes in last_votes, and nothing else has changed.
LEMMA AddLastVotesKeeps ==
  ASSUME NEW p, NEW K, PoolIsWhole(p, K), NEW m \in Proposal, HasPlace(p, Parent[m.block])
  PROVE  /\ PoolIsWhole(AddLastVotes(p, m), K)
         /\ HasMoreVotes(p, AddLastVotes(p, m), Parent[m.block], m.lastVotes)
         /\ m.lastVotes \subseteq AddLastVotes(p, m).votes[Parent[m.block]]
         /\ m.lastTx => Parent[m.block] \in AddLastVotes(p, m).proposals
<1> DEFINE b == Parent[m.block]
           V == m.lastVotes
           I == {q \in Pool : PoolIsWhole(q, K) /\ HasMoreVotes(p, q, b, V)}
           voted == Voting!Fold(b, p, V)
<1>1. V \in SUBSET VoteTx /\ Voting!IsFiniteSet(V) /\ Voting!Picks(V)
  BY VotesAreFinite, VotingOverFinite DEF Proposal
<1>b. b \in Block BY Typing DEF Proposal
<1>2. p \in I
  BY DEF PoolIsWhole, HasMoreVotes
<1>3. ASSUME NEW t \in V, NEW q \in I
      PROVE  AddVoteFor(q, b, t) \in I /\ t \in AddVoteFor(q, b, t).votes[b]
                                       /\ q.votes[b] \subseteq AddVoteFor(q, b, t).votes[b]
  <2> DEFINE r == AddVoteFor(q, b, t)
  <2>1. HasPlace(q, b) BY DEF HasMoreVotes, HasPlace
  <2>2. PoolIsWhole(r, K) /\ HasMoreVotes(q, r, b, {t}) /\ t \in r.votes[b]
    BY <1>1, <1>b, <2>1, AddVoteForKeeps
  <2> HIDE DEF r
  <2>3. HasMoreVotes(p, r, b, V) BY <2>2 DEF HasMoreVotes
  <2>4. r \in Pool BY <2>2 DEF PoolIsWhole
  <2> QED BY <2>2, <2>3, <2>4 DEF r, HasMoreVotes
<1>4. Voting!Keeps(b, V, I)
  BY <1>3 DEF Voting!Keeps, VoteStep, Itself
<1>5. voted \in I
  <2> HIDE DEF I, V, b
  <2> QED BY <1>1, <1>2, <1>4, Voting!FoldKeeps
<1>6. ASSUME NEW t \in V PROVE t \in voted.votes[b]
  <2> DEFINE J == {q \in I : t \in q.votes[b]}
  <2>1. Voting!Keeps(b, V, J) BY <1>3 DEF Voting!Keeps, VoteStep, Itself
  <2>2. \A q \in I : VoteStep(b, Itself(b, t), q) \in J BY <1>3 DEF VoteStep, Itself
  <2>3. voted \in J
    <3> HIDE DEF I, J, V, b
    <3> QED BY <1>1, <1>2, <1>4, <1>6, <2>1, <2>2, Voting!FoldReaches
  <2> QED BY <2>3
<1> HIDE DEF voted
<1>7. PoolIsWhole(voted, K) /\ HasMoreVotes(p, voted, b, V) /\ V \subseteq voted.votes[b]
  BY <1>5, <1>6
<1>8. CASE ~m.lastTx
  BY <1>7, <1>8, AddLastVotesIsFold DEF voted
<1>9. CASE m.lastTx
  <2> DEFINE r == AddProposal(voted, b)
  <2>1. AddLastVotes(p, m) = r BY <1>9, AddLastVotesIsFold DEF voted
  <2>2. HasPlace(voted, b) BY <1>7 DEF HasMoreVotes, HasPlace
  <2>3. PoolIsWhole(r, K) /\ HasMoreVotes(voted, r, b, {}) /\ b \in r.proposals
        /\ r.votes = voted.votes
    BY <1>b, <1>7, <2>2, AddProposalKeeps
  <2> HIDE DEF r
  <2>4. HasMoreVotes(p, r, b, V) BY <1>7, <2>3 DEF HasMoreVotes
  <2> QED BY <1>7, <2>1, <2>3, <2>4
<1> QED BY <1>8, <1>9

-----------------------------------------------------------------------------
(* Blocks.                                                                 *)

NotarizeStep(s, b, q) == TryUpdateNotarized(q, b)
At(s, i) == s[i]
Largest(S) == CHOOSE x \in S : \A y \in S : x >= y

Notarizing == INSTANCE FoldTheorems WITH Op <- NotarizeStep, Value <- At, Pick <- Largest

\* Nothing follows a block that is new.
LEMMA NothingToNotarize ==
  ASSUME NEW p, NEW s, s = <<>> PROVE FoldLeft(TryUpdateNotarized, p, s) = p
<1>1. FoldLeft(TryUpdateNotarized, p, s) = Notarizing!Fold(s, p, DOMAIN s)
  BY Zenon DEF FoldLeft, MapThenFoldSet, Notarizing!Fold, Notarizing!FoldOf,
               Notarizing!IsFold, NotarizeStep, At, Largest, Max
<1>2. DOMAIN s = {} OBVIOUS
<1>3. Notarizing!Fold(s, p, {}) = p BY Notarizing!FoldEmpty
<1> QED BY <1>1, <1>2, <1>3

\* v is p with the block b, whose votes came before it and may have notarized it; then
\* it is not above the last block, and at most the tips are computed anew.
HasJoined(p, v, b, K) ==
  /\ v \in Pool
  /\ v.last = p.last /\ v.state = p.state /\ v.votes = p.votes /\ v.children = p.children
  /\ v.atEpoch = p.atEpoch /\ v.listed = p.listed /\ v.dbs = p.dbs /\ v.invalid = p.invalid
  /\ v.against = p.against /\ v.highest = p.highest
  /\ v.blocks = p.blocks \cup {b} /\ v.proposals = p.proposals \cup {b}
  /\ v.tallied = [p.tallied EXCEPT ![b] = StakeSum(b, p.votes[b])]
  /\ \/ v.notarized = p.notarized
     \/ /\ v.notarized = p.notarized \cup {b}
        /\ p.votes[b] # {}
        /\ \E d \in Deciders(p, b) : IsMajority(StakeSum(b, p.votes[b]), TotalAtStake(d))
  /\ ~NotarizedNow(v, b)
  /\ PoolIsWhole([p EXCEPT !.tips = v.tips], K)
  /\ HasTip(p) => HasTip([p EXCEPT !.tips = v.tips])

\* A block that was never tracked joins the pool with the votes it has.
LEMMA AddToHashBlockInfoMapIs ==
  ASSUME NEW p, NEW K, PoolIsWhole(p, K), NEW b \in Block \ {Root}, b \notin K
  PROVE  HasJoined(p, AddToHashBlockInfoMap(p, b, TRUE), b, K)
<1> DEFINE sum == StakeSum(b, p.votes[b])
           counts == [p.tallied EXCEPT ![b] = sum]
           q == [p EXCEPT !.blocks = @ \cup {b}, !.proposals = @ \cup {b}]
           a == [q EXCEPT !.tallied[b] = sum]
           v == AddToHashBlockInfoMap(p, b, TRUE)
<1>1. /\ p \in Pool /\ b \notin p.blocks /\ p.tallied[b] = 0 /\ p.last \in Block
      /\ p.blocks \subseteq Block /\ p.tallied \in [Block -> Nat] /\ p.notarized \subseteq p.blocks
      /\ p.last \in p.notarized /\ ToSet(p.tips) \subseteq K
  BY DEF PoolIsWhole, PoolIsNested, PoolIsCounted, PoolIsNotarized, Pool
<1>2. Number[b] # 0 /\ sum \in Nat /\ counts \in [Block -> Nat]
  <2>1. p.votes[b] \in SUBSET VoteTx BY <1>1 DEF Pool
  <2>2. sum \in Nat BY <2>1, StakeSumIsNat
  <2> QED BY <1>1, <2>2, Typing, TreeIsAssumed DEF TreeAssumption
<1>3. v = IF p.votes[b] # {} THEN TryUpdateNotarized(a, b) ELSE q
  BY <1>1 DEF AddToHashBlockInfoMap
<1>4. [p EXCEPT !.tips = p.tips] = p BY <1>1 DEF Pool
<1> HIDE DEF v
<1>5. CASE p.votes[b] = {}
  <2>1. sum = 0 BY <1>5, StakeSumOfNone
  <2>2. counts = p.tallied BY <1>1, <2>1
  <2> HIDE DEF sum, counts
  <2>3. v = q BY <1>3, <1>5
  <2>4. /\ v \in Pool
        /\ v.last = p.last /\ v.state = p.state /\ v.votes = p.votes /\ v.children = p.children
        /\ v.atEpoch = p.atEpoch /\ v.listed = p.listed /\ v.dbs = p.dbs /\ v.invalid = p.invalid
        /\ v.against = p.against /\ v.highest = p.highest
        /\ v.blocks = p.blocks \cup {b} /\ v.proposals = p.proposals \cup {b}
        /\ v.tallied = counts /\ v.notarized = p.notarized /\ v.tips = p.tips
    BY <1>1, <2>2, <2>3 DEF Pool
  <2>5. ~NotarizedNow(v, b) BY <1>1, <1>2, <2>2, <2>4 DEF NotarizedNow, IsMajority
  <2> QED BY <1>4, <2>4, <2>5 DEF HasJoined, v, counts, sum
<1>6. CASE p.votes[b] # {}
  <2>1. /\ a \in Pool
        /\ a.last = p.last /\ a.state = p.state /\ a.votes = p.votes /\ a.children = p.children
        /\ a.atEpoch = p.atEpoch /\ a.listed = p.listed /\ a.dbs = p.dbs /\ a.invalid = p.invalid
        /\ a.against = p.against /\ a.highest = p.highest
        /\ a.blocks = p.blocks \cup {b} /\ a.proposals = p.proposals \cup {b}
        /\ a.tallied = counts /\ a.notarized = p.notarized /\ a.tips = p.tips
    <3> HIDE DEF sum
    <3> QED BY <1>1, <1>2 DEF Pool
  <2> HIDE DEF a
  <2>2. CASE ~NotarizedNow(a, b)
    <3>1. v = a BY <1>3, <1>6, <2>2 DEF TryUpdateNotarized
    <3> QED BY <1>4, <2>1, <2>2, <3>1 DEF HasJoined, v, counts, sum
  <2>3. CASE NotarizedNow(a, b)
    <3> DEFINE n == [a EXCEPT !.notarized = @ \cup {b}]
    <3>1. v = UpdateLongestNotarizedChains(n)
      BY <1>3, <1>6, <2>3 DEF TryUpdateNotarized
    <3>2. /\ n \in Pool
          /\ n.last = p.last /\ n.state = p.state /\ n.votes = p.votes /\ n.children = p.children
          /\ n.atEpoch = p.atEpoch /\ n.listed = p.listed /\ n.dbs = p.dbs /\ n.invalid = p.invalid
          /\ n.against = p.against /\ n.highest = p.highest
          /\ n.blocks = p.blocks \cup {b} /\ n.proposals = p.proposals \cup {b}
          /\ n.tallied = counts /\ n.notarized = p.notarized \cup {b} /\ n.tips = p.tips
      BY <2>1 DEF Pool
    <3> HIDE DEF n
    <3>3. \E d \in Deciders(p, b) : IsMajority(sum, TotalAtStake(d))
      <4>1. a.tallied[b] = sum BY <1>1, <2>1
      <4>2. PrevBlocks(a, b) \subseteq Deciders(p, b)
        <5>1. Deciders(a, b) = Deciders(p, b) BY <2>1 DEF Deciders
        <5> QED BY <2>1, <5>1, DecidersAre
      <4> QED BY <1>2, <2>3, <4>1, <4>2 DEF NotarizedNow
    <3>4. CASE n.tips # <<>> /\ Head(n.tips) \notin n.blocks
      <4>1. v = n BY <3>1, <3>4 DEF UpdateLongestNotarizedChains
      <4>2. ~NotarizedNow(v, b) BY <3>2, <4>1 DEF NotarizedNow
      <4> QED BY <1>4, <1>6, <3>2, <3>3, <4>1, <4>2 DEF HasJoined, v, counts, sum
    <3>5. CASE ~(n.tips # <<>> /\ Head(n.tips) \notin n.blocks)
      <4> DEFINE new == LongestOf(n, NotarizedAbove(n))
      <4>1. v = [n EXCEPT !.tips = new]
        <5>1. n.last \in n.notarized BY <1>1, <3>2
        <5> QED BY <3>1, <3>5, <5>1 DEF UpdateLongestNotarizedChains, LongestNotarizedChainTips
      <4>2. NotarizedAbove(n) = NotarizedAbove(p)
        <5>1. ASSUME NEW c \in Block, p.last \in Chain[c] PROVE b \notin Chain[c] \ Chain[p.last]
          <6>1. Number[b] <= Number[p.last]
            BY <1>1, <1>6 DEF PoolIsWhole, PoolIsNested
          <6> QED BY <1>1, <5>1, <6>1, ChainIsLinear
        <5> QED BY <3>2, <5>1 DEF NotarizedAbove
      <4>3. NotarizedAbove(p) \in SUBSET Block /\ IsFiniteSet(NotarizedAbove(p))
        <5>1. NotarizedAbove(p) = {c \in p.notarized : p.last \in Chain[c]}
          BY <1>1, AboveIsNotarized DEF PoolIsWhole, PoolIsNotarized
        <5>2. p.notarized \subseteq p.blocks /\ p.blocks \subseteq Block /\ IsFiniteSet(p.blocks)
          BY <1>1 DEF PoolIsWhole, PoolIsNested
        <5> QED BY <5>1, <5>2, FS_Subset
      <4>4. /\ new \in Seq(Block) /\ ToSet(new) = Longest(NotarizedAbove(p))
            /\ new # <<>> => Head(new) \in Longest(NotarizedAbove(p))
        <5>1. \A c \in Block : IsInjective(n.children[c]) BY <3>2 DEF PoolIsWhole, PoolIsLinked
        <5> QED BY <3>2, <4>2, <4>3, <5>1, LongestIsWhole
      <4> HIDE DEF new
      <4>5. /\ v \in Pool
            /\ v.last = p.last /\ v.state = p.state /\ v.votes = p.votes /\ v.children = p.children
            /\ v.atEpoch = p.atEpoch /\ v.listed = p.listed /\ v.dbs = p.dbs /\ v.invalid = p.invalid
            /\ v.against = p.against /\ v.highest = p.highest
            /\ v.blocks = p.blocks \cup {b} /\ v.proposals = p.proposals \cup {b}
            /\ v.tallied = counts /\ v.notarized = p.notarized \cup {b} /\ v.tips = new
        BY <3>2, <4>1, <4>4 DEF Pool
      <4>6. ~NotarizedNow(v, b) BY <4>5 DEF NotarizedNow
      <4> DEFINE u == [p EXCEPT !.tips = v.tips]
      <4>7. PoolIsWhole(u, K) /\ HasTip(u)
        <5>1. u = [p EXCEPT !.tips = new] BY <4>5
        <5> HIDE DEF u
        <5> QED BY <1>1, <4>4, <5>1, NewTipsKeep DEF PoolIsWhole
      <4> HIDE DEF u
      <4>8. v.tallied = [p.tallied EXCEPT ![b] = StakeSum(b, p.votes[b])] BY <4>5
      <4> HIDE DEF counts
      <4> QED BY <1>6, <3>3, <4>5, <4>6, <4>7, <4>8 DEF HasJoined, v, u, sum
    <3> QED BY <3>4, <3>5
  <2> QED BY <2>2, <2>3
<1> QED BY <1>5, <1>6

\* A block that was never tracked has no successor in the pool yet: it is linked, and
\* notarizes no other.
LEMMA AddSeenBlockIs ==
  ASSUME NEW p, NEW K, PoolIsWhole(p, K), NEW b \in Block \ {Root}, b \notin K,
         NEW v, v = AddToHashBlockInfoMap(p, b, TRUE)
  PROVE  AddSeenBlock(p, b, TRUE) =
           [v EXCEPT !.listed = @ \cup {b},
                     !.atEpoch = {x \in @ : Epoch[x] # Epoch[b]} \cup {b},
                     !.children[Parent[b]] = IF Contains(@, b) THEN @ ELSE Append(@, b),
                     !.highest = Max({@, Number[b]})]
<1>1. HasJoined(p, v, b, K) BY AddToHashBlockInfoMapIs
<1>2. b # Parent[b] /\ Parent[b] \in Block
  BY Typing, TreeIsAssumed DEF TreeAssumption
<1>3. v \in Pool /\ v.children[b] = <<>>
  BY <1>1 DEF HasJoined, PoolIsWhole, PoolIsLinked
<1> DEFINE linked == [v EXCEPT !.listed = @ \cup {b},
                        !.atEpoch = {x \in @ : Epoch[x] # Epoch[b]} \cup {b},
                        !.children[Parent[b]] = IF Contains(@, b) THEN @ ELSE Append(@, b),
                        !.highest = Max({@, Number[b]})]
<1>4. /\ linked.children[b] = <<>> /\ linked.tallied = v.tallied /\ linked.blocks = v.blocks
      /\ linked.last = v.last /\ linked.notarized = v.notarized
  BY <1>2, <1>3 DEF Pool
<1>5. AddSeenBlock(p, b, TRUE) =
        FoldLeft(TryUpdateNotarized, TryUpdateNotarized(linked, b), linked.children[b])
  BY DEF AddSeenBlock
<1> HIDE DEF linked
<1>6. ~NotarizedNow(linked, b)
  BY <1>1, <1>4 DEF HasJoined, NotarizedNow, PrevBlocks
<1>7. TryUpdateNotarized(linked, b) = linked
  BY <1>6 DEF TryUpdateNotarized
<1>8. AddSeenBlock(p, b, TRUE) = linked
  BY <1>4, <1>5, <1>7, NothingToNotarize
<1> QED BY <1>8 DEF linked

\* The larger one of two numbers.
LEMMA MaxIsNat ==
  ASSUME NEW i \in Nat, NEW j \in Nat
  PROVE  Max({i, j}) \in Nat /\ Max({i, j}) >= i /\ Max({i, j}) >= j
<1>1. \E x \in {i, j} : \A y \in {i, j} : x >= y OBVIOUS
<1>2. Max({i, j}) \in {i, j} /\ \A y \in {i, j} : Max({i, j}) >= y BY <1>1 DEF Max
<1> QED BY <1>2

\* A new block on a notarized one, with its db.
Added(p, b) == [AddSeenBlock(p, b, TRUE) EXCEPT !.dbs = @ \cup {b}]

\* addSeenBlock of a new block keeps the pool whole and adds that block.
LEMMA AddSeenBlockKeeps ==
  ASSUME NEW p, NEW K, PoolIsWhole(p, K), NEW b \in Block \ {Root}, b \notin K,
         Parent[b] \in p.notarized,
         NEW q, q = Added(p, b)
  PROVE  /\ PoolIsWhole(q, K \cup {b})
         /\ q.last = p.last /\ q.blocks = p.blocks \cup {b} /\ q.votes = p.votes
         /\ p.notarized \subseteq q.notarized /\ q.notarized \subseteq p.notarized \cup {b}
         /\ HasTip(p) => HasTip(q)
         /\ q.invalid = p.invalid
         /\ q.against = p.against /\ q.proposals = p.proposals \cup {b}
         /\ q.atEpoch = {x \in p.atEpoch : Epoch[x] # Epoch[b]} \cup {b}
         /\ q.highest >= Number[b] /\ q.highest >= p.highest
<1> DEFINE v == AddToHashBlockInfoMap(p, b, TRUE)
           u == [p EXCEPT !.tips = v.tips]
<1>0. HasJoined(p, v, b, K) BY AddToHashBlockInfoMapIs
<1>1. /\ p \in Pool /\ Parent[b] \in Block /\ p.last \in Block /\ Parent[b] \in p.blocks
      /\ p.notarized \subseteq p.blocks /\ b # Parent[b] /\ p.blocks \subseteq Block
      /\ p.blocks \subseteq K /\ p.highest \in Nat /\ Number[b] \in Nat
  BY Typing, TreeIsAssumed DEF TreeAssumption, PoolIsWhole, PoolIsNested, Pool
<1> DEFINE kids == p.children[Parent[b]]
           new == IF Contains(kids, b) THEN kids ELSE Append(kids, b)
<1>2. /\ new \in Seq(Block) /\ IsInjective(new) /\ Contains(new, b)
      /\ \A c : Contains(kids, c) => Contains(new, c)
  <2>1. kids \in Seq(Block) /\ IsInjective(kids) BY <1>1 DEF PoolIsWhole, PoolIsLinked, Pool
  <2> HIDE DEF kids
  <2>2. CASE Contains(kids, b) BY <2>1, <2>2
  <2>3. CASE ~Contains(kids, b)
    <3>1. new = Append(kids, b) BY <2>3
    <3>2. /\ new \in Seq(Block) /\ Len(new) = Len(kids) + 1 /\ Len(kids) \in Nat
          /\ new[Len(new)] = b /\ \A i \in 1 .. Len(kids) : new[i] = kids[i]
          /\ DOMAIN new = 1 .. Len(new) /\ DOMAIN kids = 1 .. Len(kids)
      BY <2>1, <3>1
    <3> HIDE DEF new
    <3>3. IsInjective(new) BY <2>1, <2>3, <3>2 DEF IsInjective, Contains
    <3> QED BY <3>2, <3>3 DEF Contains
  <2> QED BY <2>2, <2>3
<1>3. /\ q \in Pool /\ q.tips = v.tips /\ q.last = p.last /\ q.state = p.state
      /\ q.blocks = p.blocks \cup {b} /\ q.proposals = p.proposals \cup {b} /\ q.votes = p.votes
      /\ q.tallied = v.tallied /\ q.notarized = v.notarized
      /\ q.atEpoch = {x \in p.atEpoch : Epoch[x] # Epoch[b]} \cup {b}
      /\ q.listed = p.listed \cup {b} /\ q.dbs = p.dbs \cup {b}
      /\ q.invalid = p.invalid /\ q.against = p.against /\ q.highest = Max({p.highest, Number[b]})
      /\ q.children = [p.children EXCEPT ![Parent[b]] = new]
  <2> DEFINE cs == [p.children EXCEPT ![Parent[b]] = new]
             h == Max({p.highest, Number[b]})
             es == {x \in p.atEpoch : Epoch[x] # Epoch[b]} \cup {b}
             r == [v EXCEPT !.listed = @ \cup {b}, !.atEpoch = es, !.highest = h]
  <2>1. h \in Nat BY <1>1, MaxIsNat
  <2>2. cs \in [Block -> Seq(Block)] BY <1>1, <1>2 DEF Pool
  <2>3. es \subseteq Block BY <1>1 DEF Pool
  <2>4. AddSeenBlock(p, b, TRUE) = [r EXCEPT !.children = cs]
    <3>1. AddSeenBlock(p, b, TRUE) =
            [v EXCEPT !.listed = @ \cup {b},
                      !.atEpoch = {x \in @ : Epoch[x] # Epoch[b]} \cup {b},
                      !.children[Parent[b]] = IF Contains(@, b) THEN @ ELSE Append(@, b),
                      !.highest = Max({@, Number[b]})]
      BY AddSeenBlockIs
    <3> HIDE DEF v
    <3>2. /\ v \in Pool /\ v.children = p.children /\ v.atEpoch = p.atEpoch /\ v.highest = p.highest
      BY <1>0 DEF HasJoined
    <3> QED BY <1>1, <3>1, <3>2 DEF Pool
  <2>5. q = [[r EXCEPT !.children = cs] EXCEPT !.dbs = @ \cup {b}] BY <2>4 DEF Added
  <2> HIDE DEF es, h, cs, new, v
  <2>6. /\ r \in Pool /\ r.tips = v.tips /\ r.last = p.last /\ r.state = p.state
        /\ r.blocks = p.blocks \cup {b} /\ r.proposals = p.proposals \cup {b}
        /\ r.votes = p.votes /\ r.tallied = v.tallied /\ r.notarized = v.notarized
        /\ r.atEpoch = es /\ r.listed = p.listed \cup {b} /\ r.dbs = p.dbs
        /\ r.invalid = p.invalid /\ r.against = p.against /\ r.highest = h
    BY <1>0, <1>1, <2>1, <2>3 DEF Pool, HasJoined
  <2> HIDE DEF r
  <2>7. /\ q \in Pool /\ q.tips = r.tips /\ q.last = r.last /\ q.state = r.state
        /\ q.blocks = r.blocks /\ q.proposals = r.proposals
        /\ q.votes = r.votes /\ q.tallied = r.tallied /\ q.notarized = r.notarized
        /\ q.atEpoch = r.atEpoch /\ q.listed = r.listed /\ q.dbs = r.dbs \cup {b}
        /\ q.invalid = r.invalid /\ q.against = r.against /\ q.highest = r.highest
        /\ q.children = cs
    BY <2>2, <2>5, <2>6 DEF Pool
  <2> QED BY <2>6, <2>7 DEF es, h, cs
<1> HIDE DEF v
<1>4. q.highest >= Number[b] /\ q.highest >= p.highest
  <2>1. Max({p.highest, Number[b]}) >= Number[b] /\ Max({p.highest, Number[b]}) >= p.highest
    BY <1>1, MaxIsNat
  <2> QED BY <1>3, <2>1
<1>5. /\ q.children[Parent[b]] = new
      /\ \A c \in Block \ {Parent[b]} : q.children[c] = p.children[c]
  BY <1>1, <1>3 DEF Pool
<1> HIDE DEF new, kids
<1>a. /\ PoolIsWhole(u, K) /\ (HasTip(p) => HasTip(u)) /\ u.tips = q.tips /\ u.blocks = p.blocks
      /\ u.notarized = p.notarized /\ u.last = p.last /\ u.children = p.children
  BY <1>0, <1>1, <1>3 DEF HasJoined, Pool
<1> HIDE DEF u
<1>b. /\ p.notarized \subseteq q.notarized /\ q.notarized \subseteq p.notarized \cup {b}
      /\ b \in q.notarized => Number[b] <= Number[p.last]
  BY <1>0, <1>1, <1>3 DEF HasJoined, PoolIsWhole, PoolIsNested
<1>c. /\ q.tallied[b] = StakeSum(b, p.votes[b])
      /\ \A c \in Block \ {b} : q.tallied[c] = p.tallied[c]
  BY <1>0, <1>1, <1>3 DEF HasJoined, Pool
<1>d. ASSUME p.last \in Chain[b] PROVE p.votes[b] = {} /\ b \notin q.notarized
  <2>1. Number[p.last] < Number[b]
    <3>1. p.last # b BY <1>1 DEF PoolIsWhole, PoolIsNotarized
    <3>2. Number[p.last] \in Nat /\ Number[Parent[b]] \in Nat BY <1>1, Typing
    <3>3. p.last \in Chain[Parent[b]] /\ Number[b] = Number[Parent[b]] + 1
      BY <1>1, <1>d, <3>1, ChainOfParent
    <3>4. Number[p.last] <= Number[Parent[b]] BY <1>1, <3>3, ChainGrows
    <3> QED BY <3>2, <3>3, <3>4
  <2>2. Number[p.last] \in Nat BY <1>1, Typing
  <2>3. ~(Number[b] <= Number[p.last]) BY <1>1, <2>1, <2>2
  <2> QED BY <1>1, <1>b, <2>3 DEF PoolIsWhole, PoolIsNested
<1>6. PoolIsNested(q, K \cup {b})
  <2>1. IsFiniteSet(q.blocks)
    <3>1. IsFiniteSet(p.blocks) BY DEF PoolIsWhole, PoolIsNested
    <3>2. IsFiniteSet(p.blocks \cup {b}) BY <3>1, FS_AddElement
    <3> QED BY <1>3, <3>2
  <2>2. ToSet(q.tips) \subseteq K BY <1>a DEF PoolIsWhole, PoolIsNested
  <2>3. q.notarized \subseteq q.blocks BY <1>1, <1>3, <1>b
  <2>4. \A c \in Block \ q.blocks : c \in q.proposals \/ q.votes[c] # {} =>
          c \in q.listed /\ Number[c] <= Number[q.last]
    BY <1>3 DEF PoolIsWhole, PoolIsNested
  <2> QED BY <1>3, <2>1, <2>2, <2>3, <2>4 DEF PoolIsWhole, PoolIsNested
<1>7. PoolIsCounted(q)
  <2>1. ASSUME NEW c \in Block
        PROVE  q.tallied[c] = IF c \in q.blocks THEN StakeSum(c, q.votes[c]) ELSE 0
    BY <1>3, <1>c DEF PoolIsWhole, PoolIsCounted
  <2> QED BY <2>1 DEF PoolIsCounted
<1>8. PoolIsLinked(q, K \cup {b})
  <2>1. \A c \in Block : IsInjective(q.children[c]) /\ (q.children[c] # <<>> => c \in K \cup {b})
    BY <1>1, <1>2, <1>5 DEF PoolIsWhole, PoolIsLinked
  <2>2. ASSUME NEW c \in q.blocks \ {Root}
        PROVE  /\ Parent[c] \in K \cup {b}
               /\ Parent[c] \in q.blocks => Contains(q.children[Parent[c]], c)
    <3>1. CASE c = b BY <1>1, <1>2, <1>5, <3>1
    <3>2. CASE c # b
      <4>1. c \in p.blocks /\ c # Root /\ Parent[c] \in K /\ Parent[c] # b
        <5>1. c \in p.blocks BY <1>3, <2>2, <3>2
        <5>2. \A d \in p.blocks \ {Root} : Parent[d] \in K BY DEF PoolIsWhole, PoolIsLinked
        <5> QED BY <2>2, <5>1, <5>2
      <4>2. Parent[c] \in p.blocks => Contains(p.children[Parent[c]], c)
        BY <4>1 DEF PoolIsWhole, PoolIsLinked
      <4>3. Parent[c] \in Block BY <1>1, <4>1, Typing
      <4> QED BY <1>2, <1>3, <1>5, <4>1, <4>2, <4>3 DEF kids
    <3> QED BY <3>1, <3>2
  <2> QED BY <2>1, <2>2 DEF PoolIsLinked
<1>9. PoolIsNotarized(q)
  <2>1. /\ p.last \in p.notarized /\ p.state = p.last
        /\ \A c \in p.notarized \ {Root} :
             \E d \in Deciders(p, c) : IsMajority(p.tallied[c], TotalAtStake(d))
        /\ \A c \in p.blocks : p.last \in Chain[c] =>
             /\ Chain[c] \ (Chain[p.last] \cup {c}) \subseteq p.notarized
             /\ c \notin p.notarized => ~IsMajority(p.tallied[c], TotalAtStake(Parent[c]))
    BY DEF PoolIsWhole, PoolIsNotarized
  <2>2. ASSUME NEW c \in q.notarized \ {Root}
        PROVE  \E d \in Deciders(q, c) : IsMajority(q.tallied[c], TotalAtStake(d))
    <3>0. Deciders(q, c) = Deciders(p, c) BY <1>3 DEF Deciders
    <3>1. CASE c \in p.notarized
      <4>1. c \in Block /\ c # b BY <1>1, <3>1 DEF PoolIsWhole, PoolIsNested
      <4> QED BY <1>c, <2>1, <2>2, <3>0, <3>1, <4>1
    <3>2. CASE c \notin p.notarized
      BY <1>0, <1>3, <1>c, <2>2, <3>0, <3>2 DEF HasJoined
    <3> QED BY <3>1, <3>2
  <2>3. ASSUME p.last \in Chain[b] PROVE Chain[b] \ (Chain[p.last] \cup {b}) \subseteq p.notarized
    <3>1. p.last # b BY <1>1, <2>1
    <3>2. p.last \in Chain[Parent[b]] /\ Chain[b] = Chain[Parent[b]] \cup {b}
      BY <2>3, <3>1, ChainOfParent
    <3> QED BY <1>1, <2>1, <3>2
  <2>4. p.last \in Chain[b] => ~IsMajority(q.tallied[b], TotalAtStake(Parent[b]))
    <3>1. p.last \in Chain[b] => q.tallied[b] = 0 BY <1>c, <1>d, StakeSumOfNone
    <3> QED BY <3>1 DEF IsMajority
  <2>5. ASSUME NEW c \in q.blocks, q.last \in Chain[c]
        PROVE  /\ Chain[c] \ (Chain[q.last] \cup {c}) \subseteq q.notarized
               /\ c \notin q.notarized => ~IsMajority(q.tallied[c], TotalAtStake(Parent[c]))
    <3>1. CASE c = b BY <1>3, <1>b, <2>3, <2>4, <2>5, <3>1
    <3>2. CASE c # b
      <4>1. c \in p.blocks /\ c \in Block BY <1>1, <1>3, <2>5, <3>2
      <4> QED BY <1>3, <1>b, <1>c, <2>1, <2>5, <3>2, <4>1
    <3> QED BY <3>1, <3>2
  <2> QED BY <1>3, <1>b, <2>1, <2>2, <2>5 DEF PoolIsNotarized
<1>10. PoolHasTips(q)
  <2>1. NotarizedAbove(q) = NotarizedAbove(u)
    <3>1. NotarizedAbove(q) = {c \in q.notarized : q.last \in Chain[c]}
      BY <1>3, <1>6, <1>8, <1>9, AboveIsNotarized DEF PoolIsNotarized
    <3>2. NotarizedAbove(u) = {c \in u.notarized : u.last \in Chain[c]}
      BY <1>a, AboveIsNotarized DEF PoolIsWhole, PoolIsNotarized
    <3> QED BY <1>3, <1>a, <1>b, <1>d, <3>1, <3>2
  <2>2. b \notin ToSet(u.tips) BY <1>a DEF PoolIsWhole, PoolIsNested
  <2>3. u.tips # <<>> => Head(u.tips) # b
    <3>1. u.tips \in Seq(Block) BY <1>a DEF Pool, PoolIsWhole
    <3>2. u.tips # <<>> => Head(u.tips) \in ToSet(u.tips) BY <3>1 DEF ToSet
    <3> QED BY <2>2, <3>2
  <2>4. PoolHasTips(u) BY <1>a DEF PoolIsWhole
  <2> QED BY <1>3, <1>a, <1>b, <2>1, <2>2, <2>3, <2>4 DEF PoolHasTips
<1>11. HasTip(p) => HasTip(q)
  BY <1>3, <1>a DEF HasTip
<1> QED BY <1>3, <1>4, <1>6, <1>7, <1>8, <1>9, <1>10, <1>11, <1>b DEF PoolIsWhole

\* A block that was never tracked joins the invalid ones.
LEMMA AddInvalidBlockKeeps ==
  ASSUME NEW p, NEW K, PoolIsWhole(p, K), NEW b \in Block, b \notin p.blocks \cup p.atEpoch,
         NEW q, q = AddInvalidBlock(p, b)
  PROVE  /\ PoolIsWhole(q, K)
         /\ q.last = p.last /\ q.blocks = p.blocks /\ q.votes = p.votes /\ q.tips = p.tips
         /\ q.notarized = p.notarized /\ q.invalid = p.invalid \cup {b} /\ q.against = p.against
<1>1. p \in Pool /\ Max({p.highest, Number[b]}) \in Nat
  BY MaxIsNat, Typing DEF PoolIsWhole, Pool
<1>2. /\ q \in Pool /\ q.tips = p.tips /\ q.last = p.last /\ q.state = p.state
      /\ q.blocks = p.blocks /\ q.proposals = p.proposals /\ q.votes = p.votes
      /\ q.tallied = p.tallied /\ q.notarized = p.notarized
      /\ q.children = p.children /\ q.atEpoch = p.atEpoch /\ q.listed = p.listed \cup {b}
      /\ q.dbs = p.dbs /\ q.invalid = p.invalid \cup {b} /\ q.against = p.against
  BY <1>1 DEF Pool, AddInvalidBlock
<1>4. PoolIsNested(q, K) BY <1>2 DEF PoolIsNested, PoolIsWhole
<1>5. PoolIsCounted(q) BY <1>2 DEF PoolIsCounted, PoolIsWhole
<1>6. PoolIsLinked(q, K) BY <1>2 DEF PoolIsLinked, PoolIsWhole
<1>7. PoolIsNotarized(q) BY <1>2 DEF PoolIsNotarized, PoolIsWhole, Deciders
<1>8. NotarizedAbove(q) = NotarizedAbove(p) BY <1>2 DEF NotarizedAbove
<1>9. PoolHasTips(q) BY <1>2, <1>8 DEF PoolHasTips, PoolIsWhole
<1> QED BY <1>2, <1>4, <1>5, <1>6, <1>7, <1>9 DEF PoolIsWhole

-----------------------------------------------------------------------------
(* Finalization.                                                           *)

\* What is kept of a pool when the blocks of S are forgotten, of which lower are
\* no longer listed and earlier no longer found by their epoch, and L is the last one.
Forgotten(p, q, L, S, lower, earlier) ==
  /\ q \in Pool /\ q.last = L /\ q.state = L
  /\ q.blocks = p.blocks \ S /\ q.proposals = p.proposals \ S /\ q.notarized = p.notarized \ S
  /\ \A b \in Block : /\ q.votes[b] = IF b \in S THEN {} ELSE p.votes[b]
                      /\ q.tallied[b] = IF b \in S THEN 0 ELSE p.tallied[b]
                      /\ q.children[b] = IF b \in S THEN <<>> ELSE p.children[b]
                      /\ q.against[b] = IF b \in S THEN {} ELSE p.against[b]
  /\ q.invalid = p.invalid \ S /\ q.dbs = p.dbs \ S
  /\ q.listed = p.listed \ lower /\ q.atEpoch = p.atEpoch \ earlier
  /\ q.highest = p.highest

\* ... which is what the clean-up makes of it, but for the tips.
Cleaned(p, L, S, lower, earlier) ==
  [Forget([p EXCEPT !.last = L, !.state = L], S)
     EXCEPT !.listed = @ \ lower, !.atEpoch = @ \ earlier]

\* A pool from which the entries of the blocks in S are removed.
LEMMA ForgottenIs ==
  ASSUME NEW p \in Pool, NEW L \in Block, NEW S, NEW lower, NEW earlier,
         NEW votes, votes = [b \in Block |-> IF b \in S THEN {} ELSE p.votes[b]],
         NEW tallied, tallied = [b \in Block |-> IF b \in S THEN 0 ELSE p.tallied[b]],
         NEW kids, kids = [b \in Block |-> IF b \in S THEN <<>> ELSE p.children[b]],
         NEW against, against = [b \in Block |-> IF b \in S THEN {} ELSE p.against[b]],
         NEW r, r = [last |-> L, state |-> L, blocks |-> p.blocks \ S,
                     proposals |-> p.proposals \ S, votes |-> votes, tallied |-> tallied,
                     notarized |-> p.notarized \ S, children |-> kids, tips |-> p.tips,
                     atEpoch |-> p.atEpoch \ earlier, listed |-> p.listed \ lower,
                     dbs |-> p.dbs \ S, invalid |-> p.invalid \ S, against |-> against,
                     highest |-> p.highest]
  PROVE  Forgotten(p, r, L, S, lower, earlier) /\ r.tips = p.tips
<1>1. /\ votes \in [Block -> SUBSET VoteTx] /\ tallied \in [Block -> Nat]
      /\ against \in [Block -> SUBSET VoteTx] /\ kids \in [Block -> Seq(Block)]
  <2>1. \A b \in Block : p.children[b] \in Seq(Block) /\ <<>> \in Seq(Block) BY DEF Pool
  <2> QED BY <2>1 DEF Pool
<1>2. ASSUME NEW b \in Block
      PROVE  /\ votes[b] = IF b \in S THEN {} ELSE p.votes[b]
             /\ tallied[b] = IF b \in S THEN 0 ELSE p.tallied[b]
             /\ kids[b] = IF b \in S THEN <<>> ELSE p.children[b]
             /\ against[b] = IF b \in S THEN {} ELSE p.against[b]
  OBVIOUS
<1>3. /\ r.last = L /\ r.state = L /\ r.tips = p.tips
      /\ r.blocks = p.blocks \ S /\ r.proposals = p.proposals \ S
      /\ r.notarized = p.notarized \ S /\ r.invalid = p.invalid \ S /\ r.dbs = p.dbs \ S
      /\ r.listed = p.listed \ lower /\ r.atEpoch = p.atEpoch \ earlier
      /\ r.highest = p.highest
      /\ r.votes = votes /\ r.tallied = tallied /\ r.children = kids /\ r.against = against
  OBVIOUS
<1>4. r \in Pool BY <1>1 DEF Pool
<1>5. Forgotten(p, r, L, S, lower, earlier)
      <=> \A b \in Block : /\ r.votes[b] = IF b \in S THEN {} ELSE p.votes[b]
                           /\ r.tallied[b] = IF b \in S THEN 0 ELSE p.tallied[b]
                           /\ r.children[b] = IF b \in S THEN <<>> ELSE p.children[b]
                           /\ r.against[b] = IF b \in S THEN {} ELSE p.against[b]
  BY <1>3, <1>4, Zenon DEF Forgotten
<1> QED BY <1>2, <1>3, <1>5, Zenon

\* That is what cleanUpAfterFinalization does before it looks at the tips.
LEMMA ForgetForgets ==
  ASSUME NEW p \in Pool, NEW L \in Block, NEW S, NEW lower, NEW earlier
  PROVE  LET q == Cleaned(p, L, S, lower, earlier)
         IN  Forgotten(p, q, L, S, lower, earlier) /\ q.tips = p.tips
<1> DEFINE votes == [b \in Block |-> IF b \in S THEN {} ELSE p.votes[b]]
           tallied == [b \in Block |-> IF b \in S THEN 0 ELSE p.tallied[b]]
           kids == [b \in Block |-> IF b \in S THEN <<>> ELSE p.children[b]]
           against == [b \in Block |-> IF b \in S THEN {} ELSE p.against[b]]
           r == [last |-> L, state |-> L, blocks |-> p.blocks \ S, proposals |-> p.proposals \ S,
                 votes |-> votes, tallied |-> tallied, notarized |-> p.notarized \ S,
                 children |-> kids, tips |-> p.tips, atEpoch |-> p.atEpoch \ earlier,
                 listed |-> p.listed \ lower, dbs |-> p.dbs \ S, invalid |-> p.invalid \ S,
                 against |-> against, highest |-> p.highest]
<1>1. ASSUME NEW q, q = Cleaned(p, L, S, lower, earlier) PROVE q = r
  BY <1>1 DEF Cleaned, Forget, Pool
<1>2. Forgotten(p, r, L, S, lower, earlier) /\ r.tips = p.tips
  BY ForgottenIs, Zenon
<1> QED BY <1>1, <1>2, Zenon

\* The pool after L became the last final block.
Finalized(p, L, recorded) ==
  CleanUpAfterFinalization([p EXCEPT !.last = L, !.state = L], recorded)

\* cleanUpAfterFinalization keeps the pool whole.
LEMMA CleanUpKeeps ==
  ASSUME NEW p, NEW K, PoolIsWhole(p, K), NEW L \in p.notarized, p.last \in Chain[L],
         NEW recorded,
         NEW q, q = Finalized(p, L, recorded)
  PROVE  /\ PoolIsWhole(q, K)
         /\ \E S, lower, earlier :
              /\ Forgotten(p, q, L, S, lower, earlier) /\ S = lower \cup earlier
              /\ HasTip(p) /\ Head(p.tips) \notin S => HasTip(q)
              /\ lower = {b \in p.listed : /\ Number[b] < Number[L]
                                           /\ \/ ~HasInvalidInfo(p, b)
                                              \/ b \in recorded
                                              \/ Number[b] < Number[L] - MaxInvalidOnMem}
              /\ earlier = {b \in p.atEpoch : Epoch[b] < Epoch[L]}
<1> DEFINE lower == {b \in p.listed : /\ Number[b] < Number[L]
                                      /\ \/ ~HasInvalidInfo(p, b)
                                         \/ b \in recorded
                                         \/ Number[b] < Number[L] - MaxInvalidOnMem}
           earlier == {b \in p.atEpoch : Epoch[b] < Epoch[L]}
           S == lower \cup earlier
           r == Cleaned(p, L, S, lower, earlier)
<1>1. /\ p \in Pool /\ L \in Block /\ p.last \in Block /\ p.notarized \subseteq p.blocks
      /\ p.blocks \subseteq Block /\ p.listed \subseteq Block /\ p.atEpoch \subseteq Block
  BY DEF PoolIsWhole, PoolIsNested, Pool
<1>2. q = UpdateLongestNotarizedChains(r)
  <2> DEFINE p1 == [p EXCEPT !.last = L, !.state = L]
  <2>1. /\ p1.last = L /\ p1.listed = p.listed /\ p1.atEpoch = p.atEpoch
        /\ p1.invalid = p.invalid /\ p1.against = p.against
    BY <1>1 DEF Pool
  <2> HIDE DEF p1
  <2>2. LowerBlocks(p1, recorded) = lower BY <2>1 DEF LowerBlocks, HasInvalidInfo
  <2>3. EarlierBlocks(p1) = earlier BY <2>1 DEF EarlierBlocks
  <2>4. q = UpdateLongestNotarizedChains(
              [Forget(p1, LowerBlocks(p1, recorded) \cup EarlierBlocks(p1))
                 EXCEPT !.listed = @ \ LowerBlocks(p1, recorded), !.atEpoch = @ \ EarlierBlocks(p1)])
    BY DEF Finalized, CleanUpAfterFinalization, p1
  <2> QED BY <2>2, <2>3, <2>4 DEF p1, Cleaned
<1>3. Forgotten(p, r, L, S, lower, earlier) /\ r.tips = p.tips
  <2>1. ASSUME NEW s, NEW l, NEW e
        PROVE  /\ Forgotten(p, Cleaned(p, L, s, l, e), L, s, l, e)
               /\ Cleaned(p, L, s, l, e).tips = p.tips
    <3> HIDE DEF S, lower, earlier, r
    <3> QED BY <1>1, ForgetForgets
  <2> HIDE DEF S, lower, earlier
  <2> QED BY <2>1, Zenon
<1>4. ASSUME NEW b \in Block, L \in Chain[b] PROVE b \notin S
  <2>1. Number[L] <= Number[b] /\ Epoch[L] <= Epoch[b] BY <1>4, ChainGrows
  <2>2. Number[L] \in Nat /\ Number[b] \in Nat /\ Epoch[L] \in Nat /\ Epoch[b] \in Nat
    BY <1>1, Typing
  <2> QED BY <2>1, <2>2
<1>5. L \in r.notarized
  BY <1>1, <1>3, <1>4, Typing DEF Forgotten
<1>6. S \subseteq Block BY <1>1
<1> HIDE DEF r
<1>7. PoolIsNested(r, K)
  <2>1. IsFiniteSet(r.blocks) BY <1>3, FS_Subset DEF Forgotten, PoolIsWhole, PoolIsNested
  <2>2. r.blocks \subseteq r.listed BY <1>3 DEF Forgotten, PoolIsWhole, PoolIsNested
  <2>3. ASSUME NEW b \in Block \ r.blocks, b \in r.proposals \/ r.votes[b] # {}
        PROVE  b \in r.listed /\ Number[b] <= Number[r.last]
    <3>1. b \notin S /\ b \notin p.blocks /\ (b \in p.proposals \/ p.votes[b] # {})
      BY <1>3, <2>3 DEF Forgotten
    <3>2. b \in p.listed /\ Number[b] <= Number[p.last]
      BY <3>1 DEF PoolIsWhole, PoolIsNested
    <3>3. Number[p.last] <= Number[L] BY <1>1, ChainGrows
    <3>4. Number[b] \in Nat /\ Number[p.last] \in Nat /\ Number[L] \in Nat BY <1>1, Typing
    <3>5. r.last = L /\ r.listed = p.listed \ lower BY <1>3 DEF Forgotten
    <3> QED BY <3>1, <3>2, <3>3, <3>4, <3>5
  <2> HIDE DEF S, lower, earlier
  <2>4. r.invalid \cap r.atEpoch \subseteq r.blocks
    BY <1>3 DEF Forgotten, PoolIsWhole, PoolIsNested
  <2> QED BY <1>3, <2>1, <2>2, <2>3, <2>4 DEF Forgotten, PoolIsWhole, PoolIsNested
<1> HIDE DEF S, lower, earlier
<1>8. PoolIsCounted(r)
  <2>1. ASSUME NEW b \in Block
        PROVE  r.tallied[b] = IF b \in r.blocks THEN StakeSum(b, r.votes[b]) ELSE 0
    BY <1>3 DEF Forgotten, PoolIsWhole, PoolIsCounted
  <2> QED BY <2>1 DEF PoolIsCounted
<1>9. PoolIsLinked(r, K)
  <2>1. IsInjective(<<>>) BY DEF IsInjective
  <2>2. ASSUME NEW b \in Block
        PROVE  IsInjective(r.children[b]) /\ (r.children[b] # <<>> => b \in K)
    BY <1>3, <2>1 DEF Forgotten, PoolIsWhole, PoolIsLinked
  <2>3. ASSUME NEW b \in r.blocks \ {Root}
        PROVE  Parent[b] \in K /\ (Parent[b] \in r.blocks => Contains(r.children[Parent[b]], b))
    BY <1>1, <1>3, Typing DEF Forgotten, PoolIsWhole, PoolIsLinked
  <2> QED BY <2>2, <2>3 DEF PoolIsLinked
<1>10. PoolIsNotarized(r)
  <2>1. ASSUME NEW b \in r.notarized \ {Root}
        PROVE  \E d \in Deciders(r, b) : IsMajority(r.tallied[b], TotalAtStake(d))
    <3>1. b \in p.notarized \ {Root} /\ b \in Block /\ r.tallied[b] = p.tallied[b]
      BY <1>1, <1>3 DEF Forgotten
    <3>2. Deciders(p, b) \subseteq Deciders(r, b)
      <4>1. r.last = L /\ Chain[p.last] \subseteq Chain[L] BY <1>1, <1>3, ChainGrows DEF Forgotten
      <4> QED BY <4>1 DEF Deciders
    <3> QED BY <3>1, <3>2 DEF PoolIsWhole, PoolIsNotarized
  <2>2. ASSUME NEW b \in r.blocks, L \in Chain[b]
        PROVE  /\ Chain[b] \ (Chain[L] \cup {b}) \subseteq r.notarized
               /\ b \notin r.notarized => ~IsMajority(r.tallied[b], TotalAtStake(Parent[b]))
    <3>1. b \in p.blocks /\ b \in Block /\ b \notin S /\ r.tallied[b] = p.tallied[b]
      BY <1>1, <1>3, <2>2 DEF Forgotten
    <3>2. p.last \in Chain[b] /\ Chain[p.last] \subseteq Chain[L]
      BY <1>1, <2>2, <3>1, ChainGrows
    <3>3. /\ Chain[b] \ (Chain[p.last] \cup {b}) \subseteq p.notarized
          /\ b \notin p.notarized => ~IsMajority(p.tallied[b], TotalAtStake(Parent[b]))
      BY <3>1, <3>2 DEF PoolIsWhole, PoolIsNotarized
    <3>4. ASSUME NEW x \in Chain[b], x \notin Chain[L] PROVE x \notin S
      <4>1. x \in Block /\ Number[x] \in Nat /\ Number[L] \in Nat BY <1>1, <3>1, <3>4, Typing
      <4>2. L \in Chain[x] BY <2>2, <3>1, <3>4, <4>1, ChainIsLinear
      <4> QED BY <1>4, <4>1, <4>2
    <3>5. r.notarized = p.notarized \ S BY <1>3 DEF Forgotten
    <3> QED BY <3>1, <3>2, <3>3, <3>4, <3>5
  <2>3. r.last = L /\ r.state = L BY <1>3 DEF Forgotten
  <2> QED BY <1>5, <2>1, <2>2, <2>3 DEF PoolIsNotarized
<1>11. ToSet(r.tips) \cap r.blocks \subseteq r.notarized
  BY <1>3 DEF Forgotten, PoolIsWhole, PoolHasTips
<1> DEFINE u == UpdateLongestNotarizedChains(r)
<1>12. PoolIsWhole(u, K) /\ u = [r EXCEPT !.tips = u.tips] /\ (HasTip(r) => HasTip(u))
  BY <1>3, <1>7, <1>8, <1>9, <1>10, <1>11, UpdateLongestKeeps DEF Forgotten
<1> HIDE DEF u
<1>13. Forgotten(p, u, L, S, lower, earlier)
  <2>1. u \in Pool /\ r \in Pool BY <1>3, <1>12 DEF PoolIsWhole, Forgotten
  <2>2. /\ u.last = r.last /\ u.state = r.state
        /\ u.blocks = r.blocks /\ u.proposals = r.proposals /\ u.votes = r.votes
        /\ u.tallied = r.tallied /\ u.notarized = r.notarized /\ u.children = r.children
        /\ u.atEpoch = r.atEpoch /\ u.listed = r.listed /\ u.dbs = r.dbs
        /\ u.invalid = r.invalid /\ u.against = r.against /\ u.highest = r.highest
    BY <1>12, <2>1 DEF Pool
  <2> QED BY <1>3, <2>1, <2>2 DEF Forgotten
<1>14. HasTip(p) /\ Head(p.tips) \notin S => HasTip(r)
  BY <1>3 DEF HasTip, Forgotten
<1> QED BY <1>2, <1>12, <1>13, <1>14 DEF u, S, lower, earlier

\* A finalization moves on to a notarized block above the last one, or does nothing.
LEMMA TryFinalizeKeeps ==
  ASSUME NEW p, NEW K, PoolIsWhole(p, K)
  PROVE  LET q == TryFinalizeChain(p)
         IN  /\ PoolIsWhole(q, K)
             /\ \/ q = p
                \/ \E c \in p.notarized :
                     /\ EndsWithThreeConsecutiveEpochs(c) /\ Number[c] >= Number[p.last] + 2
                     /\ c \in NotarizedAbove(p)
                     /\ Parent[c] \in p.notarized /\ Parent[c] # p.last /\ p.last \in Chain[Parent[c]]
                     /\ q = Finalized(p, Parent[c],
                              UNION {Evidence[b] : b \in Chain[Parent[c]] \ Chain[p.last]})
<1> DEFINE S == {b \in NotarizedAbove(p) : /\ Number[b] >= Number[p.last] + 2
                                           /\ EndsWithThreeConsecutiveEpochs(b)}
           chain == FinalizableChain(p)
<1>1. /\ p \in Pool /\ p.last \in Block /\ p.notarized \subseteq p.blocks
      /\ p.blocks \subseteq Block /\ IsFiniteSet(p.blocks) /\ p.dbs = p.blocks
      /\ p.last \in p.notarized
      /\ \A b \in p.blocks : p.last \in Chain[b] =>
           Chain[b] \ (Chain[p.last] \cup {b}) \subseteq p.notarized
      /\ \A b \in Block : IsInjective(p.children[b])
  BY DEF PoolIsWhole, PoolIsNested, PoolIsNotarized, PoolIsLinked, Pool
<1>2. NotarizedAbove(p) = {b \in p.notarized : p.last \in Chain[b]}
  BY <1>1, AboveIsNotarized DEF PoolIsWhole
<1>3. S \in SUBSET Block /\ IsFiniteSet(S)
  BY <1>1, <1>2, FS_Subset
<1>4. CASE chain = <<>>
  BY <1>4 DEF TryFinalizeChain
<1>5. CASE chain # <<>>
  <2> DEFINE c == Head(chain)
  <2>1. c \in Longest(S)
    <3>1. chain = LongestOf(p, S) BY DEF FinalizableChain
    <3> HIDE DEF chain, S
    <3> QED BY <1>1, <1>3, <1>5, <3>1, LongestIsWhole
  <2>2. /\ c \in p.notarized /\ p.last \in Chain[c] /\ c \in Block
        /\ Number[c] >= Number[p.last] + 2 /\ EndsWithThreeConsecutiveEpochs(c)
    BY <1>1, <1>2, <2>1 DEF Longest
  <2> HIDE DEF c
  <2>3. Number[p.last] \in Nat /\ Number[c] \in Nat BY <1>1, <2>2, Typing
  <2>4. c # p.last BY <2>2, <2>3
  <2>5. Parent[c] \in p.notarized /\ p.last \in Chain[Parent[c]]
    BY <1>1, <2>2, <2>4, PrevIsParent
  <2>6. Number[c] = Number[Parent[c]] + 1 BY <1>1, <2>2, <2>4, ChainOfParent
  <2>7. Parent[c] # p.last BY <2>2, <2>3, <2>6
  <2>8. (Chain[Parent[c]] \ Chain[p.last]) \ p.dbs = {}
    BY <1>1, <2>5
  <2>9. TryFinalizeChain(p) =
          Finalized(p, Parent[c], UNION {Evidence[b] : b \in Chain[Parent[c]] \ Chain[p.last]})
    BY <1>5, <2>8 DEF TryFinalizeChain, Finalized, c
  <2>10. PoolIsWhole(TryFinalizeChain(p), K)
    BY <2>5, <2>9, CleanUpKeeps
  <2>11. c \in NotarizedAbove(p) BY <1>2, <2>2
  <2> QED BY <2>2, <2>5, <2>7, <2>9, <2>10, <2>11
<1> QED BY <1>4, <1>5

-----------------------------------------------------------------------------
(* What a validator does with a proposal and a vote.                       *)

\* More blocks may have been tracked.
LEMMA WholeWithMore ==
  ASSUME NEW p, NEW K, NEW L, K \subseteq L, PoolIsWhole(p, K)
  PROVE  PoolIsWhole(p, L)
<1>1. PoolIsNested(p, L) BY DEF PoolIsWhole, PoolIsNested
<1>2. PoolIsLinked(p, L)
  <2> HIDE DEF PoolIsWhole
  <2> QED BY DEF PoolIsWhole, PoolIsLinked
<1> QED BY <1>1, <1>2 DEF PoolIsWhole

\* A block that was seen is in the pool or among the invalid ones.
LEMMA SeenIsInPool ==
  ASSUME NEW p, NEW b
  PROVE  /\ b \in p.blocks => HasSeenBlock(p, b)
         /\ HasSeenBlock(p, b) => b \in p.blocks \cup p.invalid
BY DEF HasSeenBlock, HasInfo

\* The ways through the checks of a proposal.
CheckedAs(p, m, r) ==
  LET b == m.block
      voted == AddLastVotes(p, m)
  IN  \/ r.pool = p /\ r.verdict = "invalid" /\ InvalidHeader(p, m)
      \/ r.pool = p /\ r.verdict = "ignored" /\ IsIgnored(p, m)
      \/ /\ HasPrevBlock(p, b)
         /\ \/ r.pool = voted /\ r.verdict = "invalid" /\ InvalidBody(voted, m)
            \/ r.pool = voted /\ r.verdict = "epoch_taken" /\ EpochTaken(voted, b)
            \/ /\ ~InvalidBody(voted, m) /\ ~EpochTaken(voted, b)
               /\ r.pool = [AddSeenBlock(voted, b, TRUE) EXCEPT !.dbs = @ \cup {b}]
               /\ r.verdict = IF ExtendsATip(r.pool, b) THEN "valid" ELSE "not_extending"

\* A verdict on a proposal says which checks it has passed or failed.
LEMMA ProposalIsChecked ==
  ASSUME NEW p, NEW m, ~HasSeenBlock(p, m.block)
  PROVE  CheckedAs(p, m, CheckProposal(p, m))
<1> DEFINE b == m.block
           voted == AddLastVotes(p, m)
           added == [AddSeenBlock(voted, b, TRUE) EXCEPT !.dbs = @ \cup {b}]
           r == CheckProposal(p, m)
<1>1. CASE InvalidHeader(p, m)
  BY <1>1 DEF CheckProposal, CheckedAs
<1>2. CASE ~InvalidHeader(p, m) /\ IsIgnored(p, m)
  BY <1>2 DEF CheckProposal, CheckedAs
<1>3. CASE ~InvalidHeader(p, m) /\ ~IsIgnored(p, m)
  <2>1. HasPrevBlock(p, b) BY <1>3 DEF IsIgnored
  <2>3. CASE InvalidBody(voted, m)
    BY <1>3, <2>1, <2>3 DEF CheckProposal, CheckedAs
  <2>4. CASE ~InvalidBody(voted, m) /\ EpochTaken(voted, b)
    BY <1>3, <2>1, <2>4 DEF CheckProposal, CheckedAs
  <2>5. CASE ~InvalidBody(voted, m) /\ ~EpochTaken(voted, b)
    <3>1. r = [pool |-> added, verdict |-> IF ExtendsATip(added, b) THEN "valid" ELSE "not_extending"]
      BY <1>3, <2>5 DEF CheckProposal
    <3> HIDE DEF voted, added, r
    <3>2. r.pool = added /\ r.verdict = IF ExtendsATip(r.pool, b) THEN "valid" ELSE "not_extending"
      BY <3>1
    <3> QED BY <2>1, <2>5, <3>2 DEF CheckedAs, voted, added, r
  <2> QED BY <2>3, <2>4, <2>5
<1> QED BY <1>1, <1>2, <1>3

\* The votes in last_votes are for a block of the pool, or for one of the number of
\* the last block.
LEMMA LastVotesHavePlace ==
  ASSUME NEW p, NEW K, PoolIsWhole(p, K), NEW b \in Block \ {Root}, HasPrevBlock(p, b)
  PROVE  HasPlace(p, Parent[b])
<1>1. CASE AboveLast(p, b)
  <2>1. Number[b] = Number[Parent[b]] + 1 /\ Number[Parent[b]] \in Nat
    BY Typing, TreeIsAssumed DEF TreeAssumption
  <2>2. Number[p.last] \in Nat BY Typing DEF PoolIsWhole, Pool
  <2> QED BY <1>1, <2>1, <2>2 DEF AboveLast, HasPlace
<1>2. CASE ~AboveLast(p, b)
  BY <1>2 DEF HasPrevBlock, HasPlace
<1> QED BY <1>1, <1>2

\* The blocks whose proposal is tracked after a proposal was handled.
TrackedAfter(p, K, m) ==
  IF CheckProposal(p, m).verdict \in {"valid", "not_extending", "epoch_taken"}
  THEN K \cup {m.block} ELSE K

\* The vote of t for the block of m is cast.
CastsVote(p, m, t) ==
  /\ CheckProposal(p, m).verdict = "valid"
  /\ VotesFor(CheckProposal(p, m).pool, Voter(t), m.block)

\* What the handling of a proposal may change.
HasHandled(p, q, m, t) ==
  /\ q.last = p.last
  /\ p.blocks \subseteq q.blocks /\ q.blocks \subseteq p.blocks \cup {m.block}
  /\ p.invalid \subseteq q.invalid /\ q.invalid \subseteq p.invalid \cup {m.block}
  /\ p.notarized \subseteq q.notarized
  /\ \A c \in Block : /\ p.votes[c] \subseteq q.votes[c]
                      /\ q.votes[c] \subseteq p.votes[c]
                                              \cup (IF c = Parent[m.block] THEN m.lastVotes ELSE {})
                                              \cup (IF c = m.block /\ CastsVote(p, m, t) THEN {t} ELSE {})
  /\ HasTip(p) => HasTip(q)
  /\ q.blocks # p.blocks => Parent[m.block] \in p.blocks
  /\ CheckProposal(p, m).verdict \notin {"invalid", "epoch_taken"} =>
       q.invalid = p.invalid /\ q.against = p.against
  /\ \A c \in Block \ {m.block} : q.against[c] = p.against[c]
  /\ CheckProposal(p, m).verdict \in {"invalid", "epoch_taken"} => q.blocks = p.blocks
  /\ CheckProposal(p, m).verdict = "epoch_taken" =>
       \E x \in p.atEpoch \ {m.block} : Epoch[x] = Epoch[m.block]
  /\ CastsVote(p, m, t) =>
       /\ Parent[m.block] \in q.notarized
       /\ Number[m.block] > 1 /\ HasTip(p) =>
            \A x \in p.notarized : p.last \in Chain[x] => Number[x] <= Number[Parent[m.block]]

\* A vote against a block only enters against it.
LEMMA CastAgainstKeeps ==
  ASSUME NEW p, NEW K, PoolIsWhole(p, K), NEW b \in Block, b \notin p.blocks \cup p.atEpoch,
         NEW t \in VoteTx,
         NEW q, q = CastVoteAgainst(AddInvalidBlock(p, b), b, t)
  PROVE  /\ PoolIsWhole(q, K)
         /\ q.last = p.last /\ q.blocks = p.blocks /\ q.votes = p.votes /\ q.tips = p.tips
         /\ q.notarized = p.notarized /\ q.invalid = p.invalid \cup {b}
         /\ \A c \in Block \ {b} : q.against[c] = p.against[c]
<1> DEFINE r == AddInvalidBlock(p, b)
           u == AddVoteAgainst(r, b, t)
<1>1. /\ PoolIsWhole(r, K)
      /\ r.last = p.last /\ r.blocks = p.blocks /\ r.votes = p.votes /\ r.tips = p.tips
      /\ r.notarized = p.notarized /\ r.invalid = p.invalid \cup {b} /\ r.against = p.against
  BY AddInvalidBlockKeeps
<1>2. q = r \/ q = u BY DEF CastVoteAgainst
<1> HIDE DEF r
<1>3. /\ PoolIsWhole(u, K)
      /\ u.last = r.last /\ u.blocks = r.blocks /\ u.votes = r.votes /\ u.tips = r.tips
      /\ u.notarized = r.notarized /\ u.invalid = r.invalid
      /\ \A c \in Block \ {b} : u.against[c] = r.against[c]
  <2>1. /\ PoolIsWhole(u, K)
        /\ \A f \in DOMAIN r \ {"listed", "against"} : u[f] = r[f]
    BY <1>1, AddVoteAgainstKeeps
  <2>2. {"last", "blocks", "votes", "tips", "notarized", "invalid"} \subseteq DOMAIN r
    BY <1>1 DEF PoolIsWhole, Pool
  <2>3. \A c \in Block \ {b} : u.against[c] = r.against[c]
    <3>1. r \in Pool BY <1>1 DEF PoolIsWhole
    <3>2. r.against \in [Block -> SUBSET VoteTx] BY <3>1 DEF Pool
    <3>3. u.against = [r.against EXCEPT ![b] = @ \cup {t}] BY <3>1 DEF Pool, AddVoteAgainst
    <3> QED BY <3>2, <3>3
  <2> QED BY <2>1, <2>2, <2>3
<1> HIDE DEF u
<1> QED BY <1>1, <1>2, <1>3

\* Handling a proposal keeps the pool whole, whatever the verdict is.
LEMMA AfterProposalKeeps ==
  ASSUME NEW p, NEW K, PoolIsWhole(p, K), NEW m \in Proposal,
         m.block \notin K, ~HasSeenBlock(p, m.block), NEW t \in VoteTx
  PROVE  /\ PoolIsWhole(AfterProposal(p, m, t), TrackedAfter(p, K, m))
         /\ HasHandled(p, AfterProposal(p, m, t), m, t)
<1> DEFINE b == m.block
           voted == AddLastVotes(p, m)
           r == CheckProposal(p, m)
           q == AfterProposal(p, m, t)
<1>1. CheckedAs(p, m, r) BY ProposalIsChecked
<1>2. /\ b \in Block \ {Root} /\ Parent[b] \in Block /\ b \notin p.blocks \cup p.atEpoch
      /\ m.lastVotes \in SUBSET VoteTx
  BY Typing DEF PoolIsWhole, PoolIsNested, Proposal
<1>3. /\ r.verdict = "valid" => q = CastVoteFor(r.pool, b, t)
      /\ r.verdict \in {"invalid", "epoch_taken"}
           => q = CastVoteAgainst(AddInvalidBlock(r.pool, b), b, t)
      /\ r.verdict \in {"ignored", "not_extending"} => q = r.pool
  BY DEF AfterProposal
<1>4. /\ r.verdict \in {"valid", "not_extending", "epoch_taken"} => TrackedAfter(p, K, m) = K \cup {b}
      /\ r.verdict \in {"invalid", "ignored"} => TrackedAfter(p, K, m) = K
      /\ CastsVote(p, m, t) <=> r.verdict = "valid" /\ VotesFor(r.pool, Voter(t), b)
  BY DEF TrackedAfter, CastsVote
<1> HIDE DEF q, r, voted
<1>5. CASE r.pool = p /\ r.verdict = "invalid"
  BY <1>2, <1>3, <1>4, <1>5, CastAgainstKeeps DEF HasHandled, HasTip, q, r
<1>6. CASE r.pool = p /\ r.verdict = "ignored"
  BY <1>3, <1>4, <1>6 DEF HasHandled, q, r
<1>7. ASSUME HasPrevBlock(p, b)
      PROVE  PoolIsWhole(voted, K) /\ HasMoreVotes(p, voted, Parent[b], m.lastVotes)
  BY <1>2, <1>7, LastVotesHavePlace, AddLastVotesKeeps DEF voted
<1>8. CASE HasPrevBlock(p, b) /\ r.pool = voted /\ r.verdict \in {"invalid", "epoch_taken"}
  <2>1. PoolIsWhole(voted, K) /\ HasMoreVotes(p, voted, Parent[b], m.lastVotes)
    BY <1>7, <1>8
  <2>2. b \notin voted.blocks \cup voted.atEpoch BY <1>2, <2>1 DEF HasMoreVotes
  <2>3. q = CastVoteAgainst(AddInvalidBlock(voted, b), b, t) BY <1>3, <1>8
  <2>4. /\ PoolIsWhole(q, K)
        /\ q.last = voted.last /\ q.blocks = voted.blocks /\ q.votes = voted.votes
        /\ q.tips = voted.tips /\ q.notarized = voted.notarized /\ q.invalid = voted.invalid \cup {b}
        /\ \A c \in Block \ {b} : q.against[c] = voted.against[c]
    BY <1>2, <2>1, <2>2, <2>3, CastAgainstKeeps
  <2>5. PoolIsWhole(q, TrackedAfter(p, K, m))
    BY <1>4, <1>8, <2>4, WholeWithMore
  <2>6. HasTip(p) => HasTip(q)
    BY <2>1, <2>4 DEF HasTip, HasMoreVotes
  <2>7. r.verdict = "epoch_taken" => \E x \in p.atEpoch \ {b} : Epoch[x] = Epoch[b]
    <3>1. r.verdict = "epoch_taken" => EpochTaken(voted, b)
      BY <1>1, <1>8 DEF CheckedAs, voted
    <3> QED BY <2>1, <3>1 DEF EpochTaken, HasMoreVotes
  <2>8. \A c \in Block \ {b} : q.against[c] = p.against[c]
    BY <2>1, <2>4 DEF HasMoreVotes
  <2>9. HasHandled(p, q, m, t)
    BY <1>4, <1>8, <2>1, <2>4, <2>6, <2>7, <2>8 DEF HasHandled, HasMoreVotes, r
  <2> QED BY <2>5, <2>9 DEF q
<1>9. CASE /\ HasPrevBlock(p, b)
           /\ ~InvalidBody(voted, m)
           /\ r.pool = [AddSeenBlock(voted, b, TRUE) EXCEPT !.dbs = @ \cup {b}]
           /\ r.verdict = IF ExtendsATip(r.pool, b) THEN "valid" ELSE "not_extending"
  <2>1. PoolIsWhole(voted, K) /\ HasMoreVotes(p, voted, Parent[b], m.lastVotes)
    BY <1>7, <1>9
  <2>2. Parent[b] \in voted.notarized /\ Parent[b] \in p.blocks
    BY <1>9, <2>1 DEF InvalidBody, HasMoreVotes, PoolIsWhole, PoolIsNested
  <2>3. /\ PoolIsWhole(r.pool, K \cup {b})
        /\ r.pool.last = voted.last /\ r.pool.blocks = voted.blocks \cup {b}
        /\ r.pool.votes = voted.votes /\ voted.notarized \subseteq r.pool.notarized
        /\ r.pool.invalid = voted.invalid /\ r.pool.against = voted.against
        /\ HasTip(voted) => HasTip(r.pool)
    <3>1. b \in Block \ {Root} /\ b \notin K BY <1>2
    <3>2. PoolIsWhole(voted, K) BY <2>1
    <3>3. r.pool = Added(voted, b) BY <1>9 DEF Added
    <3> HIDE DEF b
    <3> QED BY <2>2, <3>1, <3>2, <3>3, AddSeenBlockKeeps
  <2>4. r.verdict \in {"valid", "not_extending"} /\ TrackedAfter(p, K, m) = K \cup {b}
    BY <1>4, <1>9
  <2>5. /\ HasTip(p) => HasTip(r.pool)
        /\ Parent[b] \in r.pool.notarized
        /\ p.invalid = r.pool.invalid /\ p.against = r.pool.against
    BY <2>1, <2>2, <2>3 DEF HasMoreVotes
  <2>6. ASSUME r.verdict = "valid", Number[b] > 1, HasTip(p), NEW x \in p.notarized, p.last \in Chain[x]
        PROVE  Number[x] <= Number[Parent[b]]
    <3>0. ExtendsATip(r.pool, b) BY <1>9, <2>6
    <3>1. Parent[b] \in ToSet(r.pool.tips)
      <4>1. Contains(r.pool.tips, Parent[b]) BY <2>6, <3>0 DEF ExtendsATip
      <4>2. r.pool.tips \in Seq(Block) BY <2>3 DEF PoolIsWhole, Pool
      <4>3. PICK i \in 1 .. Len(r.pool.tips) : r.pool.tips[i] = Parent[b]
        BY <4>1 DEF Contains
      <4> QED BY <4>2, <4>3 DEF ToSet
    <3>2. HasTip(r.pool) BY <2>5, <2>6
    <3>3. ToSet(r.pool.tips) = Longest(NotarizedAbove(r.pool))
      BY <2>3, <3>2 DEF PoolIsWhole, PoolHasTips, HasTip
    <3>4. NotarizedAbove(r.pool) = {c \in r.pool.notarized : r.pool.last \in Chain[c]}
      BY <2>3, AboveIsNotarized DEF PoolIsWhole, PoolIsNotarized
    <3>5. x \in NotarizedAbove(r.pool)
      BY <2>1, <2>3, <2>6, <3>4 DEF HasMoreVotes
    <3> QED BY <3>1, <3>3, <3>5 DEF Longest
  <2>7. CASE q = r.pool
    <3>1. HasHandled(p, q, m, t)
      BY <1>4, <1>9, <2>1, <2>2, <2>3, <2>5, <2>6, <2>7 DEF HasHandled, HasMoreVotes, r
    <3> QED BY <2>3, <2>4, <2>7, <3>1 DEF q
  <2>8. CASE q = AddVoteFor(r.pool, b, t) /\ CastsVote(p, m, t)
    <3>1. PoolIsWhole(q, K \cup {b}) /\ HasMoreVotes(r.pool, q, b, {t})
      <4>1. HasPlace(r.pool, b) BY <2>3 DEF HasPlace
      <4> QED BY <1>2, <2>3, <2>8, <4>1, AddVoteForKeeps
    <3>2. /\ HasTip(p) => HasTip(q)
          /\ Parent[b] \in q.notarized
          /\ q.invalid = p.invalid /\ q.against = p.against /\ q.last = p.last
          /\ q.blocks = p.blocks \cup {b}
          /\ p.notarized \subseteq q.notarized
      BY <2>1, <2>3, <2>5, <3>1 DEF HasMoreVotes
    <3>3. ASSUME NEW c \in Block
          PROVE  /\ p.votes[c] \subseteq q.votes[c]
                 /\ q.votes[c] \subseteq p.votes[c]
                                         \cup (IF c = Parent[b] THEN m.lastVotes ELSE {})
                                         \cup (IF c = b THEN {t} ELSE {})
      BY <2>1, <2>3, <3>1 DEF HasMoreVotes
    <3>4. p.invalid \subseteq q.invalid /\ q.invalid \subseteq p.invalid \cup {b}
      BY <3>2
    <3>5. HasHandled(p, q, m, t)
      BY <1>4, <1>9, <2>2, <2>4, <2>6, <2>8, <3>2, <3>3, <3>4 DEF HasHandled, r
    <3> QED BY <2>4, <3>1, <3>5 DEF q
  <2> QED BY <1>3, <1>4, <2>4, <2>7, <2>8 DEF CastVoteFor
<1> QED BY <1>1, <1>5, <1>6, <1>8, <1>9 DEF CheckedAs, voted

-----------------------------------------------------------------------------
(* The pool of a node that starts.                                         *)

\* A set of natural numbers has a smallest one, which is its Min.
LEMMA MinOfNat ==
  ASSUME NEW S \in SUBSET Nat, S # {} PROVE Min(S) \in S /\ \A k \in S : Min(S) <= k
<1> DEFINE R == {ss \in Nat \X Nat : ss[1] < ss[2]}
<1>1. IsWellFoundedOn(R, Nat) BY NatLessThanWellFounded DEF OpToRel
<1>2. \E n \in S : \A k \in S : ~(<<k, n>> \in R)
  <2> HIDE DEF R
  <2> QED BY <1>1, WFMin
<1>3. PICK n \in S : \A k \in S : ~(<<k, n>> \in R) BY <1>2
<1>4. ASSUME NEW k \in S PROVE n <= k
  <2>1. k \in Nat /\ n \in Nat /\ <<k, n>> \notin R BY <1>3
  <2>2. ~(k < n) BY <2>1
  <2> QED BY <2>1, <2>2
<1> QED BY <1>4 DEF Min

\* The nonce of a validator's own vote is one of Nonce.
LEMMA NonceHasMin == Min(Nonce) \in Nonce
BY MinOfNat, VoteTxIsAssumed

\* The votes for Root.
RootVotes == IF Number[Root] = 0 THEN {} ELSE {n \in Node : Stake[Root][n] > 0} \X {Min(Nonce)}

\* The fields of the first pool.
LEMMA InitPoolIs ==
  LET q == InitPool
  IN  /\ q.last = Root /\ q.state = Root /\ q.blocks = {Root}
      /\ q.proposals = IF Number[Root] = 0 THEN {} ELSE {Root}
      /\ q.notarized = {Root} /\ q.tips = <<Root>> /\ q.atEpoch = {Root}
      /\ q.listed = {Root} /\ q.dbs = {Root} /\ q.invalid = {} /\ q.highest = Number[Root]
      /\ q.votes = [b \in Block |-> IF b = Root THEN RootVotes ELSE {}]
      /\ q.tallied = [b \in Block |-> IF b = Root THEN StakeSum(b, RootVotes) ELSE 0]
      /\ q.children = [b \in Block |-> <<>>] /\ q.against = [b \in Block |-> {}]
      /\ InitPool \in Pool
<1> DEFINE votes == [b \in Block |-> IF b = Root THEN RootVotes ELSE {}]
           tallied == [b \in Block |-> IF b = Root THEN StakeSum(b, RootVotes) ELSE 0]
           kids == [b \in Block |-> <<>>]
           against == [b \in Block |-> {}]
           proposals == IF Number[Root] = 0 THEN {} ELSE {Root}
           r == [last |-> Root, state |-> Root, blocks |-> {Root}, proposals |-> proposals,
                 votes |-> votes, tallied |-> tallied, notarized |-> {Root}, children |-> kids,
                 tips |-> <<Root>>, atEpoch |-> {Root}, listed |-> {Root}, dbs |-> {Root},
                 invalid |-> {}, against |-> against, highest |-> Number[Root]]
<1>1. RootVotes \in SUBSET VoteTx BY NonceHasMin DEF RootVotes, VoteTx
<1>2. /\ votes \in [Block -> SUBSET VoteTx] /\ tallied \in [Block -> Nat]
      /\ kids \in [Block -> Seq(Block)] /\ against \in [Block -> SUBSET VoteTx]
      /\ proposals \in SUBSET Block
  BY <1>1, StakeSumIsNat, Typing
<1>3. InitPool = r
  BY Zenon DEF InitPool, PoolAbove, RootVotes, StakeSum, Voter
<1> HIDE DEF votes, tallied, kids, against, proposals
<1>4. r \in Pool BY <1>2, Typing DEF Pool
<1>5. /\ r.last = Root /\ r.state = Root /\ r.blocks = {Root} /\ r.proposals = proposals
      /\ r.notarized = {Root} /\ r.tips = <<Root>> /\ r.atEpoch = {Root}
      /\ r.listed = {Root} /\ r.dbs = {Root} /\ r.invalid = {} /\ r.highest = Number[Root]
      /\ r.votes = votes /\ r.tallied = tallied /\ r.children = kids /\ r.against = against
  OBVIOUS
<1> HIDE DEF r
<1> QED BY <1>3, <1>4, <1>5, Zenon DEF votes, tallied, kids, against, proposals

\* The first pool is whole.
LEMMA InitPoolIsWhole == PoolIsWhole(InitPool, {Root})
<1> DEFINE q == InitPool
<1>1. /\ q \in Pool /\ q.last = Root /\ q.state = Root /\ q.blocks = {Root}
      /\ q.proposals = IF Number[Root] = 0 THEN {} ELSE {Root}
      /\ q.notarized = {Root} /\ q.tips = <<Root>> /\ q.atEpoch = {Root}
      /\ q.listed = {Root} /\ q.dbs = {Root} /\ q.invalid = {}
  BY InitPoolIs, Zenon
<1>2. \A b \in Block : /\ q.votes[b] = IF b = Root THEN RootVotes ELSE {}
                       /\ q.tallied[b] = IF b = Root THEN StakeSum(b, RootVotes) ELSE 0
                       /\ q.children[b] = <<>>
  BY InitPoolIs
<1> HIDE DEF q
<1>3. ToSet(q.tips) = {Root} /\ q.tips # <<>> /\ Head(q.tips) = Root
  BY <1>1 DEF ToSet
<1>4. PoolIsNested(q, {Root})
  <2>1. IsFiniteSet({Root}) BY FS_Singleton
  <2>2. \A b \in Block \ {Root} : b \notin q.proposals /\ q.votes[b] = {} BY <1>1, <1>2
  <2> QED BY <1>1, <1>3, <2>1, <2>2, Typing DEF PoolIsNested
<1>5. PoolIsCounted(q)
  <2>1. ASSUME NEW b \in Block
        PROVE  q.tallied[b] = IF b \in q.blocks THEN StakeSum(b, q.votes[b]) ELSE 0
    <3>1. CASE b = Root
      <4>1. q.votes[b] = RootVotes /\ q.tallied[b] = StakeSum(b, RootVotes) BY <1>2, <3>1
      <4> QED BY <1>1, <3>1, <4>1
    <3>2. CASE b # Root BY <1>1, <1>2, <3>2
    <3> QED BY <3>1, <3>2
  <2> QED BY <2>1 DEF PoolIsCounted
<1>6. PoolIsLinked(q, {Root})
  <2>1. IsInjective(<<>>) BY DEF IsInjective
  <2> QED BY <1>1, <1>2, <2>1 DEF PoolIsLinked
<1>7. PoolIsNotarized(q)
  BY <1>1, TreeIsAssumed DEF PoolIsNotarized, TreeAssumption
<1>8. NotarizedAbove(q) = {Root}
  <2>1. NotarizedAbove(q) = {b \in q.notarized : q.last \in Chain[b]}
    BY <1>1, <1>4, <1>6, <1>7, AboveIsNotarized DEF PoolIsNotarized
  <2> QED BY <1>1, <2>1, Typing
<1>9. Longest({Root}) = {Root} BY Typing DEF Longest
<1>10. PoolHasTips(q) BY <1>1, <1>3, <1>8, <1>9 DEF PoolHasTips
<1> QED BY <1>1, <1>4, <1>5, <1>6, <1>7, <1>10 DEF PoolIsWhole, q

-----------------------------------------------------------------------------
(* The step of a finalization, seen from outside.                          *)

\* From p, the blocks up to the predecessor of c were finalized.
HasFinalized(p, q, c) ==
  LET L == Parent[c]
      recorded == UNION {Evidence[b] : b \in Chain[L] \ Chain[p.last]}
  IN  /\ c \in p.notarized /\ c # p.last /\ c \in Block
      /\ EndsWithThreeConsecutiveEpochs(c)
      /\ Number[c] >= Number[p.last] + 2
      /\ L \in p.notarized /\ L # p.last /\ p.last \in Chain[L] /\ L \in Chain[c]
      /\ q.last = L /\ q.highest = p.highest
      /\ \A b \in Block : L \in Chain[b] =>
           /\ b \in p.blocks => b \in q.blocks
           /\ b \in p.notarized => b \in q.notarized
           /\ q.votes[b] = p.votes[b]
      /\ q.blocks \subseteq p.blocks /\ q.notarized \subseteq p.notarized
      /\ \A b \in Block : q.votes[b] \subseteq p.votes[b]
      /\ \A b \in q.blocks : q.votes[b] = p.votes[b]
      /\ q.invalid \subseteq p.invalid /\ q.atEpoch \subseteq p.atEpoch
      /\ \A b \in Block : q.against[b] \subseteq p.against[b]
      /\ HasTip(p) /\ L \in Chain[Head(p.tips)] => HasTip(q)
      /\ \A b \in q.dbs : Number[b] >= Number[L] \/ HasInvalidInfo(p, b)
      /\ \A b \in p.atEpoch \ q.atEpoch : Epoch[b] < Epoch[L]
      /\ \A b \in p.blocks \ q.blocks : Number[b] < Number[L] \/ Epoch[b] < Epoch[L]
      /\ \A b \in p.invalid \ (q.invalid \cup p.blocks) :
           b \in recorded \/ Number[b] < Number[L] - MaxInvalidOnMem

\* tryFinalizeChain keeps the pool whole; it finalizes a block or changes nothing.
LEMMA FinalizationIs ==
  ASSUME NEW p, NEW K, PoolIsWhole(p, K)
  PROVE  /\ PoolIsWhole(TryFinalizeChain(p), K)
         /\ \/ TryFinalizeChain(p) = p
            \/ \E c \in Block : HasFinalized(p, TryFinalizeChain(p), c)
<1> DEFINE q == TryFinalizeChain(p)
<1>1. PoolIsWhole(q, K) BY TryFinalizeKeeps
<1> SUFFICES ASSUME q # p PROVE \E c \in Block : HasFinalized(p, q, c)
  BY <1>1
<1>2. PICK c \in p.notarized :
        /\ EndsWithThreeConsecutiveEpochs(c) /\ Number[c] >= Number[p.last] + 2
        /\ c \in NotarizedAbove(p)
        /\ Parent[c] \in p.notarized /\ Parent[c] # p.last /\ p.last \in Chain[Parent[c]]
        /\ q = Finalized(p, Parent[c],
                         UNION {Evidence[b] : b \in Chain[Parent[c]] \ Chain[p.last]})
  BY TryFinalizeKeeps
<1> HIDE DEF q
<1> DEFINE L == Parent[c]
           recorded == UNION {Evidence[b] : b \in Chain[L] \ Chain[p.last]}
<1>3. /\ p \in Pool /\ c \in Block /\ L \in Block /\ p.last \in Block /\ p.blocks \subseteq Block
      /\ p.notarized \subseteq p.blocks /\ p.blocks \subseteq p.listed
      /\ p.invalid \cap p.atEpoch \subseteq p.blocks /\ p.dbs = p.blocks
      /\ p.listed \subseteq Block /\ p.atEpoch \subseteq Block /\ p.invalid \subseteq Block
      /\ Number[c] \in Nat /\ Number[L] \in Nat /\ Number[p.last] \in Nat /\ MaxInvalidOnMem \in Nat
  BY <1>2, Typing, StakeIsAssumed DEF PoolIsWhole, PoolIsNested, Pool, StakeAssumption
<1>4. c # Root /\ L \in Chain[c] /\ c # p.last
  BY <1>2, <1>3, Typing, TreeIsAssumed DEF EndsWithThreeConsecutiveEpochs, TreeAssumption
<1>5. PICK S, lower, earlier :
        /\ Forgotten(p, q, L, S, lower, earlier) /\ S = lower \cup earlier
        /\ HasTip(p) /\ Head(p.tips) \notin S => HasTip(q)
        /\ lower = {b \in p.listed : /\ Number[b] < Number[L]
                                     /\ \/ ~HasInvalidInfo(p, b)
                                        \/ b \in recorded
                                        \/ Number[b] < Number[L] - MaxInvalidOnMem}
        /\ earlier = {b \in p.atEpoch : Epoch[b] < Epoch[L]}
  <2>1. L \in p.notarized /\ p.last \in Chain[L] /\ q = Finalized(p, L, recorded)
    BY <1>2
  <2> HIDE DEF recorded, L
  <2> QED BY <2>1, CleanUpKeeps
<1>6. \A b \in S : Number[b] < Number[L] \/ Epoch[b] < Epoch[L]
  BY <1>5
<1>7. ASSUME NEW b \in Block, L \in Chain[b] PROVE b \notin S
  <2>1. Number[L] <= Number[b] /\ Epoch[L] <= Epoch[b] BY <1>3, <1>7, ChainGrows
  <2>2. Number[b] \in Nat /\ Epoch[L] \in Nat /\ Epoch[b] \in Nat BY <1>3, Typing
  <2> QED BY <1>3, <1>6, <2>1, <2>2
<1>8. ASSUME NEW b \in q.dbs PROVE Number[b] >= Number[L] \/ HasInvalidInfo(p, b)
  <2>1. b \in p.listed /\ b \in Block /\ Number[b] \in Nat /\ b \notin lower
    BY <1>3, <1>5, Typing DEF Forgotten
  <2> QED BY <1>3, <1>5, <2>1
<1>9. ASSUME NEW b \in p.invalid \ (q.invalid \cup p.blocks)
      PROVE  b \in recorded \/ Number[b] < Number[L] - MaxInvalidOnMem
  <2>1. b \in lower BY <1>3, <1>5 DEF Forgotten
  <2> QED BY <1>5, <2>1 DEF HasInvalidInfo
<1>10. /\ q.last = L /\ q.highest = p.highest
       /\ q.blocks = p.blocks \ S /\ q.notarized = p.notarized \ S
       /\ q.invalid = p.invalid \ S /\ q.atEpoch = p.atEpoch \ earlier
       /\ \A b \in Block : /\ q.votes[b] = IF b \in S THEN {} ELSE p.votes[b]
                           /\ q.against[b] = IF b \in S THEN {} ELSE p.against[b]
       /\ \A b \in earlier : Epoch[b] < Epoch[L]
  BY <1>5 DEF Forgotten
<1> HIDE DEF L, recorded
<1>11. HasFinalized(p, q, c)
  <2>1. /\ c \in p.notarized /\ c # p.last /\ c \in Block
        /\ EndsWithThreeConsecutiveEpochs(c) /\ Number[c] >= Number[p.last] + 2
        /\ L \in p.notarized /\ L # p.last /\ p.last \in Chain[L] /\ L \in Chain[c]
    BY <1>2, <1>3, <1>4 DEF L
  <2>2. \A b \in Block : L \in Chain[b] => /\ b \in p.blocks => b \in q.blocks
                                           /\ b \in p.notarized => b \in q.notarized
                                           /\ q.votes[b] = p.votes[b]
    BY <1>7, <1>10
  <2>3. /\ \A b \in p.atEpoch \ q.atEpoch : Epoch[b] < Epoch[L]
        /\ \A b \in p.blocks \ q.blocks : Number[b] < Number[L] \/ Epoch[b] < Epoch[L]
    BY <1>6, <1>10
  <2>4. /\ q.blocks \subseteq p.blocks /\ q.notarized \subseteq p.notarized
        /\ \A b \in Block : q.votes[b] \subseteq p.votes[b]
        /\ \A b \in q.blocks : q.votes[b] = p.votes[b]
        /\ q.invalid \subseteq p.invalid /\ q.atEpoch \subseteq p.atEpoch
        /\ \A b \in Block : q.against[b] \subseteq p.against[b]
        /\ q.last = L /\ q.highest = p.highest
    BY <1>3, <1>10
  <2>5. HasTip(p) /\ L \in Chain[Head(p.tips)] => HasTip(q)
    BY <1>3, <1>5, <1>7 DEF HasTip
  <2> QED BY <1>8, <1>9, <2>1, <2>2, <2>3, <2>4, <2>5 DEF HasFinalized, L, recorded
<1> QED BY <1>3, <1>11

-----------------------------------------------------------------------------
(* Sums of more votes, and of the votes of all.                            *)

\* More votes have no less stake.
LEMMA StakeSumGrows ==
  ASSUME NEW b \in Block, NEW W \in SUBSET VoteTx, NEW V \in SUBSET W
  PROVE  StakeSum(b, V) <= StakeSum(b, W)
<1> DEFINE D == W \ V
           M == {T \in SUBSET D : ~(StakeSum(b, V) <= StakeSum(b, V \cup T))}
<1>1. IsFiniteSet(D) /\ M \in SUBSET SUBSET D
  BY VotesAreFinite
<1>2. \A T \in SUBSET D : V \cup T \in SUBSET VoteTx /\ StakeSum(b, V \cup T) \in Nat
  BY StakeSumIsNat
<1>3. ASSUME M # {} PROVE FALSE
  <2>1. PICK T \in M : \A U \in M : U \subseteq T => U = T
    <3> HIDE DEF D, M
    <3> QED BY <1>1, <1>3, SmallestSubset
  <2>2. T # {}
    <3>1. V \cup {} = V /\ StakeSum(b, V) \in Nat BY StakeSumIsNat
    <3> QED BY <2>1, <3>1
  <2>3. PICK t \in T : TRUE BY <2>2
  <2> DEFINE U == T \ {t}
  <2>4. U \in SUBSET D /\ U \subseteq T /\ U # T /\ t \notin V \cup U /\ t \in VoteTx
    BY <2>1, <2>3
  <2>5. StakeSum(b, V) <= StakeSum(b, V \cup U)
    BY <2>1, <2>4
  <2>6. V \cup T = (V \cup U) \cup {t} BY <2>3
  <2>7. StakeSum(b, V \cup T) = StakeSum(b, V \cup U) + Stake[b][Voter(t)]
    <3> HIDE DEF U, D, M
    <3>1. V \cup U \in SUBSET VoteTx BY <1>2, <2>4
    <3> QED BY <2>4, <2>6, <3>1, StakeSumOfMore
  <2>8. Stake[b][Voter(t)] \in Nat BY <2>4, StakeTyping
  <2>9. StakeSum(b, V) \in Nat /\ StakeSum(b, V \cup U) \in Nat
    BY <1>2, <2>4, StakeSumIsNat
  <2>10. StakeSum(b, V) <= StakeSum(b, V \cup T)
    <3> HIDE DEF U, D, M
    <3> QED BY <2>5, <2>7, <2>8, <2>9
  <2> QED BY <2>1, <2>10
<1>4. D \in SUBSET D /\ V \cup D = W OBVIOUS
<1> HIDE DEF D
<1> QED BY <1>3, <1>4

\* One more validator in a sum of stakes.
NodeSum(b, S) == NodeSums!Fold(b, 0, S)

\* The stake of one more validator is added.
LEMMA NodeSumOfMore ==
  ASSUME NEW b \in Block, NEW S \in SUBSET Node, NEW n \in Node, n \notin S
  PROVE  /\ NodeSum(b, S) \in Nat
         /\ NodeSum(b, S \cup {n}) = NodeSum(b, S) + Stake[b][n]
<1> DEFINE W == S \cup {n}
           I == Nat
<1>1. /\ NodeSums!IsFiniteSet(W) /\ NodeSums!Picks(W) /\ NodeSums!IsFiniteSet(S)
      /\ NodeSums!Picks(S) /\ 0 \in I /\ n \in W /\ W \ {n} = S /\ W \in SUBSET Node
  <2>1. IsFiniteSet(W) /\ IsFiniteSet(S) BY VoteTxIsAssumed, FS_Subset
  <2> QED BY <2>1, SumsOverFinite
<1> HIDE DEF W
<1>2. NodeSums!Keeps(b, W, I) /\ NodeSums!Keeps(b, S, I)
  BY <1>1, StakeTyping DEF Plus, StakeOfNode, NodeSums!Keeps
<1>3. NodeSums!Commutes(b, W, I)
  BY <1>1, StakeTyping DEF Plus, StakeOfNode, NodeSums!Commutes
<1> HIDE DEF I
<1>4. NodeSums!Fold(b, 0, W) = Plus(b, StakeOfNode(b, n), NodeSums!Fold(b, 0, W \ {n}))
  BY <1>1, <1>2, <1>3, NodeSums!FoldAnyLast
<1>5. NodeSums!Fold(b, 0, S) \in I
  BY <1>1, <1>2, NodeSums!FoldKeeps
<1>6. NodeSum(b, W) = StakeOfNode(b, n) + NodeSum(b, S) /\ NodeSum(b, S) \in Nat
  BY <1>1, <1>4, <1>5 DEF NodeSum, Plus, I
<1>7. StakeOfNode(b, n) \in Nat BY StakeTyping DEF StakeOfNode
<1> QED BY <1>6, <1>7 DEF StakeOfNode, W

\* The votes of all validators that have a stake are the total.
LEMMA VotesOfAll ==
  ASSUME NEW b \in Block, NEW k \in Nonce
  PROVE  StakeSum(b, {n \in Node : Stake[b][n] > 0} \X {k}) = TotalAtStake(b)
<1> DEFINE Votes(S) == {n \in S : Stake[b][n] > 0} \X {k}
           M == {S \in SUBSET Node : StakeSum(b, Votes(S)) # NodeSum(b, S)}
<1>1. IsFiniteSet(Node) /\ M \in SUBSET SUBSET Node BY VoteTxIsAssumed
<1>2. ASSUME M # {} PROVE FALSE
  <2>1. PICK T \in M : \A U \in M : U \subseteq T => U = T
    <3> HIDE DEF M
    <3> QED BY <1>1, <1>2, SmallestSubset
  <2>2. T # {}
    <3>1. Votes({}) = {} OBVIOUS
    <3>2. StakeSum(b, Votes({})) = 0 BY <3>1, StakeSumOfNone
    <3>3. NodeSum(b, {}) = 0 BY NodeSums!FoldEmpty DEF NodeSum
    <3> QED BY <2>1, <3>2, <3>3
  <2>3. PICK n \in T : TRUE BY <2>2
  <2> DEFINE U == T \ {n}
  <2>4. /\ U \in SUBSET Node /\ n \in Node /\ n \notin U /\ T = U \cup {n}
        /\ U \subseteq T /\ U # T
    BY <2>1, <2>3
  <2>5. StakeSum(b, Votes(U)) = NodeSum(b, U)
    BY <2>1, <2>4
  <2>6. NodeSum(b, U) \in Nat /\ NodeSum(b, T) = NodeSum(b, U) + Stake[b][n]
    <3> HIDE DEF U
    <3> QED BY <2>4, NodeSumOfMore
  <2>7. Stake[b][n] \in Nat BY <2>4, StakeTyping
  <2>8. CASE Stake[b][n] = 0
    <3>1. Votes(T) = Votes(U) BY <2>4, <2>8
    <3> QED BY <2>1, <2>5, <2>6, <2>8, <3>1
  <2>9. CASE Stake[b][n] > 0
    <3> DEFINE X == Votes(U)
               t == <<n, k>>
    <3>1. /\ Votes(T) = X \cup {t} /\ t \notin X
          /\ t \in VoteTx /\ X \in SUBSET VoteTx /\ Voter(t) = n
      BY <2>4, <2>9 DEF VoteTx, Voter
    <3>2. StakeSum(b, X) = NodeSum(b, U) BY <2>5
    <3> HIDE DEF X, t, Votes
    <3>3. StakeSum(b, X \cup {t}) = StakeSum(b, X) + Stake[b][Voter(t)]
      BY <3>1, StakeSumOfMore
    <3>4. StakeSum(b, Votes(T)) = NodeSum(b, T)
      BY <2>6, <3>1, <3>2, <3>3
    <3> QED BY <2>1, <3>4
  <2> QED BY <2>7, <2>8, <2>9
<1>3. StakeSum(b, Votes(Node)) = NodeSum(b, Node)
  <2> HIDE DEF Votes
  <2> QED BY <1>2
<1> QED BY <1>3, TotalIsFold DEF NodeSum

-----------------------------------------------------------------------------
(* The block to propose on.                                                *)

\* With one vote of each validator, all the votes for a block are valid ones.
LEMMA FirstVotesAreAll ==
  ASSUME NEW k \in Nonce, NEW V \in SUBSET (Node \X {k})
  PROVE  FirstVotes(V) = V
BY VoteTxIsAssumed DEF FirstVotes, Voter

\* The tip of the latest epoch, or the last block, is notarized.
LEMMA LastNotarizedIsNotarized ==
  ASSUME NEW p, NEW K, PoolIsWhole(p, K)
  PROVE  LastNotarizedBlock(p) \in p.notarized
<1> DEFINE candidates == {p.last} \cup (ToSet(p.tips) \cap p.blocks)
           latest == {b \in candidates : \A d \in candidates : Epoch[d] <= Epoch[b]}
           places == {i \in DOMAIN p.tips : p.tips[i] \in latest}
<1>1. /\ candidates \subseteq p.notarized /\ candidates # {} /\ IsFiniteSet(candidates)
      /\ candidates \subseteq Block /\ p.tips \in Seq(Block)
  <2>1. IsFiniteSet(p.blocks) /\ candidates \subseteq p.blocks
    BY DEF PoolIsWhole, PoolIsNested, PoolIsNotarized
  <2>2. IsFiniteSet(candidates)
    <3> HIDE DEF candidates
    <3> QED BY <2>1, FS_Subset
  <2> QED BY <2>2 DEF PoolIsWhole, PoolHasTips, PoolIsNested, PoolIsNotarized, Pool
<1>2. CASE p.last \in latest
  BY <1>1, <1>2 DEF LastNotarizedBlock
<1>3. CASE p.last \notin latest
  <2>1. latest # {}
    <3> DEFINE R == {ss \in candidates \X candidates : Epoch[ss[1]] < Epoch[ss[2]]}
    <3>1. \A x \in candidates : Epoch[x] \in Nat BY <1>1, Typing
    <3>2. IsStrictOrder(R, candidates)
      <4> HIDE DEF candidates
      <4> QED BY <3>1 DEF IsStrictOrder
    <3>3. \E m \in candidates : \A x \in candidates : <<m, x>> \notin R
      <4> HIDE DEF R, candidates
      <4> QED BY <1>1, <3>2, MaximalExists
    <3>4. PICK m \in candidates : \A x \in candidates : <<m, x>> \notin R BY <3>3
    <3>5. ASSUME NEW x \in candidates PROVE Epoch[x] <= Epoch[m]
      <4>1. Epoch[x] \in Nat /\ Epoch[m] \in Nat BY <3>1
      <4>2. ~(Epoch[m] < Epoch[x]) BY <3>4
      <4> QED BY <4>1, <4>2
    <3> HIDE DEF candidates
    <3> QED BY <3>5
  <2>2. PICK b \in latest : b \in ToSet(p.tips) BY <1>3, <2>1
  <2>3. places # {} /\ places \subseteq Nat
    BY <1>1, <2>2 DEF ToSet
  <2>4. Min(places) \in places
    <3> HIDE DEF places
    <3> QED BY <2>3, MinOfNat
  <2>5. p.tips[Min(places)] \in latest BY <2>4
  <2>6. LastNotarizedBlock(p) = p.tips[Min(places)] BY <1>3 DEF LastNotarizedBlock
  <2> QED BY <1>1, <2>5, <2>6
<1> QED BY <1>2, <1>3

\* The total depends on the stakes only.
TotalOf(stakes) == MapThenSumSet(LAMBDA n : stakes[n], Node)

\* The stake of all validators depends on the stakes only.
LEMMA TotalIsOfStakes == \A b : TotalAtStake(b) = TotalOf(Stake[b])
BY Zenon DEF TotalAtStake, TotalOf

-----------------------------------------------------------------------------
(* Sums over sets of validators.                                           *)

\* The stake of some validators is a number.
LEMMA NodeSumIsNat == ASSUME NEW b \in Block, NEW S \in SUBSET Node PROVE NodeSum(b, S) \in Nat
<1>1. CASE S = {} BY <1>1, NodeSums!FoldEmpty DEF NodeSum
<1>2. CASE S # {}
  <2>1. PICK n \in S : TRUE BY <1>2
  <2> DEFINE U == S \ {n}
  <2>2. U \in SUBSET Node /\ n \in Node /\ n \notin U /\ S = U \cup {n} BY <2>1
  <2> HIDE DEF U
  <2>3. NodeSum(b, U) \in Nat /\ NodeSum(b, U \cup {n}) = NodeSum(b, U) + Stake[b][n]
    BY <2>2, NodeSumOfMore
  <2>4. NodeSum(b, S) = NodeSum(b, U \cup {n}) BY <2>2, Zenon
  <2>5. Stake[b][n] \in Nat BY <2>2, StakeTyping
  <2> QED BY <2>3, <2>4, <2>5
<1> QED BY <1>1, <1>2

\* The stakes of two sets of validators with none in common add up.
LEMMA NodeSumOfTwo ==
  ASSUME NEW b \in Block, NEW P \in SUBSET Node, NEW Q \in SUBSET Node, P \cap Q = {}
  PROVE  NodeSum(b, P \cup Q) = NodeSum(b, P) + NodeSum(b, Q)
<1> DEFINE M == {S \in SUBSET Q : NodeSum(b, P \cup S) # NodeSum(b, P) + NodeSum(b, S)}
<1>1. IsFiniteSet(Q) /\ M \in SUBSET SUBSET Q BY VoteTxIsAssumed, FS_Subset
<1>2. NodeSum(b, P) \in Nat BY NodeSumIsNat
<1>3. ASSUME M # {} PROVE FALSE
  <2>1. PICK T \in M : \A U \in M : U \subseteq T => U = T
    <3> HIDE DEF M
    <3> QED BY <1>1, <1>3, SmallestSubset
  <2>2. T # {}
    <3>1. NodeSum(b, {}) = 0 BY NodeSums!FoldEmpty DEF NodeSum
    <3>2. P \cup {} = P OBVIOUS
    <3>3. NodeSum(b, P \cup {}) = NodeSum(b, P) BY <3>2, Zenon
    <3>4. NodeSum(b, P \cup {}) = NodeSum(b, P) + NodeSum(b, {}) BY <1>2, <3>1, <3>3
    <3>5. NodeSum(b, P \cup T) # NodeSum(b, P) + NodeSum(b, T) BY <2>1
    <3> QED BY <3>4, <3>5, Zenon
  <2>3. PICK n \in T : TRUE BY <2>2
  <2> DEFINE U == T \ {n}
             W == P \cup U
  <2>4. /\ U \in SUBSET Node /\ n \in Node /\ n \notin U /\ T = U \cup {n} /\ U \in SUBSET Q
        /\ U \subseteq T /\ U # T /\ n \notin W /\ W \in SUBSET Node /\ P \cup T = W \cup {n}
    BY <2>1, <2>3
  <2>5. NodeSum(b, W) = NodeSum(b, P) + NodeSum(b, U)
    BY <2>1, <2>4
  <2> HIDE DEF U, W
  <2>6. NodeSum(b, U) \in Nat /\ NodeSum(b, U \cup {n}) = NodeSum(b, U) + Stake[b][n]
    BY <2>4, NodeSumOfMore
  <2>7. NodeSum(b, W \cup {n}) = NodeSum(b, W) + Stake[b][n]
    BY <2>4, NodeSumOfMore
  <2>8. Stake[b][n] \in Nat BY <2>4, StakeTyping
  <2>9. NodeSum(b, W \cup {n}) = NodeSum(b, P) + NodeSum(b, U \cup {n})
    BY <1>2, <2>5, <2>6, <2>7, <2>8
  <2>10. NodeSum(b, P \cup T) = NodeSum(b, P) + NodeSum(b, T)
    BY <2>4, <2>9, Zenon
  <2> QED BY <2>1, <2>10
<1>4. Q \in SUBSET Q OBVIOUS
<1> QED BY <1>3, <1>4

\* One vote of each validator of a set.
LEMMA VotesOfSet ==
  ASSUME NEW b \in Block, NEW k \in Nonce, NEW Q \in SUBSET Node
  PROVE  StakeSum(b, Q \X {k}) = NodeSum(b, Q)
<1> DEFINE M == {S \in SUBSET Q : StakeSum(b, S \X {k}) # NodeSum(b, S)}
<1>1. IsFiniteSet(Q) /\ M \in SUBSET SUBSET Q BY VoteTxIsAssumed, FS_Subset
<1>2. ASSUME M # {} PROVE FALSE
  <2>1. PICK T \in M : \A U \in M : U \subseteq T => U = T
    <3> HIDE DEF M
    <3> QED BY <1>1, <1>2, SmallestSubset
  <2>2. T # {}
    <3>1. {} \X {k} = {} OBVIOUS
    <3>2. StakeSum(b, {} \X {k}) = 0 BY <3>1, StakeSumOfNone
    <3>3. NodeSum(b, {}) = 0 BY NodeSums!FoldEmpty DEF NodeSum
    <3> QED BY <2>1, <3>2, <3>3
  <2>3. PICK n \in T : TRUE BY <2>2
  <2> DEFINE U == T \ {n}
             X == U \X {k}
             t == <<n, k>>
  <2>4. /\ U \in SUBSET Node /\ n \in Node /\ n \notin U /\ T = U \cup {n} /\ U \in SUBSET Q
        /\ U \subseteq T /\ U # T
    BY <2>1, <2>3
  <2>5. StakeSum(b, X) = NodeSum(b, U) BY <2>1, <2>4
  <2>6. /\ T \X {k} = X \cup {t} /\ t \notin X /\ t \in VoteTx /\ X \in SUBSET VoteTx
        /\ Voter(t) = n
    BY <2>4 DEF VoteTx, Voter
  <2> HIDE DEF U, X, t
  <2>7. NodeSum(b, U \cup {n}) = NodeSum(b, U) + Stake[b][n]
    BY <2>4, NodeSumOfMore
  <2>8. StakeSum(b, X \cup {t}) = StakeSum(b, X) + Stake[b][Voter(t)]
    BY <2>6, StakeSumOfMore
  <2>9. StakeSum(b, T \X {k}) = NodeSum(b, T)
    BY <2>4, <2>5, <2>6, <2>7, <2>8
  <2> QED BY <2>1, <2>9
<1>3. Q \in SUBSET Q OBVIOUS
<1> QED BY <1>2, <1>3

\* Two sets of validators that hold two thirds each have one in common.
LEMMA MajoritiesMeet ==
  ASSUME NEW b \in Block, TotalAtStake(b) > 0,
         NEW P \in SUBSET Node, NEW Q \in SUBSET Node,
         3 * NodeSum(b, P) >= 2 * TotalAtStake(b), 3 * NodeSum(b, Q) >= 2 * TotalAtStake(b)
  PROVE  P \cap Q # {}
<1> SUFFICES ASSUME P \cap Q = {} PROVE FALSE OBVIOUS
<1> DEFINE both == P \cup Q
           rest == Node \ both
<1>1. NodeSum(b, both) = NodeSum(b, P) + NodeSum(b, Q)
  BY NodeSumOfTwo
<1>2. both \in SUBSET Node /\ rest \in SUBSET Node /\ both \cap rest = {} /\ both \cup rest = Node
  OBVIOUS
<1> HIDE DEF both, rest
<1>3. NodeSum(b, Node) = NodeSum(b, both) + NodeSum(b, rest)
  BY <1>2, NodeSumOfTwo
<1>4. TotalAtStake(b) = NodeSum(b, Node) BY TotalIsFold DEF NodeSum
<1>5. /\ NodeSum(b, P) \in Nat /\ NodeSum(b, Q) \in Nat /\ NodeSum(b, rest) \in Nat
      /\ TotalAtStake(b) \in Nat
  BY <1>2, NodeSumIsNat, TotalIsNat
<1> QED BY <1>1, <1>3, <1>4, <1>5
=============================================================================
