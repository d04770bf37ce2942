------------------------ MODULE ChainFinality_proofs ------------------------
(***************************************************************************)
(* Proofs about ChainFinality, for every block tree, set of validators and *)
(* quorum system that satisfy its assumptions.                             *)
(*                                                                         *)
(* The argument: two notarized blocks share a voter, whose votes are       *)
(* ordered.  Hence no block of the height of a finalized block b can be    *)
(* notarized beside b: not in one of the three consecutive epochs around   *)
(* b, not before them (the shared voter voted for the parent of b after    *)
(* it), and not after them (it would be shorter than the child of b).      *)
(***************************************************************************)
EXTENDS ChainFinality, FiniteSetTheorems, WellFoundedInduction, TLAPS

-----------------------------------------------------------------------------
(* Chains.                                                                 *)

\* A set of natural numbers has a smallest one.
LEMMA SmallestNumber ==
  ASSUME NEW T \in SUBSET Nat, T # {}
  PROVE  \E m \in T : \A n \in T : m <= n
<1>1. PICK k \in T : TRUE OBVIOUS
<1> DEFINE S == 0 .. k
           M == {u \in SUBSET S : \E n \in T : u = 0 .. n}
<1>2. IsWellFoundedOn(StrictSubsetOrdering(S), SUBSET S)
  <2>1. IsFiniteSet(S) BY FS_Interval
  <2> HIDE DEF S
  <2> QED BY <2>1, FS_StrictSubsetOrderingWellFounded, FS_FiniteSubsetsOfFinite
<1>3. S \in M OBVIOUS
<1>4. PICK u \in M : \A w \in M : <<w, u>> \notin StrictSubsetOrdering(S)
  BY <1>2, <1>3, WFMin
<1>5. PICK m \in T : u = 0 .. m OBVIOUS
<1>6. ASSUME NEW n \in T, n < m PROVE FALSE
  <2>1. (0 .. n) \in M /\ (0 .. n) \subseteq u /\ m \in u /\ m \notin 0 .. n
    BY <1>5, <1>6
  <2> QED BY <1>4, <2>1 DEF StrictSubsetOrdering
<1> QED BY <1>6

\* What ChainIsOrdered says of one block.
IsOrdered(b) ==
  /\ Root \in Chain[b]
  /\ b \in Chain[b]
  /\ \A a \in Chain[b] : /\ Chain[a] \subseteq Chain[b]
                         /\ a = b \/ (Number[a] < Number[b] /\ Epoch[a] < Epoch[b])
  /\ \A k \in Number[Root] .. Number[b] : \E a \in Chain[b] : Number[a] = k
  /\ \A a, c \in Chain[b] : Number[a] = Number[c] => a = c

\* A block is ordered if its predecessor is.
LEMMA OrderedNext ==
  ASSUME NEW b \in Block, b # Root, IsOrdered(Parent[b])
  PROVE  IsOrdered(b)
<1> DEFINE p == Parent[b]
<1>1. /\ p \in Block /\ Number[b] = Number[p] + 1 /\ Epoch[b] > Epoch[p]
      /\ Chain[b] = Chain[p] \cup {b} /\ Chain[p] \subseteq Block
      /\ \A a \in Block : Number[a] \in Nat /\ Epoch[a] \in Nat
      /\ Root \in Block
  BY TreeIsAssumed DEF TreeAssumption
<1>2. IsOrdered(p) OBVIOUS
<1> HIDE DEF p
<1>3. Root \in Chain[b] /\ b \in Chain[b]
  BY <1>1, <1>2 DEF IsOrdered
<1>4. ASSUME NEW a \in Chain[p]
      PROVE  /\ Chain[a] \subseteq Chain[b]
             /\ Number[a] < Number[b] /\ Epoch[a] < Epoch[b]
  BY <1>1, <1>2 DEF IsOrdered
<1>5. ASSUME NEW k \in Number[Root] .. Number[b]
      PROVE  \E a \in Chain[b] : Number[a] = k
  <2>1. CASE k = Number[b] BY <1>3, <2>1
  <2>2. CASE k # Number[b]
    <3>1. k \in Number[Root] .. Number[p] BY <1>1, <2>2
    <3> QED BY <1>1, <1>2, <3>1 DEF IsOrdered
  <2> QED BY <2>1, <2>2
<1>6. ASSUME NEW a \in Chain[b], NEW c \in Chain[b], Number[a] = Number[c]
      PROVE  a = c
  <2>1. CASE a \in Chain[p] /\ c \in Chain[p] BY <1>2, <1>6, <2>1 DEF IsOrdered
  <2>2. CASE a = b /\ c = b BY <2>2
  <2>3. CASE a = b /\ c \in Chain[p] BY <1>1, <1>4, <1>6, <2>3
  <2>4. CASE c = b /\ a \in Chain[p] BY <1>1, <1>4, <1>6, <2>4
  <2> QED BY <1>1, <2>1, <2>2, <2>3, <2>4
<1>7. \A a \in Chain[b] : /\ Chain[a] \subseteq Chain[b]
                          /\ a = b \/ (Number[a] < Number[b] /\ Epoch[a] < Epoch[b])
  BY <1>1, <1>4
<1>8. /\ \A k \in Number[Root] .. Number[b] : \E a \in Chain[b] : Number[a] = k
      /\ \A a, c \in Chain[b] : Number[a] = Number[c] => a = c
  BY <1>5, <1>6
<1> QED BY <1>3, <1>7, <1>8 DEF IsOrdered

(***************************************************************************)
(* Numbers and epochs grow along a chain, and a chain has one block of     *)
(* every number down to Root: last_hash links do not branch backwards      *)
(* (Block.create, createProposal).  By induction along the chain: take a   *)
(* block with the smallest number among those that are not ordered.        *)
(***************************************************************************)
THEOREM ChainsAreOrdered == ChainIsOrdered
<1> DEFINE M == {b \in Block : ~IsOrdered(b)}
<1>1. SUFFICES ASSUME M # {} PROVE FALSE
  BY DEF ChainIsOrdered, IsOrdered
<1>2. /\ Root \in Block /\ Chain[Root] = {Root}
      /\ \A b \in Block : Number[b] \in Nat /\ Epoch[b] \in Nat
      /\ \A b \in Block \ {Root} : Parent[b] \in Block /\ Number[b] = Number[Parent[b]] + 1
  BY TreeIsAssumed DEF TreeAssumption
<1>3. IsOrdered(Root)
  BY <1>2 DEF IsOrdered
<1>4. PICK b \in M : \A d \in M : Number[b] <= Number[d]
  <2> DEFINE T == {Number[d] : d \in M}
  <2>1. T \in SUBSET Nat /\ T # {} BY <1>1, <1>2
  <2>2. PICK m \in T : \A n \in T : m <= n BY <2>1, SmallestNumber
  <2> QED BY <2>2
<1>5. b \in Block /\ b # Root /\ ~IsOrdered(b) BY <1>3
<1>6. Parent[b] \notin M BY <1>2, <1>4, <1>5
<1> QED BY <1>2, <1>5, <1>6, OrderedNext

-----------------------------------------------------------------------------
(* Votes and finality.                                                     *)

\* Two notarized blocks above Root share a voter (two thirds meet two thirds).
LEMMA SharedVoter ==
  ASSUME NEW b \in Block, NEW d \in Block, b # Root, d # Root,
         IsNotarized(b), IsNotarized(d)
  PROVE  \E n \in Node : b \in votes[n] /\ d \in votes[n]
BY QuorumAssumption DEF IsNotarized, Voters

\* Every block of the chain of a notarized block is notarized.
LEMMA NotarizedDownwards ==
  ASSUME TypeOK, VotedOnNotarized, NEW b \in Block, NEW a \in Chain[b], IsNotarized(b)
  PROVE  IsNotarized(a)
<1>1. CASE b = Root
  BY <1>1, TreeIsAssumed DEF TreeAssumption
<1>2. CASE b # Root
  <2>1. PICK n \in Node : b \in votes[n]
    BY <1>2, SharedVoter
  <2>2. QED
    BY <2>1 DEF VotedOnNotarized
<1>3. QED
  BY <1>1, <1>2

(***************************************************************************)
(* At the height of the middle one of three consecutive notarized blocks   *)
(* there is no other notarized block.                                      *)
(***************************************************************************)
LEMMA UniqueAtHeight ==
  ASSUME TypeOK, VotesOrdered,
         NEW c \in Block, Finalizes(c),
         NEW d \in Block, IsNotarized(d), Number[d] = Number[Parent[c]]
  PROVE  d = Parent[c]
<1> DEFINE b == Parent[c]
           a == Parent[b]
<1>1. /\ a \in Block /\ b \in Block /\ c # Root /\ b # Root
      /\ IsNotarized(a) /\ IsNotarized(b) /\ IsNotarized(c)
      /\ Epoch[b] = Epoch[a] + 1 /\ Epoch[c] = Epoch[b] + 1
  BY TreeIsAssumed DEF TreeAssumption, Finalizes, EndsWithThreeConsecutiveEpochs
<1>2. /\ Number[a] \in Nat /\ Number[b] = Number[a] + 1 /\ Number[c] = Number[b] + 1
      /\ Epoch[a] \in Nat /\ Epoch[d] \in Nat
  BY <1>1, TreeIsAssumed DEF TreeAssumption
<1>3. Root \in Block /\ Number[Root] < Number[b]
  BY <1>1, TreeIsAssumed, ChainsAreOrdered DEF TreeAssumption, ChainIsOrdered
<1>4. d # Root /\ Epoch[Root] < Epoch[d]
  BY <1>2, <1>3, TreeIsAssumed, ChainsAreOrdered DEF TreeAssumption, ChainIsOrdered
<1>5. CASE Epoch[d] <= Epoch[a]
  <2>1. a # Root
    BY <1>2, <1>4, <1>5, TreeIsAssumed DEF TreeAssumption
  <2>2. PICK n \in Node : a \in votes[n] /\ d \in votes[n]
    BY <1>1, <1>4, <2>1, SharedVoter
  <2>3. d = a \/ Number[d] <= Number[a]
    BY <1>2, <1>5, <2>2 DEF VotesOrdered
  <2>4. QED
    BY <1>2, <2>3
<1>6. CASE Epoch[d] = Epoch[b]
  <2>1. PICK n \in Node : b \in votes[n] /\ d \in votes[n]
    BY <1>1, <1>4, SharedVoter
  <2>2. QED
    BY <1>6, <2>1 DEF VotesOrdered
<1>7. CASE Epoch[d] >= Epoch[c]
  <2>1. PICK n \in Node : c \in votes[n] /\ d \in votes[n]
    BY <1>1, <1>4, SharedVoter
  <2>2. d = c \/ Number[c] <= Number[d]
    BY <1>1, <1>2, <1>7, <2>1 DEF VotesOrdered
  <2>3. QED
    BY <1>2, <2>2
<1>8. QED
  BY <1>1, <1>2, <1>5, <1>6, <1>7

-----------------------------------------------------------------------------
\* A notarized block stays notarized: no step takes a vote back.
LEMMA NotarizedIsStable ==
  ASSUME TypeOK, [Next]_vars, NEW b, IsNotarized(b)
  PROVE  IsNotarized(b)'
<1>1. \A n \in Node : votes[n] \subseteq votes'[n]
  BY DEF Next, Vote, Finalize, vars, TypeOK
<1>2. QED
  BY <1>1 DEF IsNotarized, Voters

\* The initial state satisfies the inductive invariant.
LEMMA InitIInv == Init => IInv
BY TreeIsAssumed DEF Init, IInv, TypeOK, VotesOrdered, VotedOnNotarized, FinalJustified,
                     TreeAssumption

\* Every step of the specification preserves the inductive invariant.
LEMMA NextIInv == IInv /\ [Next]_vars => IInv'
<1> SUFFICES ASSUME IInv, [Next]_vars PROVE IInv'
  OBVIOUS
<1>1. \A b \in Block : IsNotarized(b) => IsNotarized(b)'
  BY NotarizedIsStable DEF IInv
<1>2. \A c \in Block : Finalizes(c) => Finalizes(c)'
  BY <1>1, TreeIsAssumed DEF Finalizes, TreeAssumption, EndsWithThreeConsecutiveEpochs
<1>3. ASSUME NEW n \in Node, NEW b \in Block, Vote(n, b)
      PROVE  IInv'
  <2>1. TypeOK'
    BY <1>3 DEF IInv, TypeOK, Vote
  <2>2. VotesOrdered'
    <3> SUFFICES ASSUME NEW m \in Node, NEW x \in votes'[m], NEW y \in votes'[m]
                 PROVE  /\ Epoch[x] = Epoch[y] => x = y
                        /\ Epoch[x] < Epoch[y] => Number[x] <= Number[y]
      BY DEF VotesOrdered
    <3>1. x \in votes[m] \/ (m = n /\ x = b)
      BY <1>3 DEF IInv, TypeOK, Vote
    <3>2. y \in votes[m] \/ (m = n /\ y = b)
      BY <1>3 DEF IInv, TypeOK, Vote
    <3>3. /\ x \in Block /\ Epoch[x] \in Nat /\ Number[x] \in Nat
          /\ y \in Block /\ Epoch[y] \in Nat /\ Number[y] \in Nat
      BY <3>1, <3>2, TreeIsAssumed DEF IInv, TypeOK, TreeAssumption
    <3>4. \A z \in votes[n] : Epoch[z] < Epoch[b] /\ Number[z] <= Number[b]
      BY <1>3 DEF Vote
    <3>5. QED
      BY <3>1, <3>2, <3>3, <3>4 DEF IInv, VotesOrdered
  <2>3. VotedOnNotarized'
    <3> SUFFICES ASSUME NEW m \in Node, NEW x \in votes'[m], NEW y \in Chain[x] \ {x}
                 PROVE  IsNotarized(y)'
      BY DEF VotedOnNotarized
    <3>1. x \in Block /\ y \in Block
      BY <2>1, TreeIsAssumed DEF TypeOK, TreeAssumption
    <3>2. CASE x \in votes[m]
      BY <1>1, <3>1, <3>2 DEF IInv, VotedOnNotarized
    <3>3. CASE x = b
      <4>1. Parent[b] \in Block /\ y \in Chain[Parent[b]] /\ IsNotarized(Parent[b])
        BY <1>3, <3>3, TreeIsAssumed DEF Vote, TreeAssumption
      <4>2. IsNotarized(y)
        BY <4>1, NotarizedDownwards DEF IInv
      <4>3. QED
        BY <1>1, <3>1, <4>2
    <3>4. QED
      BY <1>3, <3>2, <3>3 DEF IInv, TypeOK, Vote
  <2>4. FinalJustified'
    BY <1>2, <1>3 DEF IInv, FinalJustified, Vote
  <2>5. QED
    BY <2>1, <2>2, <2>3, <2>4 DEF IInv
<1>4. ASSUME NEW n \in Node, NEW c \in Block, Finalize(n, c)
      PROVE  IInv'
  <2>1. TypeOK'
    BY <1>4, TreeIsAssumed DEF IInv, TypeOK, Finalize, TreeAssumption
  <2>2. VotesOrdered'
    BY <1>4 DEF IInv, VotesOrdered, Finalize
  <2>3. VotedOnNotarized'
    <3> SUFFICES ASSUME NEW m \in Node, NEW x \in votes[m], NEW y \in Chain[x] \ {x}
                 PROVE  IsNotarized(y)'
      BY <1>4 DEF VotedOnNotarized, Finalize
    <3>1. y \in Block
      BY TreeIsAssumed DEF IInv, TypeOK, TreeAssumption
    <3>2. QED
      BY <1>1, <3>1 DEF IInv, VotedOnNotarized
  <2>4. FinalJustified'
    BY <1>2, <1>4 DEF IInv, TypeOK, FinalJustified, Finalize
  <2>5. QED
    BY <2>1, <2>2, <2>3, <2>4 DEF IInv
<1>5. CASE UNCHANGED vars
  BY <1>5 DEF vars, IInv, TypeOK, VotesOrdered, VotedOnNotarized, FinalJustified,
              IsNotarized, Voters, Finalizes
<1>6. QED
  BY <1>3, <1>4, <1>5 DEF Next

(***************************************************************************)
(* The inductive invariant holds: votes are ordered, blocks are voted for  *)
(* on top of notarized ones, and finalized blocks are justified.           *)
(***************************************************************************)
THEOREM InductiveInvariant == Spec => []IInv
BY InitIInv, NextIInv, PTL DEF Spec

-----------------------------------------------------------------------------
\* In the states of the inductive invariant a finalized block is alone.
LEMMA IInvUnique == IInv => FinalizedIsOnlyNotarized
<1> SUFFICES ASSUME IInv, NEW n \in Node, NEW b \in Block,
                    IsNotarized(b), Number[b] = Number[final[n]]
             PROVE  b = final[n]
  BY DEF FinalizedIsOnlyNotarized
<1>1. CASE final[n] = Root
  BY <1>1, TreeIsAssumed, ChainsAreOrdered DEF TreeAssumption, ChainIsOrdered
<1>2. CASE \E c \in Block : Finalizes(c) /\ final[n] = Parent[c]
  BY <1>2, UniqueAtHeight DEF IInv
<1>3. QED
  BY <1>1, <1>2 DEF IInv, FinalJustified

\* In the states of the inductive invariant finalized chains do not conflict.
LEMMA IInvAgreement == IInv => Agreement
<1> SUFFICES ASSUME IInv PROVE Agreement
  OBVIOUS
<1>0. \A k \in Node : final[k] \in Block /\ Number[final[k]] \in Nat
  BY TreeIsAssumed DEF IInv, TypeOK, TreeAssumption
<1> SUFFICES ASSUME NEW m \in Node, NEW n \in Node,
                    Number[final[m]] <= Number[final[n]]
             PROVE  final[m] \in Chain[final[n]]
  BY <1>0 DEF Agreement, Compatible
<1>1. final[m] \in Block /\ final[n] \in Block
  BY <1>0
<1>2. IsNotarized(final[n])
  BY DEF IInv, FinalJustified, Finalizes, IsNotarized
<1>3. Number[final[m]] \in Number[Root] .. Number[final[n]]
  BY <1>1, TreeIsAssumed, ChainsAreOrdered DEF TreeAssumption, ChainIsOrdered
<1>4. PICK a \in Chain[final[n]] : Number[a] = Number[final[m]]
  BY <1>1, <1>3, ChainsAreOrdered DEF ChainIsOrdered
<1>5. a \in Block /\ IsNotarized(a)
  BY <1>1, <1>2, NotarizedDownwards, TreeIsAssumed DEF IInv, TreeAssumption
<1>6. a = final[m]
  BY <1>4, <1>5, IInvUnique DEF FinalizedIsOnlyNotarized
<1>7. QED
  BY <1>6

(***************************************************************************)
(* No block beside a finalized one is ever notarized: what BlockPool may   *)
(* drop when it finalizes could never have been finalized.                 *)
(***************************************************************************)
THEOREM FinalizedUnique == Spec => []FinalizedIsOnlyNotarized
BY InductiveInvariant, IInvUnique, PTL

(***************************************************************************)
(* Agreement: no two nodes finalize conflicting chains (consensus/index.js *)
(* votes, block-pool/index.js finalizes), for any number of nodes, stakes  *)
(* and forks.                                                              *)
(***************************************************************************)
THEOREM FinalityAgreement == Spec => []Agreement
BY InductiveInvariant, IInvAgreement, PTL
=============================================================================
