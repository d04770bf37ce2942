---------------------------- MODULE ChainFinality ----------------------------
(***************************************************************************)
(* What the consensus of this repository promises, without messages, pools *)
(* or clocks: validators vote for blocks, a block voted for by a quorum is *)
(* notarized, and a node finalizes the second of three notarized blocks    *)
(* with consecutive epochs, with everything below it.                      *)
(*                                                                         *)
(* Consensus.tla (the detailed model of consensus/index.js,                *)
(* block-pool/index.js and node/index.js) is checked to implement this     *)
(* specification, and ChainFinality_proofs.tla proves Agreement for every  *)
(* block tree, set of nodes and quorum system.                             *)
(***************************************************************************)
EXTENDS BlockTree

CONSTANTS
  Node,    \* the validators
  Quorum   \* the sets of validators whose votes notarize a block

\* Two sets of validators that each hold 2/3 of the stake have one in common.
ASSUME QuorumAssumption ==
  /\ Quorum \subseteq SUBSET Node
  /\ \A P, Q \in Quorum : P \cap Q # {}

VARIABLES
  votes,   \* votes[n] is the set of the blocks that n has voted for
  final    \* final[n] is the last block that n has finalized

vars == <<votes, final>>

Init == /\ votes = [n \in Node |-> {}]
        /\ final = [n \in Node |-> Root]

Voters(b) == {n \in Node : b \in votes[n]}

\* Root was finalized before the behaviour starts, so it needs no votes here.
IsNotarized(b) == b = Root \/ \E Q \in Quorum : Q \subseteq Voters(b)

\* Mutants for the runs: a validator that votes in any order, and one that only
\* looks at the epochs.
VoteInAnyOrder(n, b) ==
  /\ b # Root /\ b \notin votes[n]
  /\ IsNotarized(Parent[b])
  /\ votes' = [votes EXCEPT ![n] = @ \cup {b}]
  /\ UNCHANGED final

VoteForShorter(n, b) ==
  /\ \A a \in votes[n] : Epoch[a] < Epoch[b]
  /\ VoteInAnyOrder(n, b)

(***************************************************************************)
(* A validator votes for one block of an epoch, in the order of the        *)
(* epochs, and never for a block shorter than one it voted for before.     *)
(***************************************************************************)
Vote(n, b) ==
  /\ b # Root
  /\ b \notin votes[n]
  /\ IsNotarized(Parent[b])
  /\ \A a \in votes[n] : Epoch[a] < Epoch[b] /\ Number[a] <= Number[b]
  /\ votes' = [votes EXCEPT ![n] = @ \cup {b}]
  /\ UNCHANGED final

\* c and the two blocks below it are notarized and of consecutive epochs.
Finalizes(c) ==
  /\ EndsWithThreeConsecutiveEpochs(c)
  /\ \A b \in {c, Parent[c], Parent[Parent[c]]} : IsNotarized(b)

\* n finalizes the predecessor of c, on top of what it has finalized before.
Finalize(n, c) ==
  /\ Finalizes(c)
  /\ final[n] \in Chain[Parent[c]] \ {Parent[c]}
  /\ final' = [final EXCEPT ![n] = Parent[c]]
  /\ UNCHANGED votes

Next == \E n \in Node, b \in Block : Vote(n, b) \/ Finalize(n, b)

Spec == Init /\ [][Next]_vars

-----------------------------------------------------------------------------
\* The variables hold values of their types.
TypeOK == /\ votes \in [Node -> SUBSET (Block \ {Root})]
          /\ final \in [Node -> Block]

(***************************************************************************)
(* Agreement: the finalized chains of any two nodes never conflict, i.e.   *)
(* one is an extension of the other (tryFinalizeChain never has to take    *)
(* back a block it wrote to disk).                                         *)
(***************************************************************************)
Agreement == \A m, n \in Node : Compatible(final[m], final[n])

(***************************************************************************)
(* At the height of a block that some node finalizes, no other block is    *)
(* ever notarized.                                                         *)
(***************************************************************************)
FinalizedIsOnlyNotarized ==
  \A n \in Node, b \in Block :
    IsNotarized(b) /\ Number[b] = Number[final[n]] => b = final[n]

-----------------------------------------------------------------------------
\* The parts of the inductive invariant.

\* The votes of a validator are ordered: no two in one epoch, and a vote of a
\* later epoch is for a block that is at least as long.
VotesOrdered ==
  \A n \in Node : \A a, b \in votes[n] :
    /\ Epoch[a] = Epoch[b] => a = b
    /\ Epoch[a] < Epoch[b] => Number[a] <= Number[b]

\* Everything below a block that received a vote is notarized.
VotedOnNotarized ==
  \A n \in Node : \A b \in votes[n] : \A a \in Chain[b] \ {b} : IsNotarized(a)

\* What a node has finalized is Root, or the predecessor of a block that
\* finalizes it.
FinalJustified ==
  \A n \in Node : final[n] = Root \/ \E c \in Block : Finalizes(c) /\ final[n] = Parent[c]

IInv == TypeOK /\ VotesOrdered /\ VotedOnNotarized /\ FinalJustified
=============================================================================
