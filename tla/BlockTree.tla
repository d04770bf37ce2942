------------------------------ MODULE BlockTree ------------------------------
(***************************************************************************)
(* The blocks that can ever be proposed, as a constant tree.               *)
(*                                                                         *)
(* blockchain/block.js identifies a block by the hash of its content, and  *)
(* the content holds last_hash, number and epoch, so a block determines    *)
(* its whole chain.  Here a block is an element of Block and its last_hash *)
(* link, number and epoch are constant functions.  Root is the last block  *)
(* that every node has finalized when a behaviour starts: the genesis      *)
(* block, or any later block of a running chain.                           *)
(***************************************************************************)
EXTENDS Integers, FiniteSets

CONSTANTS
  Block,   \* every block that a proposer can create, and Root
  Root,    \* the last finalized block common to all nodes at the start
  Parent,  \* Parent[b] is the block whose hash is b.last_hash
  Number,  \* Number[b] is b.number
  Epoch,   \* Epoch[b] is b.epoch
  Chain    \* Chain[b] is the set of the blocks from Root to b, both included

(***************************************************************************)
(* Block.create numbers a block one above its predecessor, and             *)
(* createProposal refuses to extend a block of the same or a later epoch.  *)
(***************************************************************************)
TreeAssumption ==
  /\ Root \in Block
  /\ Parent \in [Block -> Block]
  /\ Number \in [Block -> Nat]
  /\ Epoch \in [Block -> Nat]
  /\ Chain \in [Block -> SUBSET Block]
  /\ \A b \in Block \ {Root} : /\ Number[b] = Number[Parent[b]] + 1
                               /\ Epoch[b] > Epoch[Parent[b]]
  /\ Chain[Root] = {Root}
  /\ \A b \in Block \ {Root} : Chain[b] = Chain[Parent[b]] \cup {b}

(***************************************************************************)
(* What TreeAssumption implies by induction along a chain                  *)
(* (ChainFinality_proofs.ChainsAreOrdered).                                *)
(***************************************************************************)
ChainIsOrdered ==
  \A b \in Block :
    /\ Root \in Chain[b]
    /\ b \in Chain[b]
    /\ \A a \in Chain[b] : /\ Chain[a] \subseteq Chain[b]
                           /\ a = b \/ (Number[a] < Number[b] /\ Epoch[a] < Epoch[b])
    /\ \A k \in Number[Root] .. Number[b] : \E a \in Chain[b] : Number[a] = k
    /\ \A a, c \in Chain[b] : Number[a] = Number[c] => a = c

ASSUME TreeIsAssumed == TreeAssumption

\* a and b lie on one chain, one of them before the other or equal to it.
Compatible(a, b) == a \in Chain[b] \/ b \in Chain[a]

\* A mutant for the runs: any three blocks finalize.
EndsWithThreeBlocks(c) == c # Root /\ Parent[c] # Root

(***************************************************************************)
(* The last three blocks of the chain that ends in c have consecutive      *)
(* epochs (BlockPool.endsWithThreeConsecutiveEpochs).  The second of them, *)
(* Parent[c], is above Root.                                               *)
(***************************************************************************)
EndsWithThreeConsecutiveEpochs(c) ==
  /\ c # Root /\ Parent[c] # Root
  /\ Epoch[c] = Epoch[Parent[c]] + 1
  /\ Epoch[Parent[c]] = Epoch[Parent[Parent[c]]] + 1
=============================================================================
