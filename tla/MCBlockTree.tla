----------------------------- MODULE MCBlockTree -----------------------------
(***************************************************************************)
(* A concrete block tree for TLC.  selectProposer names one proposer for   *)
(* an epoch on top of a given block, so a block is determined by the       *)
(* epochs at which it and its ancestors above Root were proposed: a block  *)
(* is that set of epochs and Root is the empty set.                        *)
(***************************************************************************)
EXTENDS BlockTree, FiniteSetsExt

CONSTANTS
  RootNumber,  \* the number of Root
  RootEpoch,   \* the epoch of Root
  MaxEpoch     \* bound: no block is proposed after this epoch

MCBlock == SUBSET (RootEpoch + 1 .. MaxEpoch)
MCRoot == {}
MCEpoch == [b \in Block |-> Max(b \cup {RootEpoch})]
MCParent == [b \in Block |-> b \ {Max(b \cup {RootEpoch})}]
MCNumber == [b \in Block |-> RootNumber + Cardinality(b)]
MCChain == [b \in Block |-> {{e \in b : e <= k} : k \in b \cup {RootEpoch}}]
=============================================================================
