--------------------------- MODULE MCChainFinality ---------------------------
(* TLC instance of ChainFinality: equal stakes, quorums of two thirds. *)
EXTENDS ChainFinality, MCBlockTree, TLC

MCQuorum == {Q \in SUBSET Node : 3 * Cardinality(Q) >= 2 * Cardinality(Node)}
Symmetry == Permutations(Node)
=============================================================================
