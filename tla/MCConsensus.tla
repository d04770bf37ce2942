----------------------------- MODULE MCConsensus -----------------------------
(* TLC instances of Consensus. *)
EXTENDS Consensus, MCBlockTree

CONSTANTS n1, n2, n3

OneEach == [b \in Block |-> [n \in Node |-> 1]]
TwoThirds == {Q \in SUBSET Node : 3 * Cardinality(Q) >= 2 * Cardinality(Node)}
NoEvidence == [b \in Block |-> {}]

\* The proposer of an epoch is the same on every block ...
InTurn == [b \in Block |-> IF Max(b \cup {0}) % 2 = 0 THEN n1 ELSE n2]

\* ... or differs with the number of the block that it extends.
ByParent == [b \in Block |-> IF Cardinality(b) % 2 = 0 THEN n1 ELSE n2]

\* A block passes for one on d if the same proposer is drawn on d, and its
\* transactions do there what they do on its predecessor.
AsDrawn == [b \in Block |-> [d \in Block |->
              IF \E x \in Block \ {Root} : Parent[x] = d /\ Epoch[x] = Epoch[b] /\ Proposer[x] = Proposer[b]
              THEN "none" ELSE "header"]]

\* A bound for the runs of three validators: the proposals and votes that have not
\* arrived when an epoch begins.  Of these, proposals are lost, votes may come late.
MaxMissed == 4
Missed ==
  Cardinality({x \in Node \X Node \X Block : x[3] \in cast[x[2]] /\ TakesVote(x[1], x[2], x[3])})
    + Cardinality({x \in Node \X proposals : TakesProposal(x[1], x[2])})
FewAreMissed == (\A n \in Node : epoch[n] < now /\ transition[n] = 0) => Missed <= MaxMissed

\* The instances with timely proposals are those that the theorems of
\* Consensus_proofs.tla about a network in good order speak of.
ASSUME TimelyIsInGoodOrder == Network = "timely" => InGoodOrder
=============================================================================
