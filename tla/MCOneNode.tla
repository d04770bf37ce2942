------------------------------ MODULE MCOneNode ------------------------------
(* TLC instance of OneNode: forks above Root, of which {3} may become final    *)
(* while {2, 3} is forgotten, and a block with a flaw.                          *)
EXTENDS OneNode, MCBlockTree

MCForks == {{}, {2}, {2, 3}, {2, 3, 4}, {2, 3, 4, 5}, {3}, {3, 4}, {3, 4, 5}, {4}}

CONSTANTS n1, n2, n3

OneEach == [b \in Block |-> [n \in Node |-> 1]]

\* The last validator has staked more since Root.
Growing == [b \in Block |-> [n \in Node |-> IF b # Root /\ n = n3 THEN 5 ELSE 1]]

MCProposer == [b \in Block |-> n2]
PeersVoted == (Node \ {self}) \X {1}

\* {4} is flawed, and {2, 3} records that.
MCEvidence == [b \in Block |-> IF b = {2, 3} THEN {{4}} ELSE {}]
MCSent == {[block |-> b, lastVotes |-> IF b = {3, 4} THEN {} ELSE PeersVoted, lastTx |-> TRUE,
            flaw |-> IF b = {4} THEN "body" ELSE "none"] : b \in Block \ {Root}}

\* On {3, 4}, {2, 3, 4} does what it does on {2, 3}; on {2, 3}, {3, 4, 5} does not.
MCFlawOn == [b \in Block |-> [d \in Block |-> IF b = {3, 4, 5} THEN "body" ELSE "none"]]

MCAccused == {{4}, {2}}
=============================================================================
