------------------------------- MODULE OneNode -------------------------------
(***************************************************************************)
(* One validator among peers that may send anything: proposals of every    *)
(* kind in any order, votes of any validator for or against any block, and *)
(* any of them again, interleaved with the epoch ticks that finalize.      *)
(* What must hold of its block pool whatever it receives.                  *)
(***************************************************************************)
EXTENDS ConsensusNode

CONSTANTS
  self,     \* the validator
  Sent,     \* the proposals that reach it: one content for a block
  Accused   \* bound: the blocks that peers vote against

ASSUME SentIsAssumed ==
  /\ self \in Node
  /\ Sent \subseteq Proposal
  /\ \A m, o \in Sent : m.block = o.block => m = o

VARIABLES
  pool,     \* node.bp, with the last block of node.bc
  tracked   \* the blocks whose proposal tx is in tp.transactionTracker

vars == <<pool, tracked>>

Init == pool = InitPool /\ tracked = {Root}

\* handleConsensusMessage of a proposal.
ReceiveProposal(m) ==
  /\ m.block \notin tracked
  /\ ~HasSeenBlock(pool, m.block)
  /\ ~IsTooFarAhead(pool, m.block)
  /\ pool' = AfterProposal(pool, m, <<self, Min(Nonce)>>)
  /\ tracked' = IF CheckProposal(pool, m).verdict \in {"valid", "not_extending", "epoch_taken"}
                THEN tracked \cup {m.block} ELSE tracked

\* handleConsensusMessage of a vote by a peer.
ReceiveVoteFor(b, t) ==
  /\ AcceptsVoteFor(pool, b)
  /\ pool' = AddVoteFor(pool, b, t)
  /\ UNCHANGED tracked

ReceiveVoteAgainst(b, t) ==
  /\ AcceptsVoteAgainst(pool, b)
  /\ pool' = AddVoteAgainst(pool, b, t)
  /\ UNCHANGED tracked

\* The epoch tick.
Finalize ==
  /\ pool' = TryFinalizeChain(pool)
  /\ UNCHANGED tracked

PeerVote == (Node \ {self}) \X Nonce

Next == \/ \E m \in Sent : ReceiveProposal(m)
        \/ \E b \in Block \ {Root}, t \in PeerVote : ReceiveVoteFor(b, t)
        \/ \E b \in Accused, t \in PeerVote : ReceiveVoteAgainst(b, t)
        \/ Finalize

Spec == Init /\ [][Next]_vars

-----------------------------------------------------------------------------
\* The pool is a pool, and the tracker holds proposals of blocks.
TypeOK == pool \in Pool /\ tracked \subseteq Block

(***************************************************************************)
(* Notarization never depends on the order of arrival: at every moment the *)
(* tally of a block is the stake of its voters, and a block above the last *)
(* final one that its predecessor's majority voted for is marked notarized.*)
(* (Beside the final chain, where the predecessor may be forgotten, that   *)
(* is not so, and it no longer matters.)                                   *)
(***************************************************************************)
NotarizedOnTime ==
  \A b \in pool.blocks :
    /\ pool.tallied[b] = StakeSum(b, pool.votes[b])
    /\ pool.last \in Chain[b] /\ b \notin pool.notarized =>
         ~IsMajority(pool.tallied[b], TotalAtStake(Parent[b]))

(***************************************************************************)
(* longestNotarizedChainTips, a cached value, is never stale while its     *)
(* first block is in the pool: it holds the last blocks of the longest     *)
(* notarized chains above the last finalized block, and nothing else.      *)
(***************************************************************************)
TipsAreLongest ==
  pool.tips # <<>> /\ Head(pool.tips) \in pool.blocks =>
    ToSet(pool.tips) = Longest(NotarizedAbove(pool))

(***************************************************************************)
(* Finalization never breaks off: whatever is notarized above the last     *)
(* finalized block has the db that makes its state final, and the final    *)
(* state is that of the last block (tryFinalizeChain appends a block       *)
(* before it looks for the db).                                            *)
(***************************************************************************)
StateFollowsChain ==
  /\ pool.state = pool.last
  /\ NotarizedAbove(pool) \subseteq pool.dbs

(***************************************************************************)
(* The clean-up after a finalization forgets nothing on top of the new     *)
(* last block, and keeps no db of a lower block, except of one that was    *)
(* voted against.                                                          *)
(***************************************************************************)
CleanUpIsExact ==
  [][pool'.last # pool.last =>
       /\ \A b \in pool.blocks : pool'.last \in Chain[b] =>
            b \in pool'.blocks /\ pool'.votes[b] = pool.votes[b]
       /\ \A b \in pool'.dbs :
            Number[b] >= Number[pool'.last] \/ HasInvalidInfo(pool, b)]_vars

(***************************************************************************)
(* The evidence against a block that this node found invalid is kept until *)
(* a finalized block records it or it is MaxInvalidOnMem blocks old, unless*)
(* the block was taken into the pool after all (hasSeenBlock forgets that a*)
(* block was invalid once the pool has votes for it).                      *)
(***************************************************************************)
EvidenceIsKept ==
  [][\A b \in pool.invalid \ (pool'.invalid \cup pool.blocks) :
       \/ \E d \in Chain[pool'.last] \ Chain[pool.last] : b \in Evidence[d]
       \/ Number[b] < Number[pool'.last] - MaxInvalidOnMem]_vars

(***************************************************************************)
(* A validator votes for one block of an epoch (tryVoteForValidBlock does  *)
(* not vote when it has "Already voted for epoch").                        *)
(***************************************************************************)
OneVoteAnEpoch ==
  \A a, b \in Block : Epoch[a] = Epoch[b] /\ <<self, Min(Nonce)>> \in pool.votes[a] \cap pool.votes[b] => a = b

(***************************************************************************)
(* What is notarized was voted for by validators that hold a majority of   *)
(* the predecessor's stake, each of them counted once (the pool is meant   *)
(* to keep "votes: { [<address>]: <number> }").                            *)
(***************************************************************************)
NotarizedByMajority ==
  \A b \in pool.notarized \ {Root} :
    IsMajority(StakeSum(b, FirstVotes(pool.votes[b])), TotalAtStake(Parent[b]))

(***************************************************************************)
(* The block that the validator would propose on has what createProposal   *)
(* needs: its proposal transaction, and votes that getValidLastVotes       *)
(* accepts ("check that the sum of stakes exceeds the majority").          *)
(***************************************************************************)
TipCanBeExtended ==
  LET tip == LastNotarizedBlock(pool)
  IN  HasValidLastVotes(pool, tip) /\ (Number[tip] > 0 => tip \in pool.proposals)

-----------------------------------------------------------------------------
\* The inductive invariant behind the properties of one pool.
IInv == /\ tracked \subseteq Block
        /\ Root \in tracked
        /\ PoolIsWhole(pool, tracked)
=============================================================================
