--------------------------- MODULE OneNode_proofs ---------------------------
(***************************************************************************)
(* Proofs about OneNode, for every block tree, set of validators, stakes,  *)
(* set of proposals and order of arrival.  The work is in BlockPool_proofs:*)
(* each call of the node leaves its pool whole.  Here the calls are put    *)
(* together, and the properties of the runs follow.                        *)
(***************************************************************************)
EXTENDS OneNode, BlockPool_proofs

\* The first state.
LEMMA InitIInv == Init => IInv
BY InitPoolIsWhole, Typing DEF Init, IInv

\* The transaction of a vote of the validator itself.
LEMMA OwnVote == <<self, Min(Nonce)>> \in VoteTx
BY SentIsAssumed, NonceHasMin DEF VoteTx

\* The step of a proposal.
LEMMA ProposalStep ==
  ASSUME IInv, NEW m \in Sent, ReceiveProposal(m)
  PROVE  IInv' /\ HasHandled(pool, pool', m, <<self, Min(Nonce)>>)
<1>1. m \in Proposal /\ m.block \in Block BY SentIsAssumed DEF Proposal
<1>2. /\ PoolIsWhole(pool', TrackedAfter(pool, tracked, m))
      /\ HasHandled(pool, pool', m, <<self, Min(Nonce)>>)
  BY <1>1, OwnVote, AfterProposalKeeps DEF ReceiveProposal, IInv
<1>3. tracked' = TrackedAfter(pool, tracked, m)
  BY DEF ReceiveProposal, TrackedAfter
<1>4. tracked' \subseteq Block /\ Root \in tracked'
  BY <1>1, <1>3 DEF TrackedAfter, IInv
<1> QED BY <1>2, <1>3, <1>4 DEF IInv

\* The steps of votes.
LEMMA VoteForStep ==
  ASSUME IInv, NEW b \in Block \ {Root}, NEW t \in PeerVote, ReceiveVoteFor(b, t)
  PROVE  IInv' /\ HasMoreVotes(pool, pool', b, {t})
<1>1. t \in VoteTx BY DEF PeerVote, VoteTx
<1>2. HasPlace(pool, b)
  BY DEF IInv, PoolIsWhole, PoolIsNested, ReceiveVoteFor, AcceptsVoteFor, HasPlace
<1> QED BY <1>1, <1>2, AddVoteForKeeps DEF IInv, ReceiveVoteFor

\* A vote against a block adds to the votes against it only.
LEMMA VoteAgainstStep ==
  ASSUME IInv, NEW b \in Accused, NEW t \in PeerVote, ReceiveVoteAgainst(b, t)
  PROVE  /\ IInv'
         /\ pool'.last = pool.last /\ pool'.invalid = pool.invalid
         /\ pool'.blocks = pool.blocks /\ pool'.votes = pool.votes
<1>1. t \in VoteTx BY DEF PeerVote, VoteTx
<1>2. b \in Block
  BY Typing DEF IInv, PoolIsWhole, Pool, ReceiveVoteAgainst, AcceptsVoteAgainst,
                KnowsVotedBlock, HasSeenBlock
<1>3. /\ PoolIsWhole(pool', tracked)
      /\ \A f \in DOMAIN pool \ {"listed", "against"} : pool'[f] = pool[f]
  BY <1>1, <1>2, AddVoteAgainstKeeps DEF IInv, ReceiveVoteAgainst
<1>4. {"last", "invalid", "blocks", "votes"} \subseteq DOMAIN pool
  BY DEF IInv, PoolIsWhole, Pool
<1> QED BY <1>3, <1>4 DEF IInv, ReceiveVoteAgainst

\* The epoch tick.
LEMMA FinalizeStep ==
  ASSUME IInv, Finalize
  PROVE  IInv' /\ (pool' = pool \/ \E c \in Block : HasFinalized(pool, pool', c))
BY FinalizationIs DEF IInv, Finalize

\* Every step keeps the pool whole.
LEMMA NextIInv == IInv /\ [Next]_vars => IInv'
<1> SUFFICES ASSUME IInv, [Next]_vars PROVE IInv'
  OBVIOUS
<1>1. ASSUME NEW m \in Sent, ReceiveProposal(m) PROVE IInv'
  BY <1>1, ProposalStep
<1>2. ASSUME NEW b \in Block \ {Root}, NEW t \in PeerVote, ReceiveVoteFor(b, t) PROVE IInv'
  BY <1>2, VoteForStep
<1>3. ASSUME NEW b \in Accused, NEW t \in PeerVote, ReceiveVoteAgainst(b, t) PROVE IInv'
  BY <1>3, VoteAgainstStep
<1>4. CASE Finalize
  BY <1>4, FinalizeStep
<1>5. CASE UNCHANGED vars
  BY <1>5 DEF vars, IInv
<1> QED BY <1>1, <1>2, <1>3, <1>4, <1>5 DEF Next

(***************************************************************************)
(* Whatever a node receives, in whatever order, its pool stays whole: no   *)
(* method of block-pool leaves the maps out of step with each other, not   *)
(* even the last_votes of a proposal that is refused: of a block that the  *)
(* pool does not have they are kept only beside the final chain, where     *)
(* they count for nothing.                                                 *)
(***************************************************************************)
THEOREM PoolStaysWhole == Spec => []IInv
BY InitIInv, NextIInv, PTL DEF Spec

-----------------------------------------------------------------------------
(* The properties that the runs check.                                     *)

\* The invariant is more than each of them says.
LEMMA IInvType == IInv => TypeOK
BY DEF IInv, TypeOK, PoolIsWhole

\* Votes and blocks are counted together.
LEMMA IInvNotarized == IInv => NotarizedOnTime
BY DEF IInv, PoolIsWhole, PoolIsCounted, PoolIsNotarized, Pool, NotarizedOnTime

\* The tips are those of the notarized blocks.
LEMMA IInvTips == IInv => TipsAreLongest
BY DEF IInv, PoolIsWhole, PoolHasTips, TipsAreLongest

\* The last block has its state, and so has each block that can become final.
LEMMA IInvState == IInv => StateFollowsChain
<1> SUFFICES ASSUME IInv PROVE StateFollowsChain OBVIOUS
<1>1. NotarizedAbove(pool) = {b \in pool.notarized : pool.last \in Chain[b]}
  BY AboveIsNotarized DEF IInv, PoolIsWhole, PoolIsNotarized
<1> QED BY <1>1 DEF IInv, PoolIsWhole, PoolIsNotarized, PoolIsNested, StateFollowsChain

\* The state of a node is a pool and a set of blocks.
THEOREM NodeTypeOK == Spec => []TypeOK
BY PoolStaysWhole, IInvType, PTL

(***************************************************************************)
(* addSeenVote and tryUpdateNotarized together: whatever comes first, the  *)
(* block or its votes, a block above the last final one is notarized as    *)
(* soon as the votes in the pool are a majority.                           *)
(***************************************************************************)
THEOREM NotarizesOnTime == Spec => []NotarizedOnTime
BY PoolStaysWhole, IInvNotarized, PTL

\* updateLongestNotarizedChains is called wherever the cached tips would be stale.
THEOREM TipsStayLongest == Spec => []TipsAreLongest
BY PoolStaysWhole, IInvTips, PTL

(***************************************************************************)
(* tryFinalizeChain never stops for a missing db between a block it wrote  *)
(* and its state.                                                          *)
(***************************************************************************)
THEOREM StateStaysWithChain == Spec => []StateFollowsChain
BY PoolStaysWhole, IInvState, PTL

-----------------------------------------------------------------------------
(* What a step may not do.                                                 *)

\* All but the epoch tick keep the last block, the blocks and the invalid ones.
LEMMA OtherStepsAdd ==
  ASSUME IInv, [Next]_vars
  PROVE  \/ pool'.last = pool.last /\ pool.invalid \subseteq pool'.invalid
         \/ \E c \in Block : HasFinalized(pool, pool', c)
<1>1. ASSUME NEW m \in Sent, ReceiveProposal(m)
      PROVE  pool'.last = pool.last /\ pool.invalid \subseteq pool'.invalid
  BY <1>1, ProposalStep DEF HasHandled
<1>2. ASSUME NEW b \in Block \ {Root}, NEW t \in PeerVote, ReceiveVoteFor(b, t)
      PROVE  pool'.last = pool.last /\ pool.invalid \subseteq pool'.invalid
  BY <1>2, VoteForStep DEF HasMoreVotes
<1>3. ASSUME NEW b \in Accused, NEW t \in PeerVote, ReceiveVoteAgainst(b, t)
      PROVE  pool'.last = pool.last /\ pool.invalid \subseteq pool'.invalid
  BY <1>3, VoteAgainstStep
<1>4. CASE Finalize
  BY <1>4, FinalizeStep
<1>5. CASE UNCHANGED vars
  BY <1>5 DEF vars
<1> QED BY <1>1, <1>2, <1>3, <1>4, <1>5 DEF Next

\* A step that finalizes a block cleans up exactly.
LEMMA StepCleansUp ==
  ASSUME IInv, [Next]_vars, pool'.last # pool.last
  PROVE  /\ \A b \in pool.blocks : pool'.last \in Chain[b] =>
              b \in pool'.blocks /\ pool'.votes[b] = pool.votes[b]
         /\ \A b \in pool'.dbs :
              Number[b] >= Number[pool'.last] \/ HasInvalidInfo(pool, b)
<1>1. PICK c \in Block : HasFinalized(pool, pool', c) BY OtherStepsAdd
<1>2. pool.blocks \subseteq Block BY DEF IInv, PoolIsWhole, Pool
<1> QED BY <1>1, <1>2 DEF HasFinalized

\* A step that forgets an invalid block may forget it.
LEMMA StepKeepsEvidence ==
  ASSUME IInv, [Next]_vars, NEW b \in pool.invalid \ (pool'.invalid \cup pool.blocks)
  PROVE  \/ \E d \in Chain[pool'.last] \ Chain[pool.last] : b \in Evidence[d]
         \/ Number[b] < Number[pool'.last] - MaxInvalidOnMem
<1>1. PICK c \in Block : HasFinalized(pool, pool', c) BY OtherStepsAdd
<1> QED BY <1>1 DEF HasFinalized

(***************************************************************************)
(* cleanUpAfterFinalization keeps what stands on the new last block, with  *)
(* its votes, and of what is below it keeps only what was voted against.   *)
(***************************************************************************)
THEOREM CleansUpExactly == Spec => CleanUpIsExact
<1>1. IInv /\ [Next]_vars =>
        [pool'.last # pool.last =>
           /\ \A b \in pool.blocks : pool'.last \in Chain[b] =>
                b \in pool'.blocks /\ pool'.votes[b] = pool.votes[b]
           /\ \A b \in pool'.dbs :
                Number[b] >= Number[pool'.last] \/ HasInvalidInfo(pool, b)]_vars
  BY StepCleansUp
<1> QED BY <1>1, PoolStaysWhole, PTL DEF Spec, CleanUpIsExact

(***************************************************************************)
(* A block that is invalid and not in the pool as well leaves the invalid  *)
(* ones, and the votes against it the pool, only when a finalized block    *)
(* records the offense, or when it is too old.                             *)
(***************************************************************************)
THEOREM KeepsEvidence == Spec => EvidenceIsKept
<1>1. IInv /\ [Next]_vars =>
        [\A b \in pool.invalid \ (pool'.invalid \cup pool.blocks) :
           \/ \E d \in Chain[pool'.last] \ Chain[pool.last] : b \in Evidence[d]
           \/ Number[b] < Number[pool'.last] - MaxInvalidOnMem]_vars
  BY StepKeepsEvidence
<1> QED BY <1>1, PoolStaysWhole, PTL DEF Spec, EvidenceIsKept

-----------------------------------------------------------------------------
(* The block to propose on.                                                *)

(***************************************************************************)
(* The votes for the block that every node starts with are there as long   *)
(* as the block is.                                                        *)
(***************************************************************************)
RootHasVotes == Root \in pool.blocks => RootVotes \subseteq pool.votes[Root]

\* Root starts with the votes of all validators that have stakes ...
LEMMA InitRoot == Init => RootHasVotes
BY InitPoolIs, Typing DEF Init, RootHasVotes

\* ... and keeps them while it is in the pool.
LEMMA NextRoot == IInv /\ RootHasVotes /\ [Next]_vars => RootHasVotes'
<1> SUFFICES ASSUME IInv, RootHasVotes, [Next]_vars PROVE RootHasVotes'
  OBVIOUS
<1>0. Root \in Block BY Typing
<1>1. ASSUME NEW m \in Sent, ReceiveProposal(m) PROVE RootHasVotes'
  <2>1. HasHandled(pool, pool', m, <<self, Min(Nonce)>>) BY <1>1, ProposalStep
  <2>2. m.block # Root BY SentIsAssumed DEF Proposal
  <2> QED BY <1>0, <2>1, <2>2 DEF HasHandled, RootHasVotes
<1>2. ASSUME NEW b \in Block \ {Root}, NEW t \in PeerVote, ReceiveVoteFor(b, t)
      PROVE  RootHasVotes'
  BY <1>0, <1>2, VoteForStep DEF HasMoreVotes, RootHasVotes
<1>3. ASSUME NEW b \in Accused, NEW t \in PeerVote, ReceiveVoteAgainst(b, t) PROVE RootHasVotes'
  BY <1>3, VoteAgainstStep DEF RootHasVotes
<1>4. CASE Finalize
  <2>1. IInv' /\ (pool' = pool \/ \E c \in Block : HasFinalized(pool, pool', c))
    BY <1>4, FinalizeStep
  <2>2. ASSUME NEW c \in Block, HasFinalized(pool, pool', c) PROVE RootHasVotes'
    BY <1>0, <2>2 DEF HasFinalized, RootHasVotes
  <2> QED BY <2>1, <2>2 DEF RootHasVotes
<1>5. CASE UNCHANGED vars
  BY <1>5 DEF vars, RootHasVotes
<1> QED BY <1>1, <1>2, <1>3, <1>4, <1>5 DEF Next

\* A notarized tip has the votes that getValidLastVotes asks for.
LEMMA TipIsExtendable ==
  ASSUME IInv, RootHasVotes, \A a, b \in Block : Stake[a] = Stake[b],
         NEW k, Nonce = {k}
  PROVE  TipCanBeExtended
<1> DEFINE tip == LastNotarizedBlock(pool)
           V == pool.votes[tip]
           proposed == IF tip \in pool.proposals THEN Stake[tip][Proposer[tip]] ELSE 0
<1>1. /\ tip \in pool.notarized /\ tip \in pool.blocks /\ tip \in Block
      /\ V \in SUBSET VoteTx /\ pool.tallied[tip] = StakeSum(tip, V)
      /\ Number[tip] > 0 => tip \in pool.proposals
  BY LastNotarizedIsNotarized
     DEF IInv, PoolIsWhole, PoolIsNested, PoolIsCounted, Pool
<1>2. FirstVotes(V) = V
  <2>1. V \in SUBSET (Node \X {k}) /\ k \in Nonce BY <1>1 DEF VoteTx
  <2> QED BY <2>1, FirstVotesAreAll
<1>3. /\ proposed \in Nat /\ StakeSum(tip, V) \in Nat /\ TotalAtStake(tip) \in Nat
      /\ Number[tip] \in Nat
  BY <1>1, StakeTyping, StakeSumIsNat, TotalIsNat, ProposerIsAssumed, Typing
<1> HIDE DEF tip
<1>4. CASE tip # Root
  <2>1. PICK d \in Deciders(pool, tip) : IsMajority(pool.tallied[tip], TotalAtStake(d))
    BY <1>1, <1>4 DEF IInv, PoolIsWhole, PoolIsNotarized
  <2>2. TotalAtStake(d) = TotalAtStake(tip)
    <3>0. d \in Block BY <1>1, <1>4, DecidersAre DEF IInv, PoolIsWhole
    <3>1. Stake[d] = Stake[tip] BY <1>1, <3>0
    <3> QED BY <3>1, TotalIsOfStakes
  <2>3. 3 * StakeSum(tip, V) >= 2 * TotalAtStake(tip)
    BY <1>1, <2>1, <2>2 DEF IsMajority
  <2>4. 3 * (StakeSum(tip, V) + proposed) >= 2 * TotalAtStake(tip)
    <3> HIDE DEF proposed
    <3> QED BY <1>3, <2>3
  <2> QED BY <1>1, <1>2, <2>4 DEF TipCanBeExtended, HasValidLastVotes, tip
<1>5. CASE tip = Root /\ Number[tip] > 0
  <2>1. StakeSum(tip, RootVotes) = TotalAtStake(tip)
    BY <1>1, <1>5, NonceHasMin, VotesOfAll DEF RootVotes
  <2>2. StakeSum(tip, RootVotes) <= StakeSum(tip, V)
    BY <1>1, <1>5, StakeSumGrows DEF RootHasVotes
  <2>3. 3 * (StakeSum(tip, V) + proposed) >= 2 * TotalAtStake(tip)
    <3> HIDE DEF proposed, V
    <3> QED BY <1>3, <2>1, <2>2
  <2> QED BY <1>1, <1>2, <2>3 DEF TipCanBeExtended, HasValidLastVotes, tip
<1>6. CASE Number[tip] = 0
  BY <1>6 DEF TipCanBeExtended, HasValidLastVotes, tip
<1> QED BY <1>3, <1>4, <1>5, <1>6

(***************************************************************************)
(* While the stakes are those of the start and nobody votes for a block    *)
(* twice, createProposal never throws on the block that it would extend:   *)
(* its votes and its proposal transaction are in the pool.  (The run of    *)
(* OneNodeGrowing.cfg breaks it with growing stakes; OneNodeRevote.cfg     *)
(* shows a second vote counted a second time.)                             *)
(***************************************************************************)
THEOREM TipStaysExtendable ==
  ASSUME \A a, b \in Block : Stake[a] = Stake[b], NEW k, Nonce = {k}
  PROVE  Spec => []TipCanBeExtended
<1>1. IInv /\ RootHasVotes => TipCanBeExtended
  BY TipIsExtendable
<1>2. Spec => []RootHasVotes
  BY InitRoot, NextRoot, PoolStaysWhole, PTL DEF Spec
<1> QED BY <1>1, <1>2, PoolStaysWhole, PTL
=============================================================================
