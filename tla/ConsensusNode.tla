---------------------------- MODULE ConsensusNode ----------------------------
(***************************************************************************)
(* consensus/index.js: what one validator does with a proposal and with a  *)
(* vote, as operators on its pool.  A handler runs to completion, so it is *)
(* a function of the pool; what it throws is a verdict.                    *)
(***************************************************************************)
EXTENDS BlockPool

(***************************************************************************)
(* The content of a proposal that the model tells apart:                   *)
(*   block      the proposed block                                         *)
(*   lastVotes  the votes for its predecessor in its last_votes            *)
(*   lastTx     whether last_votes has the predecessor's proposal tx       *)
(*   flaw       what is wrong with it, by the step that finds it:          *)
(*              "tx"      validateProposalTx                               *)
(*              "signer"  ... it is not signed by the proposer             *)
(*              "header"  the validators, the proposer, or last_votes that *)
(*                        do not execute                                   *)
(*              "body"    offenses, transactions, state proof, proposal tx *)
(***************************************************************************)
PlacedFlaws == {"none", "header", "body"}
Flaws == PlacedFlaws \cup {"tx", "signer"}
Proposal == [block : Block \ {Root}, lastVotes : SUBSET VoteTx, lastTx : BOOLEAN, flaw : Flaws]

CONSTANTS
  Proposer,  \* Proposer[b]: b.proposer, whom selectProposer draws for Epoch[b]
             \* on top of Parent[b]
  FlawOn     \* FlawOn[b][d]: what is wrong with b when it is checked against d,
             \* another block of the number of Parent[b]: the draw on d may fall
             \* on its proposer, and its transactions may do the same there

ASSUME ProposerIsAssumed == /\ Proposer \in [Block -> Node]
                            /\ FlawOn \in [Block -> [Block -> PlacedFlaws]]

(***************************************************************************)
(* getPrevBlockInfo and getBaseStateVersion: a block that is numbered right*)
(* above the last finalized block is checked against that block, whatever  *)
(* its last_hash; any other needs its predecessor and the state after it.  *)
(***************************************************************************)
AboveLast(p, b) == Number[b] = Number[p.last] + 1
HasPrevBlock(p, b) == AboveLast(p, b) \/ Parent[b] \in p.blocks \cap p.dbs

\* What the validation finds of the flaws that depend on what a block stands on.
FoundFlaw(p, m) ==
  IF AboveLast(p, m.block) /\ Parent[m.block] # p.last THEN FlawOn[m.block][p.last] ELSE m.flaw

\* validateProposalTx, validateValidators, validateProposer (the proposer is
\* drawn from the block it is checked against) and the execution of last_votes.
InvalidHeader(p, m) ==
  \/ m.flaw = "tx"
  \/ m.flaw # "signer" /\ HasPrevBlock(p, m.block) /\ FoundFlaw(p, m) = "header"

\* PROPOSER_MISMATCH, MISSING_PREV_BLOCK and MISSING_DB_FOR_PREV_BLOCK are no
\* codes to vote against.
IsIgnored(p, m) == m.flaw = "signer" \/ ~HasPrevBlock(p, m.block)

\* A mutant for the runs: last_votes are only executed.
IgnoreLastVotes(p, m) == p

\* The votes in last_votes enter the pool whatever comes of the block, and
\* whether or not the pool has its predecessor.
AddLastVotes(p, m) ==
  LET b == Parent[m.block]
      voted == FoldSet(LAMBDA t, q : AddVoteFor(q, b, t), p, m.lastVotes)
  IN  IF m.lastTx THEN AddProposal(voted, b) ELSE voted

\* With its last_votes in the pool: the predecessor is not notarized, or its
\* proposal is missing, or the rest is wrong.
InvalidBody(p, m) ==
  \/ Parent[m.block] \notin p.notarized
  \/ Number[m.block] > 1 /\ (~m.lastTx \/ Parent[m.block] \notin p.proposals)
  \/ FoundFlaw(p, m) = "body"

\* A mutant for the runs: any notarized block may be extended.
ExtendsAnything(p, b) == TRUE

ExtendsATip(p, b) == Number[b] > 1 => Contains(p.tips, Parent[b])

(***************************************************************************)
(* validateAndExecuteBlockOnDb and the check of checkProposalBlockAndTx    *)
(* after it.  Verdicts: "ignored" is an error that nobody is blamed for,   *)
(* "invalid" one of ConsensusErrorCodeSetToVoteAgainst, "epoch_taken"      *)
(* another of them, after the proposal tx entered the tracker,             *)
(* "not_extending" leaves the block in the pool without a vote.            *)
(***************************************************************************)
CheckProposal(p, m) ==
  LET b == m.block
      voted == AddLastVotes(p, m)
      added == [AddSeenBlock(voted, b, TRUE) EXCEPT !.dbs = @ \cup {b}]
      result(q, verdict) == [pool |-> q, verdict |-> verdict]
      inPool(q) == result(q, IF ExtendsATip(q, b) THEN "valid" ELSE "not_extending")
  IN  IF HasSeenBlock(p, b) THEN inPool(p)
      ELSE IF InvalidHeader(p, m) THEN result(p, "invalid")
      ELSE IF IsIgnored(p, m) THEN result(p, "ignored")
      ELSE IF InvalidBody(voted, m) THEN result(voted, "invalid")
      ELSE IF EpochTaken(voted, b) THEN result(voted, "epoch_taken")
      ELSE inPool(added)

-----------------------------------------------------------------------------
(* Votes.                                                                  *)

\* checkVoteTx finds the block of a vote: in hashToBlockInfo, else among the
\* invalid blocks, or it is the last finalized one.
KnowsVotedBlock(p, b) == HasSeenBlock(p, b) \/ b = p.last

\* A vote for a block is executed on the state after that block, a vote against
\* it on the final state.
AcceptsVoteFor(p, b) == Number[b] <= p.highest /\ KnowsVotedBlock(p, b) /\ b \in p.dbs
AcceptsVoteAgainst(p, b) == Number[b] <= p.highest /\ KnowsVotedBlock(p, b)

\* votedForEpoch(epoch) and votedForBlock(hash) of validator n.
VotedForEpoch(p, n, e) ==
  \E b \in p.atEpoch : Epoch[b] = e /\ \E t \in p.votes[b] : Voter(t) = n
VotedForBlock(p, n, b) ==
  \E t \in (IF HasInfo(p, b) THEN p.votes[b] ELSE p.against[b]) : Voter(t) = n

\* tryVoteForValidBlock and tryVoteAgainstInvalidBlock vote at all.
VotesFor(p, n, b) == ~VotedForEpoch(p, n, Epoch[b]) /\ Stake[b][n] > 0 /\ AcceptsVoteFor(p, b)
VotesAgainst(p, n, b) ==
  ~VotedForBlock(p, n, b) /\ Stake[LastNotarizedBlock(p)][n] > 0 /\ AcceptsVoteAgainst(p, b)

(***************************************************************************)
(* handleConsensusMessage of a proposal that is new and not too far ahead, *)
(* with the vote it leads to, cast as transaction t of validator n: the    *)
(* proposal joins the invalid blocks if the validator has to vote against  *)
(* it, and is passed on to the peers unless its verdict is "ignored" or    *)
(* "not_extending".                                                        *)
(***************************************************************************)
IsNotBehind(p, b) == Number[b] >= Number[LastNotarizedBlock(p)] + 1   \* a mutant for the runs
IsTooFarAhead(p, b) == Number[b] > Number[LastNotarizedBlock(p)] + 1

CastVoteFor(p, b, t) == IF VotesFor(p, Voter(t), b) THEN AddVoteFor(p, b, t) ELSE p
CastVoteAgainst(p, b, t) ==
  IF VotesAgainst(p, Voter(t), b) THEN AddVoteAgainst(p, b, t) ELSE p

AfterProposal(p, m, t) ==
  LET r == CheckProposal(p, m)
  IN  CASE r.verdict = "valid" -> CastVoteFor(r.pool, m.block, t)
        [] r.verdict \in {"invalid", "epoch_taken"} ->
             CastVoteAgainst(AddInvalidBlock(r.pool, m.block), m.block, t)
        [] r.verdict \in {"ignored", "not_extending"} -> r.pool

-----------------------------------------------------------------------------
(* Proposing.                                                              *)

\* getValidLastVotes: a vote executes on the state after b if its voter has not
\* voted there yet, so one transaction of each voter is kept.
FirstVotes(V) == {t \in V : \A u \in V : Voter(u) = Voter(t) => t[2] <= u[2]}

\* The votes kept, and the proposal transaction as one more vote of the proposer,
\* add up to a majority of the validators of b, or createProposal throws.
HasValidLastVotes(p, b) ==
  LET proposed == IF b \in p.proposals THEN Stake[b][Proposer[b]] ELSE 0
  IN  Number[b] = 0 \/ 3 * (StakeSum(b, FirstVotes(p.votes[b])) + proposed) >= 2 * TotalAtStake(b)

\* The proposal that createProposal makes of block b.
ProposalOf(p, b) ==
  [block     |-> b,
   lastVotes |-> IF Number[b] > 1 THEN FirstVotes(p.votes[Parent[b]]) ELSE {},
   lastTx    |-> Parent[b] \in p.proposals,
   flaw      |-> "none"]
=============================================================================
