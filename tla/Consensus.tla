------------------------------ MODULE Consensus ------------------------------
(***************************************************************************)
(* All validators together: each runs consensus/index.js on its own pool,  *)
(* driven by its epoch timer and by the proposals and votes that the       *)
(* others broadcast.  Messages are duplicated, reordered and lost; every   *)
(* validator follows the code.                                             *)
(***************************************************************************)
EXTENDS ConsensusNode

CONSTANTS
  Quorum,    \* the sets of validators whose votes notarize a block
  Network,   \* "async", "timely" or "sync": what is assumed of timers and messages
  Awaits     \* whether the timer callback awaits the NTP time

\* A block is decided about with the stakes of a block of the number before its own.
ASSUME QuorumIsAssumed ==
  Quorum = {Q \in SUBSET Node :
              \E b, d \in Block :
                LET sum == StakeSum(b, Q \X {Min(Nonce)})
                IN  /\ Number[d] + 1 = Number[b]
                    /\ sum > 0 /\ 3 * sum >= 2 * TotalAtStake(d)}

ASSUME NetworkIsAssumed == Network \in {"async", "timely", "sync"} /\ Awaits \in BOOLEAN

VARIABLES
  now,         \* the epoch that the wall clock is in
  epoch,       \* epoch[n]: this.epoch of validator n
  transition,  \* transition[n]: the epoch of the running timer callback, or 0
  pool,        \* pool[n]: its block pool and last block
  tracked,     \* tracked[n]: the blocks whose proposal tx is in its tx tracker
  proposals,   \* the proposals broadcast so far
  cast         \* cast[n]: the blocks that n has voted for

vars == <<now, epoch, transition, pool, tracked, proposals, cast>>

VoteOf(n) == <<n, Min(Nonce)>>

Init ==
  /\ now = Epoch[Root]
  /\ epoch = [n \in Node |-> Epoch[Root]]
  /\ transition = [n \in Node |-> 0]
  /\ pool = [n \in Node |-> InitPool]
  /\ tracked = [n \in Node |-> {Root}]
  /\ proposals = {}
  /\ cast = [n \in Node |-> {}]

\* The event loop of n is free for a message.
Listens(n) == transition[n] = 0 \/ Awaits

\* handleConsensusMessage goes into a proposal that is new and not too far ahead,
\* and into a vote for a block that it knows.
TakesProposal(n, m) ==
  /\ m.block \notin tracked[n]
  /\ ~HasSeenBlock(pool[n], m.block)
  /\ ~IsTooFarAhead(pool[n], m.block)

TakesVote(n, voter, b) ==
  VoteOf(voter) \notin pool[n].votes[b] /\ AcceptsVoteFor(pool[n], b)

\* n has nothing left to do before the next epoch.
IsDone(n) ==
  /\ epoch[n] = now
  /\ \A m \in proposals : ~TakesProposal(n, m)
  /\ \A voter \in Node : \A b \in cast[voter] : ~TakesVote(n, voter, b)

(***************************************************************************)
(* Time passes, up to the end of the last epoch of a block (a bound).  If  *)
(* the network is timely, timers are in step and a proposal arrives in its *)
(* epoch or never; if it is synchronous, all messages arrive in time.      *)
(***************************************************************************)
Advance ==
  /\ \E b \in Block : Epoch[b] >= now
  /\ Network = "timely" => \A n \in Node : epoch[n] = now
  /\ Network = "sync" => \A n \in Node : IsDone(n)
  /\ now' = now + 1
  /\ UNCHANGED <<epoch, transition, pool, tracked, proposals, cast>>

(***************************************************************************)
(* The timer callback of setEpochTransition, up to the await of the NTP    *)
(* time: it finalizes, and reads the clock before the await.               *)
(***************************************************************************)
StartTransition(n) ==
  /\ transition[n] = 0
  /\ epoch[n] < now
  /\ transition' = [transition EXCEPT ![n] = now]
  /\ pool' = [pool EXCEPT ![n] = TryFinalizeChain(@)]
  /\ UNCHANGED <<now, epoch, tracked, proposals, cast>>

\* What validator n takes over from handling proposal m: its pool, its tracker,
\* and the vote it casts.
Handle(n, m) ==
  LET q == AfterProposal(pool[n], m, VoteOf(n))
      b == m.block
  IN  /\ pool' = [pool EXCEPT ![n] = q]
      /\ tracked' = [tracked EXCEPT ![n] =
           IF CheckProposal(pool[n], m).verdict \in {"valid", "not_extending", "epoch_taken"}
           THEN @ \cup {b} ELSE @]
      /\ cast' = IF VoteOf(n) \in q.votes[b] THEN [cast EXCEPT ![n] = @ \cup {b}] ELSE cast

(***************************************************************************)
(* createProposal extends the last notarized block, and refuses when its   *)
(* epoch is not over or it has too few votes; tryPropose does not come to  *)
(* it when the validator voted for the epoch or is not the proposer.       *)
(***************************************************************************)
Proposes(n, b) ==
  /\ Parent[b] = LastNotarizedBlock(pool[n])
  /\ b # Root
  /\ Epoch[b] = transition[n]
  /\ Proposer[b] = n
  /\ ~VotedForEpoch(pool[n], n, transition[n])
  /\ HasValidLastVotes(pool[n], Parent[b])
  /\ Parent[b] \in pool[n].dbs

(***************************************************************************)
(* The rest of the timer callback: the epoch moves to what was read, and   *)
(* the proposer of the epoch handles its own proposal like any other.      *)
(***************************************************************************)
FinishTransition(n) ==
  /\ transition[n] # 0
  /\ transition' = [transition EXCEPT ![n] = 0]
  /\ epoch' = [epoch EXCEPT ![n] = transition[n]]
  /\ \/ \E b \in Block :
          /\ Proposes(n, b)
          /\ LET m == ProposalOf(pool[n], b)
             IN  Handle(n, m) /\ proposals' = proposals \cup {m}
     \/ /\ ~ \E b \in Block : Proposes(n, b)
        /\ UNCHANGED <<pool, tracked, proposals, cast>>
  /\ UNCHANGED now

\* handleConsensusMessage of a proposal, and of a vote.
ReceiveProposal(n, m) ==
  /\ Listens(n)
  /\ Network = "timely" => Epoch[m.block] = now
  /\ TakesProposal(n, m)
  /\ Handle(n, m)
  /\ UNCHANGED <<now, epoch, transition, proposals>>

ReceiveVote(n, voter, b) ==
  /\ Listens(n)
  /\ TakesVote(n, voter, b)
  /\ pool' = [pool EXCEPT ![n] = AddVoteFor(@, b, VoteOf(voter))]
  /\ UNCHANGED <<now, epoch, transition, tracked, proposals, cast>>

Next ==
  \/ Advance
  \/ \E n \in Node : \/ StartTransition(n)
                     \/ FinishTransition(n)
                     \/ \E m \in proposals : ReceiveProposal(n, m)
                     \/ \E voter \in Node : \E b \in cast[voter] : ReceiveVote(n, voter, b)

Spec == Init /\ [][Next]_vars

\* A validator votes for one block of an epoch.
OneVoteAnEpoch ==
  \A n \in Node : \A a, b \in cast[n] : Epoch[a] = Epoch[b] => a = b

\* The behaviours of Spec in which that is so.
InOrderSpec == Init /\ [][Next /\ OneVoteAnEpoch']_vars

\* Nothing is left to serve: no timer, no callback, no message.
Idle == \A n \in Node : IsDone(n) /\ transition[n] = 0

(***************************************************************************)
(* Time passes, and an event loop does not rest while it has something to  *)
(* serve: the second conjunct is the weak fairness of all steps but        *)
(* Advance, with Idle for the negation of their ENABLED.                   *)
(***************************************************************************)
Fairness == /\ WF_vars(Advance)
            /\ []<>Idle \/ []<><<now' = now>>_vars

FairSpec == Spec /\ Fairness

-----------------------------------------------------------------------------
\* The variables hold values of their types.
TypeOK == /\ now \in Nat
          /\ epoch \in [Node -> Nat]
          /\ transition \in [Node -> Nat]
          /\ pool \in [Node -> Pool]
          /\ tracked \in [Node -> SUBSET Block]
          /\ proposals \subseteq Proposal
          /\ cast \in [Node -> SUBSET Block]

\* The finalized chains of the validators never conflict.
Agreement == \A m, n \in Node : Compatible(pool[m].last, pool[n].last)

(***************************************************************************)
(* What a validator counts as notarized was voted for by a majority: no    *)
(* pool holds a vote that was not cast.                                    *)
(***************************************************************************)
NotarizedWasVotedFor ==
  \A n \in Node : \A b \in pool[n].notarized \ {Root} : \E d \in Deciders(pool[n], b) :
    3 * StakeSum(b, {VoteOf(m) : m \in {k \in Node : b \in cast[k]}}) >= 2 * TotalAtStake(d)

(***************************************************************************)
(* A validator votes against a proposal only when another one of its epoch *)
(* was made (epoch_taken of checkProposalBlockAndTx): whatever was missed  *)
(* or came late, what a peer proposed passes all other checks.             *)
(***************************************************************************)
OnlyRivalsAreBlamed ==
  \A n \in Node : \A b \in pool[n].invalid :
    \E l \in proposals : l.block # b /\ Epoch[l.block] = Epoch[b]

(***************************************************************************)
(* Every validator can go on: the block it would propose on heads its own  *)
(* notarized tree, and is not one that it forgot.                          *)
(***************************************************************************)
TipsFollowChain ==
  \A n \in Node : /\ pool[n].tips # <<>>
                  /\ Head(pool[n].tips) \in pool[n].blocks
                  /\ pool[n].last \in Chain[LastNotarizedBlock(pool[n])]

(***************************************************************************)
(* Whatever is lost, repeated or reordered, the pools of the validators    *)
(* count what was cast and lead on from the final chain (addSeenVote,      *)
(* tryUpdateNotarized and cleanUpAfterFinalization of block-pool).         *)
(***************************************************************************)
PoolsAreSound == NotarizedWasVotedFor /\ TipsFollowChain

(***************************************************************************)
(* In a synchronous network every validator gets to finalize blocks of its *)
(* peers, and all of them the same number (epoch tick, proposal, votes and *)
(* finalization keep pace with each other).                                *)
(***************************************************************************)
AllFinalize ==
  <>[](\A m, n \in Node : pool[n].last = pool[m].last /\ Number[pool[n].last] > Number[Root] + 1)

-----------------------------------------------------------------------------
(* The refinement: the votes that were cast, and the last blocks.          *)

Finality == INSTANCE ChainFinality WITH
  votes  <- cast,
  final  <- [n \in Node |-> pool[n].last]

(***************************************************************************)
(* With timely proposals, and while no validator votes twice in an epoch,  *)
(* the code implements ChainFinality: every step is a vote, a finalization *)
(* or invisible, also where the branches have different proposers.         *)
(***************************************************************************)
ImplementsFinality == Finality!Spec
-----------------------------------------------------------------------------
(***************************************************************************)
(* The parts of the inductive invariant.  Whatever the network does, the   *)
(* pools are whole, the timers are behind the clock, and every vote that   *)
(* is found in a pool or a proposal was cast.                              *)
(***************************************************************************)

\* The votes for b that there are: those of the start, and those that were cast.
CastFor(b) == InitPool.votes[b] \cup {VoteOf(m) : m \in {k \in Node : b \in cast[k]}}

PoolsAreWhole == \A n \in Node : Root \in tracked[n] /\ PoolIsWhole(pool[n], tracked[n])

TimersAreBehind ==
  \A n \in Node : /\ epoch[n] <= now
                  /\ transition[n] # 0 => epoch[n] < transition[n] /\ transition[n] <= now

ProposalsAreMade ==
  \A m \in proposals : /\ Epoch[m.block] <= epoch[Proposer[m.block]]
                       /\ m.lastVotes \subseteq CastFor(Parent[m.block])

PoolsAreFilled ==
  \A n \in Node : /\ tracked[n] \cup pool[n].invalid \subseteq {Root} \cup {m.block : m \in proposals}
                  /\ cast[n] \subseteq tracked[n] \ {Root}
                  /\ \A b \in Block : pool[n].votes[b] \subseteq CastFor(b)

IInv == TypeOK /\ PoolsAreWhole /\ TimersAreBehind /\ ProposalsAreMade /\ PoolsAreFilled

(***************************************************************************)
(* What the code needs in order to implement ChainFinality, besides that   *)
(* no validator votes twice in an epoch: a timely network, stakes that do  *)
(* not change so much that two majorities have no validator in common, and *)
(* a chain that is past its genesis block.                                 *)
(***************************************************************************)
InGoodOrder ==
  /\ Network = "timely"
  /\ \A P, Q \in Quorum : P \cap Q # {}
  /\ Number[Root] > 0

\* Then the timers are in step, a proposal ...
TimersInStep == \A n \in Node : transition[n] \in {0, now}

\* ... brings the votes and the proposal of the block that it extends ...
IsSound(m) ==
  LET d == Parent[m.block]
  IN  /\ m.flaw = "none" /\ m.lastTx
      /\ d = Root \/ IsMajority(StakeSum(d, m.lastVotes), TotalAtStake(Parent[d]))

ProposalsAreSound == \A m \in proposals : IsSound(m)

\* ... and a pool of blocks K has a tip, and nothing that is blamed or below its
\* last block.
PoolIsTidy(p, K) ==
  /\ \A b \in Block : HasInvalidInfo(p, b) => b \in K \ p.blocks
  /\ \A b \in p.blocks : Number[b] >= Number[p.last]
  /\ p.tips # <<>> /\ Head(p.tips) \in p.blocks

PoolsAreTidy == \A n \in Node : PoolIsTidy(pool[n], tracked[n])

\* A validator that voted for a block keeps the notarization it voted on.
KeepsWhatItVotedOn ==
  \A n \in Node : \A a \in cast[n] :
    Number[Parent[a]] <= Number[pool[n].last] \/ Parent[a] \in pool[n].notarized

TimelyIInv == /\ IInv /\ Finality!IInv
              /\ TimersInStep /\ ProposalsAreSound
              /\ PoolsAreTidy /\ OnlyRivalsAreBlamed /\ KeepsWhatItVotedOn
=============================================================================
