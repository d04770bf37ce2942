-------------------------- MODULE Consensus_proofs --------------------------
(***************************************************************************)
(* Proofs about Consensus, for every block tree, set of validators and     *)
(* stakes, and however messages are lost, repeated and reordered.          *)
(*                                                                         *)
(* First what needs no assumption about the network: the calls of a        *)
(* validator leave its pool whole (BlockPool_proofs.tla), and no pool      *)
(* holds a vote that was not cast.                                         *)
(*                                                                         *)
(* Then, for a network in good order and while no validator votes twice in *)
(* an epoch, that the code implements ChainFinality.tla: a validator votes *)
(* in the order of the epochs and of the numbers, because the tips that it *)
(* extends are the longest notarized chains, and it finalizes where three  *)
(* consecutive epochs are notarized.  The proposers and the stakes may     *)
(* differ from branch to branch.  Agreement, and that only the rival of    *)
(* another proposal is voted against, follow with the theorems of          *)
(* ChainFinality_proofs.tla.                                               *)
(***************************************************************************)
EXTENDS Consensus, BlockPool_proofs

-----------------------------------------------------------------------------
(* Without any assumption about the network.                               *)

\* The transaction of a vote.
LEMMA VoteOfIsVote == \A n \in Node : VoteOf(n) \in VoteTx /\ Voter(VoteOf(n)) = n
BY NonceHasMin DEF VoteOf, VoteTx, Voter

\* Every vote is the only one of its voter.
LEMMA CastForIs ==
  \A b \in Block : /\ CastFor(b) \in SUBSET (Node \X {Min(Nonce)})
                   /\ CastFor(b) \in SUBSET VoteTx
                   /\ b # Root => CastFor(b) = {VoteOf(m) : m \in {k \in Node : b \in cast[k]}}
<1> TAKE b \in Block
<1>1. InitPool.votes[b] = IF b = Root THEN RootVotes ELSE {}
  BY InitPoolIs, Zenon
<1>2. RootVotes \in SUBSET (Node \X {Min(Nonce)})
  BY DEF RootVotes
<1>3. {VoteOf(m) : m \in {k \in Node : b \in cast[k]}} \in SUBSET (Node \X {Min(Nonce)})
  BY DEF VoteOf
<1>4. Node \X {Min(Nonce)} \subseteq VoteTx
  BY NonceHasMin DEF VoteTx
<1> QED BY <1>1, <1>2, <1>3, <1>4 DEF CastFor

\* No vote is taken back.
LEMMA CastForGrows ==
  ASSUME \A k \in Node : cast[k] \subseteq cast'[k], NEW b \in Block
  PROVE  CastFor(b) \subseteq CastFor(b)'
BY DEF CastFor

\* The first state.
LEMMA InitIInv == Init => IInv
<1> SUFFICES ASSUME Init PROVE IInv OBVIOUS
<1>1. InitPool \in Pool /\ InitPool.invalid = {} /\ PoolIsWhole(InitPool, {Root})
  BY InitPoolIs, InitPoolIsWhole
<1>2. TypeOK BY <1>1, Typing DEF Init, TypeOK
<1>3. PoolsAreWhole BY <1>1 DEF Init, PoolsAreWhole
<1>4. TimersAreBehind BY Typing DEF Init, TimersAreBehind
<1>5. ProposalsAreMade BY DEF Init, ProposalsAreMade
<1>6. PoolsAreFilled BY <1>1 DEF Init, PoolsAreFilled, CastFor
<1> QED BY <1>2, <1>3, <1>4, <1>5, <1>6 DEF IInv

\* What the handling of a proposal changes.
LEMMA HandleIs ==
  ASSUME IInv, NEW n \in Node, NEW m \in Proposal, m.block \notin tracked[n],
         ~HasSeenBlock(pool[n], m.block), Handle(n, m)
  PROVE  /\ \A k \in Node \ {n} :
              pool'[k] = pool[k] /\ tracked'[k] = tracked[k] /\ cast'[k] = cast[k]
         /\ pool' \in [Node -> Pool] /\ tracked' \in [Node -> SUBSET Block]
         /\ cast' \in [Node -> SUBSET Block]
         /\ PoolIsWhole(pool'[n], tracked'[n])
         /\ HasHandled(pool[n], pool'[n], m, VoteOf(n))
         /\ tracked'[n] = TrackedAfter(pool[n], tracked[n], m)
         /\ IF VoteOf(n) \in pool'[n].votes[m.block]
            THEN cast'[n] = cast[n] \cup {m.block} /\ CastsVote(pool[n], m, VoteOf(n))
            ELSE cast'[n] = cast[n]
<1> DEFINE b == m.block
           p == pool[n]
           q == AfterProposal(p, m, VoteOf(n))
<1>1. /\ PoolIsWhole(p, tracked[n]) /\ p \in Pool /\ b \in Block
      /\ pool \in [Node -> Pool] /\ tracked \in [Node -> SUBSET Block]
      /\ cast \in [Node -> SUBSET Block]
  BY DEF IInv, PoolsAreWhole, TypeOK, Proposal
<1>2. /\ PoolIsWhole(q, TrackedAfter(p, tracked[n], m))
      /\ HasHandled(p, q, m, VoteOf(n))
  BY <1>1, VoteOfIsVote, AfterProposalKeeps
<1>3. /\ pool' = [pool EXCEPT ![n] = q]
      /\ tracked' = [tracked EXCEPT ![n] = TrackedAfter(p, tracked[n], m)]
      /\ cast' = IF VoteOf(n) \in q.votes[b] THEN [cast EXCEPT ![n] = @ \cup {b}] ELSE cast
  BY DEF Handle, TrackedAfter
<1>4. TrackedAfter(p, tracked[n], m) \in SUBSET Block
  BY <1>1 DEF TrackedAfter
<1>5. q \in Pool BY <1>2 DEF PoolIsWhole
<1> HIDE DEF q
<1>6. pool'[n] = q /\ tracked'[n] = TrackedAfter(p, tracked[n], m)
  BY <1>1, <1>3
<1>7. \A k \in Node \ {n} :
        pool'[k] = pool[k] /\ tracked'[k] = tracked[k] /\ cast'[k] = cast[k]
  BY <1>1, <1>3
<1>8. /\ pool' \in [Node -> Pool] /\ tracked' \in [Node -> SUBSET Block]
      /\ cast' \in [Node -> SUBSET Block]
  BY <1>1, <1>3, <1>4, <1>5
<1>9. IF VoteOf(n) \in q.votes[b]
      THEN cast'[n] = cast[n] \cup {b} /\ CastsVote(p, m, VoteOf(n))
      ELSE cast'[n] = cast[n]
  <2>1. b \notin p.blocks /\ b # Parent[b]
    <3>1. b \in Block \ {Root} BY DEF Proposal
    <3>2. b \notin p.blocks BY <1>1 DEF PoolIsWhole, PoolIsNested
    <3>3. Number[b] = Number[Parent[b]] + 1 /\ Number[Parent[b]] \in Nat
      BY <3>1, Typing, TreeIsAssumed DEF TreeAssumption
    <3> QED BY <3>2, <3>3
  <2>2. VoteOf(n) \notin p.votes[b]
    <3>1. /\ b # Root /\ b \notin cast[n]
          /\ p.votes[b] \subseteq {VoteOf(k) : k \in {k \in Node : b \in cast[k]}}
      BY <1>1, CastForIs DEF IInv, PoolsAreFilled, Proposal
    <3> QED BY <3>1 DEF VoteOf
  <2>3. VoteOf(n) \in q.votes[b] => CastsVote(p, m, VoteOf(n))
    BY <1>1, <1>2, <2>1, <2>2 DEF HasHandled
  <2> QED BY <1>1, <1>3, <2>3
<1> QED BY <1>2, <1>6, <1>7, <1>8, <1>9

\* After the handling of a proposal, one of the proposals made so far.
LEMMA HandleKeeps ==
  ASSUME IInv, NEW n \in Node, NEW m \in Proposal, m.block \notin tracked[n],
         ~HasSeenBlock(pool[n], m.block), Handle(n, m),
         proposals' = proposals \cup {m},
         m.lastVotes \subseteq CastFor(Parent[m.block]),
         Epoch[m.block] <= epoch'[Proposer[m.block]],
         now' = now, epoch' \in [Node -> Nat], transition' \in [Node -> Nat],
         TimersAreBehind', \A k \in Node : epoch[k] <= epoch'[k]
  PROVE  IInv'
<1> DEFINE b == m.block
<1>1. /\ pool' \in [Node -> Pool] /\ tracked' \in [Node -> SUBSET Block]
      /\ cast' \in [Node -> SUBSET Block]
      /\ PoolIsWhole(pool'[n], tracked'[n]) /\ HasHandled(pool[n], pool'[n], m, VoteOf(n))
      /\ tracked'[n] = TrackedAfter(pool[n], tracked[n], m)
      /\ IF VoteOf(n) \in pool'[n].votes[b]
         THEN cast'[n] = cast[n] \cup {b} /\ CastsVote(pool[n], m, VoteOf(n))
         ELSE cast'[n] = cast[n]
      /\ \A k \in Node \ {n} :
           pool'[k] = pool[k] /\ tracked'[k] = tracked[k] /\ cast'[k] = cast[k]
  BY HandleIs
<1>2. b \in Block \ {Root} /\ Parent[b] \in Block /\ b # Parent[b]
  <2>1. b \in Block \ {Root} BY DEF Proposal
  <2>2. Number[b] = Number[Parent[b]] + 1 /\ Number[Parent[b]] \in Nat /\ Parent[b] \in Block
    BY <2>1, Typing, TreeIsAssumed DEF TreeAssumption
  <2> QED BY <2>1, <2>2
<1>3. /\ tracked[n] \subseteq tracked'[n] /\ tracked'[n] \subseteq tracked[n] \cup {b}
      /\ \A k \in Node : cast[k] \subseteq cast'[k]
  BY <1>1 DEF TrackedAfter
<1>4. \A c \in Block : CastFor(c) \subseteq CastFor(c)'
  BY <1>3, CastForGrows
<1>5. TypeOK'
  BY <1>1 DEF IInv, TypeOK
<1>6. PoolsAreWhole'
  BY <1>1, <1>3 DEF IInv, PoolsAreWhole
<1>7. ProposalsAreMade'
  <2> SUFFICES ASSUME NEW l \in proposals \cup {m}
               PROVE  /\ Epoch[l.block] <= epoch'[Proposer[l.block]]
                      /\ l.lastVotes \subseteq CastFor(Parent[l.block])'
    BY DEF ProposalsAreMade
  <2>1. l \in Proposal BY DEF IInv, TypeOK
  <2>2. l.block \in Block BY <2>1 DEF Proposal
  <2>3. /\ Parent[l.block] \in Block /\ Proposer[l.block] \in Node /\ Epoch[l.block] \in Nat
    BY <2>2, Typing, ProposerIsAssumed
  <2>4. l.lastVotes \subseteq CastFor(Parent[l.block])'
    BY <1>4, <2>3 DEF IInv, ProposalsAreMade
  <2>5. Epoch[l.block] <= epoch'[Proposer[l.block]]
    <3>1. epoch[Proposer[l.block]] \in Nat /\ epoch'[Proposer[l.block]] \in Nat
      BY <2>3 DEF IInv, TypeOK
    <3> QED BY <2>3, <3>1 DEF IInv, ProposalsAreMade
  <2> QED BY <2>4, <2>5
<1>8. PoolsAreFilled'
  <2> SUFFICES ASSUME NEW k \in Node
               PROVE  /\ tracked'[k] \cup pool'[k].invalid
                           \subseteq {Root} \cup {l.block : l \in proposals'}
                      /\ cast'[k] \subseteq tracked'[k] \ {Root}
                      /\ \A c \in Block : pool'[k].votes[c] \subseteq CastFor(c)'
    BY DEF PoolsAreFilled
  <2>1. /\ tracked[k] \cup pool[k].invalid \subseteq {Root} \cup {l.block : l \in proposals}
        /\ cast[k] \subseteq tracked[k] \ {Root}
        /\ \A c \in Block : pool[k].votes[c] \subseteq CastFor(c)
    BY DEF IInv, PoolsAreFilled
  <2>2. {l.block : l \in proposals'} = {l.block : l \in proposals} \cup {b}
    OBVIOUS
  <2>3. CASE k # n
    BY <1>1, <1>4, <2>1, <2>2, <2>3
  <2>4. CASE k = n
    <3>1. tracked'[k] \cup pool'[k].invalid \subseteq {Root} \cup {l.block : l \in proposals'}
      BY <1>1, <1>3, <2>1, <2>2, <2>4 DEF HasHandled
    <3>2. cast'[n] \subseteq tracked'[n] \ {Root}
      <4>1. CASE VoteOf(n) \in pool'[n].votes[b]
        <5>1. b \in tracked'[n]
          BY <1>1, <4>1 DEF CastsVote, TrackedAfter
        <5> QED BY <1>1, <1>2, <1>3, <2>1, <2>4, <4>1, <5>1
      <4> QED BY <1>1, <1>3, <2>1, <2>4, <4>1
    <3>3. ASSUME NEW c \in Block PROVE pool'[n].votes[c] \subseteq CastFor(c)'
      <4>1. pool[n].votes[c] \subseteq CastFor(c)'
        BY <1>4, <2>1, <2>4
      <4>2. c = Parent[b] => m.lastVotes \subseteq CastFor(c)'
        BY <1>4
      <4>3. c = b /\ VoteOf(n) \in pool'[n].votes[b] => VoteOf(n) \in CastFor(c)'
        BY <1>1 DEF CastFor
      <4> QED BY <1>1, <4>1, <4>2, <4>3 DEF HasHandled
    <3> QED BY <2>4, <3>1, <3>2, <3>3
  <2> QED BY <2>3, <2>4
<1> QED BY <1>5, <1>6, <1>7, <1>8 DEF IInv

\* What a validator proposes is new to it, and it is made of votes that were cast.
LEMMA ProposalIsNew ==
  ASSUME IInv, NEW n \in Node, NEW b \in Block, transition[n] # 0, Proposes(n, b)
  PROVE  /\ ProposalOf(pool[n], b) \in Proposal /\ ProposalOf(pool[n], b).block = b
         /\ b \notin tracked[n] /\ ~HasSeenBlock(pool[n], b)
         /\ \A m \in proposals : Proposer[m.block] = n => Epoch[m.block] < Epoch[b]
         /\ ProposalOf(pool[n], b).lastVotes \subseteq CastFor(Parent[b])
<1> DEFINE p == pool[n]
<1>1. /\ PoolIsWhole(p, tracked[n]) /\ p \in Pool /\ b # Root /\ Epoch[b] = transition[n]
      /\ Proposer[b] = n /\ epoch[n] < transition[n] /\ epoch[n] \in Nat /\ Parent[b] \in Block
      /\ p.votes[Parent[b]] \in SUBSET VoteTx /\ p.votes[Parent[b]] \subseteq CastFor(Parent[b])
      /\ tracked[n] \cup p.invalid \subseteq {Root} \cup {m.block : m \in proposals}
  <2>1. p \in Pool /\ epoch[n] \in Nat BY DEF IInv, TypeOK
  <2>2. PoolIsWhole(p, tracked[n]) BY DEF IInv, PoolsAreWhole
  <2>3. b # Root /\ Epoch[b] = transition[n] /\ Proposer[b] = n BY DEF Proposes
  <2>4. Parent[b] \in Block BY <2>3, Typing
  <2>5. p.votes \in [Block -> SUBSET VoteTx] BY <2>1 DEF Pool
  <2>6. epoch[n] < transition[n] BY DEF IInv, TimersAreBehind
  <2>7. /\ tracked[n] \cup p.invalid \subseteq {Root} \cup {m.block : m \in proposals}
        /\ p.votes[Parent[b]] \subseteq CastFor(Parent[b])
    BY <2>4 DEF IInv, PoolsAreFilled
  <2> QED BY <2>1, <2>2, <2>3, <2>4, <2>5, <2>6, <2>7
<1>2. ASSUME NEW m \in proposals, Proposer[m.block] = n PROVE Epoch[m.block] < Epoch[b]
  <2>1. m.block \in Block BY DEF IInv, TypeOK, Proposal
  <2>2. Epoch[m.block] \in Nat /\ Epoch[b] \in Nat /\ Epoch[m.block] <= epoch[n]
    BY <1>2, <2>1, Typing DEF IInv, ProposalsAreMade
  <2> QED BY <1>1, <2>2
<1>3. b \notin tracked[n] \cup p.invalid
  <2>1. Epoch[b] \in Nat BY Typing
  <2>2. \A m \in proposals : m.block # b BY <1>1, <1>2, <2>1
  <2> QED BY <1>1, <2>2
<1>4. ~HasSeenBlock(p, b)
  BY <1>1, <1>3, SeenIsInPool DEF PoolIsWhole, PoolIsNested
<1>5. FirstVotes(p.votes[Parent[b]]) \subseteq p.votes[Parent[b]]
  BY DEF FirstVotes
<1>6. /\ ProposalOf(p, b) \in Proposal /\ ProposalOf(p, b).block = b
      /\ ProposalOf(p, b).lastVotes \subseteq CastFor(Parent[b])
  <2> DEFINE V == IF Number[b] > 1 THEN FirstVotes(p.votes[Parent[b]]) ELSE {}
  <2>1. V \in SUBSET VoteTx /\ V \subseteq CastFor(Parent[b]) BY <1>1, <1>5
  <2>2. ProposalOf(p, b)
          = [block |-> b, lastVotes |-> V, lastTx |-> Parent[b] \in p.proposals, flaw |-> "none"]
    BY DEF ProposalOf
  <2> HIDE DEF V
  <2> QED BY <1>1, <2>1, <2>2 DEF Proposal, Flaws, PlacedFlaws
<1> QED BY <1>2, <1>3, <1>4, <1>6

-----------------------------------------------------------------------------
(* The steps.                                                              *)

\* Time passes.
LEMMA AdvanceKeeps == ASSUME IInv, Advance PROVE IInv'
<1>1. now \in Nat /\ epoch \in [Node -> Nat] /\ transition \in [Node -> Nat]
  BY DEF IInv, TypeOK
<1>2. TypeOK' BY DEF IInv, TypeOK, Advance
<1>3. TimersAreBehind'
  BY <1>1 DEF IInv, TimersAreBehind, Advance
<1>4. PoolsAreWhole' /\ ProposalsAreMade' /\ PoolsAreFilled'
  BY DEF IInv, PoolsAreWhole, ProposalsAreMade, PoolsAreFilled, CastFor, Advance
<1> QED BY <1>2, <1>3, <1>4 DEF IInv

\* A finalization drops votes and blocks, and adds none.
LEMMA StartKeeps ==
  ASSUME IInv, NEW n \in Node, StartTransition(n)
  PROVE  /\ IInv'
         /\ \A k \in Node \ {n} : pool'[k] = pool[k]
         /\ pool'[n] = pool[n] \/ \E c \in Block : HasFinalized(pool[n], pool'[n], c)
<1> DEFINE q == TryFinalizeChain(pool[n])
<1>1. /\ PoolIsWhole(pool[n], tracked[n]) /\ pool \in [Node -> Pool]
      /\ transition \in [Node -> Nat] /\ now \in Nat /\ epoch \in [Node -> Nat]
  BY DEF IInv, PoolsAreWhole, TypeOK
<1>2. /\ PoolIsWhole(q, tracked[n])
      /\ q = pool[n] \/ \E c \in Block : HasFinalized(pool[n], q, c)
  BY <1>1, FinalizationIs
<1>3. q \in Pool BY <1>2 DEF PoolIsWhole
<1> HIDE DEF q
<1>4. /\ pool' \in [Node -> Pool] /\ pool'[n] = q
      /\ \A k \in Node \ {n} : pool'[k] = pool[k]
      /\ transition' \in [Node -> Nat] /\ transition'[n] = now /\ epoch[n] < now
      /\ \A k \in Node \ {n} : transition'[k] = transition[k]
      /\ now' = now /\ epoch' = epoch /\ tracked' = tracked /\ proposals' = proposals
      /\ cast' = cast
  BY <1>1, <1>3 DEF StartTransition, q
<1>5. TypeOK' BY <1>4 DEF IInv, TypeOK
<1>6. TimersAreBehind'
  <2> SUFFICES ASSUME NEW k \in Node
               PROVE  /\ epoch[k] <= now
                      /\ transition'[k] # 0 => epoch[k] < transition'[k] /\ transition'[k] <= now
    BY <1>4 DEF TimersAreBehind
  <2>1. CASE k = n BY <1>1, <1>4, <2>1 DEF IInv, TimersAreBehind
  <2>2. CASE k # n BY <1>4, <2>2 DEF IInv, TimersAreBehind
  <2> QED BY <2>1, <2>2
<1>7. PoolsAreWhole' BY <1>2, <1>4 DEF IInv, PoolsAreWhole
<1>8. \A c : CastFor(c)' = CastFor(c) BY <1>4 DEF CastFor
<1>9. ProposalsAreMade' BY <1>4, <1>8 DEF IInv, ProposalsAreMade
<1>10. PoolsAreFilled'
  <2>1. q.invalid \subseteq pool[n].invalid /\ \A c \in Block : q.votes[c] \subseteq pool[n].votes[c]
    BY <1>2 DEF HasFinalized
  <2> SUFFICES ASSUME NEW k \in Node
               PROVE  /\ tracked[k] \cup pool'[k].invalid
                           \subseteq {Root} \cup {m.block : m \in proposals}
                      /\ cast[k] \subseteq tracked[k] \ {Root}
                      /\ \A c \in Block : pool'[k].votes[c] \subseteq CastFor(c)
    BY <1>4, <1>8 DEF PoolsAreFilled
  <2>2. /\ pool'[k].invalid \subseteq pool[k].invalid
        /\ \A c \in Block : pool'[k].votes[c] \subseteq pool[k].votes[c]
    BY <1>4, <2>1
  <2> QED BY <2>2 DEF IInv, PoolsAreFilled
<1> QED BY <1>2, <1>4, <1>5, <1>6, <1>7, <1>9, <1>10 DEF IInv

\* The end of the timer callback, with a finalization and a proposal.
LEMMA FinishKeeps ==
  ASSUME IInv, NEW n \in Node, FinishTransition(n)
  PROVE  IInv'
<1>1. /\ transition[n] \in Nat \ {0} /\ epoch \in [Node -> Nat] /\ transition \in [Node -> Nat]
      /\ now \in Nat /\ epoch[n] < transition[n] /\ transition[n] <= now
  BY DEF IInv, TypeOK, TimersAreBehind, FinishTransition
<1>2. /\ now' = now /\ epoch' \in [Node -> Nat] /\ transition' \in [Node -> Nat]
      /\ epoch'[n] = transition[n] /\ transition'[n] = 0
      /\ \A k \in Node \ {n} : epoch'[k] = epoch[k] /\ transition'[k] = transition[k]
      /\ \A k \in Node : epoch[k] <= epoch'[k]
  <2>1. /\ now' = now /\ epoch' = [epoch EXCEPT ![n] = transition[n]]
        /\ transition' = [transition EXCEPT ![n] = 0]
    BY DEF FinishTransition
  <2>2. /\ epoch' \in [Node -> Nat] /\ transition' \in [Node -> Nat]
        /\ epoch'[n] = transition[n] /\ transition'[n] = 0
        /\ \A k \in Node \ {n} : epoch'[k] = epoch[k] /\ transition'[k] = transition[k]
    BY <1>1, <2>1
  <2>3. \A k \in Node : epoch[k] <= epoch'[k] BY <1>1, <2>2
  <2> QED BY <2>1, <2>2, <2>3
<1>3. TimersAreBehind'
  <2> SUFFICES ASSUME NEW k \in Node
               PROVE  /\ epoch'[k] <= now
                      /\ transition'[k] # 0 => epoch'[k] < transition'[k] /\ transition'[k] <= now
    BY <1>2 DEF TimersAreBehind
  <2>1. CASE k = n BY <1>1, <1>2, <2>1
  <2>2. CASE k # n BY <1>2, <2>2 DEF IInv, TimersAreBehind
  <2> QED BY <2>1, <2>2
<1>4. ASSUME NEW b \in Block, Proposes(n, b), Handle(n, ProposalOf(pool[n], b)),
             proposals' = proposals \cup {ProposalOf(pool[n], b)}
      PROVE  IInv'
  <2> DEFINE m == ProposalOf(pool[n], b)
  <2>1. /\ m \in Proposal /\ m.block = b /\ b \notin tracked[n] /\ ~HasSeenBlock(pool[n], b)
        /\ m.lastVotes \subseteq CastFor(Parent[b])
    BY <1>1, <1>4, ProposalIsNew
  <2>2. Epoch[b] = transition[n] /\ Proposer[b] = n BY <1>4 DEF Proposes
  <2>3. Handle(n, m) /\ proposals' = proposals \cup {m} BY <1>4
  <2>4. Epoch[m.block] <= epoch'[Proposer[m.block]] BY <1>1, <1>2, <2>1, <2>2
  <2> HIDE DEF m
  <2> QED BY <1>2, <1>3, <2>1, <2>3, <2>4, HandleKeeps
<1>5. CASE UNCHANGED <<pool, tracked, proposals, cast>>
  <2>1. \A c : CastFor(c)' = CastFor(c) BY <1>5 DEF CastFor
  <2>2. ProposalsAreMade'
    <3> SUFFICES ASSUME NEW m \in proposals
                 PROVE  /\ Epoch[m.block] <= epoch'[Proposer[m.block]]
                        /\ m.lastVotes \subseteq CastFor(Parent[m.block])
      BY <1>5, <2>1 DEF ProposalsAreMade
    <3>1. m.block \in Block /\ Epoch[m.block] \in Nat /\ Proposer[m.block] \in Node
      BY Typing, ProposerIsAssumed DEF IInv, TypeOK, Proposal
    <3>2. epoch[Proposer[m.block]] \in Nat /\ epoch'[Proposer[m.block]] \in Nat
          /\ epoch[Proposer[m.block]] <= epoch'[Proposer[m.block]]
      BY <1>1, <1>2, <3>1
    <3> QED BY <3>1, <3>2 DEF IInv, ProposalsAreMade
  <2>3. TypeOK' BY <1>2, <1>5 DEF IInv, TypeOK
  <2>4. PoolsAreWhole' /\ PoolsAreFilled'
    BY <1>5, <2>1 DEF IInv, PoolsAreWhole, PoolsAreFilled
  <2> QED BY <1>3, <2>2, <2>3, <2>4 DEF IInv
<1> QED BY <1>4, <1>5 DEF FinishTransition

\* A proposal arrives.
LEMMA ReceiveProposalKeeps ==
  ASSUME IInv, NEW n \in Node, NEW m \in proposals, ReceiveProposal(n, m)
  PROVE  IInv'
<1>1. /\ m \in Proposal /\ m.lastVotes \subseteq CastFor(Parent[m.block])
      /\ Epoch[m.block] <= epoch[Proposer[m.block]]
      /\ epoch \in [Node -> Nat] /\ transition \in [Node -> Nat]
  BY DEF IInv, TypeOK, ProposalsAreMade
<1>2. /\ m.block \notin tracked[n] /\ ~HasSeenBlock(pool[n], m.block) /\ Handle(n, m)
      /\ now' = now /\ epoch' = epoch /\ transition' = transition
      /\ proposals' = proposals \cup {m}
  BY DEF ReceiveProposal, TakesProposal
<1>3. TimersAreBehind' BY <1>2 DEF IInv, TimersAreBehind
<1>4. \A k \in Node : epoch[k] <= epoch'[k] BY <1>1, <1>2
<1> QED BY <1>1, <1>2, <1>3, <1>4, HandleKeeps

\* A vote arrives: no pool but that of the receiver changes.
LEMMA ReceiveVoteKeeps ==
  ASSUME IInv, NEW n \in Node, NEW voter \in Node, NEW b \in cast[voter],
         ReceiveVote(n, voter, b)
  PROVE  /\ IInv'
         /\ HasMoreVotes(pool[n], pool'[n], b, {VoteOf(voter)})
         /\ \A k \in Node \ {n} : pool'[k] = pool[k]
<1> DEFINE q == AddVoteFor(pool[n], b, VoteOf(voter))
<1>1. /\ PoolIsWhole(pool[n], tracked[n]) /\ b \in Block /\ pool \in [Node -> Pool]
      /\ b \in pool[n].blocks
  BY DEF IInv, PoolsAreWhole, TypeOK, ReceiveVote, TakesVote, AcceptsVoteFor, PoolIsWhole,
         PoolIsNested
<1>2. PoolIsWhole(q, tracked[n]) /\ HasMoreVotes(pool[n], q, b, {VoteOf(voter)})
  BY <1>1, VoteOfIsVote, AddVoteForKeeps DEF HasPlace
<1>3. q \in Pool BY <1>2 DEF PoolIsWhole
<1> HIDE DEF q
<1>4. /\ pool' \in [Node -> Pool] /\ pool'[n] = q
      /\ \A k \in Node \ {n} : pool'[k] = pool[k]
      /\ now' = now /\ epoch' = epoch /\ tracked' = tracked /\ proposals' = proposals
      /\ cast' = cast /\ transition' = transition
  BY <1>1, <1>3 DEF ReceiveVote, q
<1>5. TypeOK' /\ TimersAreBehind' BY <1>4 DEF IInv, TypeOK, TimersAreBehind
<1>6. PoolsAreWhole' BY <1>2, <1>4 DEF IInv, PoolsAreWhole
<1>7. \A c : CastFor(c)' = CastFor(c) BY <1>4 DEF CastFor
<1>8. ProposalsAreMade' BY <1>4, <1>7 DEF IInv, ProposalsAreMade
<1>9. PoolsAreFilled'
  <2>1. VoteOf(voter) \in CastFor(b) BY DEF CastFor
  <2>2. q.invalid = pool[n].invalid /\ \A c \in Block : q.votes[c] \subseteq CastFor(c)
    BY <1>2, <2>1 DEF HasMoreVotes, IInv, PoolsAreFilled
  <2> QED BY <1>4, <1>7, <2>2 DEF IInv, PoolsAreFilled
<1> QED BY <1>2, <1>4, <1>5, <1>6, <1>8, <1>9 DEF IInv

\* Every step keeps the invariant.
LEMMA NextIInv == IInv /\ [Next]_vars => IInv'
<1> SUFFICES ASSUME IInv, [Next]_vars PROVE IInv' OBVIOUS
<1>1. CASE Advance BY <1>1, AdvanceKeeps
<1>2. ASSUME NEW n \in Node, StartTransition(n) PROVE IInv' BY <1>2, StartKeeps
<1>3. ASSUME NEW n \in Node, FinishTransition(n) PROVE IInv' BY <1>3, FinishKeeps
<1>4. ASSUME NEW n \in Node, NEW m \in proposals, ReceiveProposal(n, m) PROVE IInv'
  BY <1>4, ReceiveProposalKeeps
<1>5. ASSUME NEW n \in Node, NEW voter \in Node, NEW b \in cast[voter], ReceiveVote(n, voter, b)
      PROVE  IInv'
  BY <1>5, ReceiveVoteKeeps
<1>6. CASE UNCHANGED vars
  BY <1>6 DEF vars, IInv, TypeOK, PoolsAreWhole, TimersAreBehind, ProposalsAreMade,
              PoolsAreFilled, CastFor
<1> QED BY <1>1, <1>2, <1>3, <1>4, <1>5, <1>6 DEF Next

(***************************************************************************)
(* Whatever is lost, repeated, reordered or late: the pool of every        *)
(* validator is whole, timers run behind the clock, and every vote in a    *)
(* pool or a proposal was cast (block-pool and consensus).                 *)
(***************************************************************************)
THEOREM PoolsStayWhole == Spec => []IInv
BY InitIInv, NextIInv, PTL DEF Spec

\* The variables of all validators keep their types.
THEOREM ConsensusTypeOK == Spec => []TypeOK
<1>1. IInv => TypeOK BY DEF IInv
<1> QED BY <1>1, PoolsStayWhole, PTL

-----------------------------------------------------------------------------
(* What is notarized was voted for.                                        *)

\* A notarized block of a pool whose votes were cast got the votes of a majority.
LEMMA CastIsMajority ==
  ASSUME NEW p, NEW K, PoolIsWhole(p, K), NEW b \in p.notarized \ {Root},
         p.votes[b] \subseteq CastFor(b)
  PROVE  \E d \in Deciders(p, b) : IsMajority(StakeSum(b, CastFor(b)), TotalAtStake(d))
<1>1. /\ p \in Pool /\ b \in Block \ {Root} /\ b \in p.blocks /\ p.votes[b] \in SUBSET VoteTx
  BY DEF PoolIsWhole, PoolIsNested, Pool
<1>2. PICK d \in Deciders(p, b) : IsMajority(StakeSum(b, p.votes[b]), TotalAtStake(d))
  BY <1>1 DEF PoolIsWhole, PoolIsNotarized, PoolIsCounted
<1>3. d \in Block BY <1>1, DecidersAre
<1>4. CastFor(b) \in SUBSET VoteTx BY <1>1, CastForIs
<1>5. StakeSum(b, p.votes[b]) <= StakeSum(b, CastFor(b))
  BY <1>1, <1>4, StakeSumGrows
<1>6. /\ StakeSum(b, p.votes[b]) \in Nat /\ StakeSum(b, CastFor(b)) \in Nat
      /\ TotalAtStake(d) \in Nat
  BY <1>1, <1>3, <1>4, StakeSumIsNat, TotalIsNat
<1>7. IsMajority(StakeSum(b, CastFor(b)), TotalAtStake(d))
  BY <1>2, <1>5, <1>6 DEF IsMajority
<1> QED BY <1>7

(***************************************************************************)
(* On any network and with any stakes: what a validator counts as          *)
(* notarized has the votes of two thirds of the stakes that decide about   *)
(* it (addSeenVote counts a transaction once, and                          *)
(* cleanUpAfterFinalization brings no vote back).                          *)
(***************************************************************************)
THEOREM CountsWhatWasCast == Spec => []NotarizedWasVotedFor
<1>1. ASSUME IInv PROVE NotarizedWasVotedFor
  <2> SUFFICES ASSUME NEW n \in Node, NEW b \in pool[n].notarized \ {Root}
               PROVE  \E d \in Deciders(pool[n], b) :
                        3 * StakeSum(b, {VoteOf(m) : m \in {k \in Node : b \in cast[k]}})
                          >= 2 * TotalAtStake(d)
    BY DEF NotarizedWasVotedFor
  <2>1. b \in Block /\ pool[n].votes[b] \subseteq CastFor(b)
    BY <1>1 DEF IInv, PoolsAreWhole, PoolsAreFilled, PoolIsWhole, Pool
  <2>2. \E d \in Deciders(pool[n], b) : IsMajority(StakeSum(b, CastFor(b)), TotalAtStake(d))
    BY <1>1, <2>1, CastIsMajority DEF IInv, PoolsAreWhole
  <2>3. CastFor(b) = {VoteOf(m) : m \in {k \in Node : b \in cast[k]}}
    BY <2>1, CastForIs
  <2> QED BY <2>2, <2>3 DEF IsMajority
<1>2. IInv => NotarizedWasVotedFor BY <1>1
<1> QED BY <1>2, PoolsStayWhole, PTL

-----------------------------------------------------------------------------
(* The abstract specification.                                             *)

FP == INSTANCE ChainFinality_proofs WITH
  votes <- cast,
  final <- [n \in Node |-> pool[n].last]

\* ChainFinality may be used: its assumptions hold.
LEMMA FinalityAssumed ==
  ASSUME InGoodOrder
  PROVE  FP!QuorumAssumption /\ FP!TreeAssumption
<1>1. FP!QuorumAssumption BY QuorumIsAssumed DEF InGoodOrder, FP!QuorumAssumption
<1>2. FP!TreeAssumption
  BY TreeIsAssumed DEF TreeAssumption, FP!TreeAssumption
<1> QED BY <1>1, <1>2

\* Finality and FP are the same instance of one specification.
LEMMA SameFinality ==
  /\ Finality!IInv <=> FP!IInv
  /\ \A b : Finality!IsNotarized(b) <=> FP!IsNotarized(b)
  /\ \A c : Finality!Finalizes(c) <=> FP!Finalizes(c)
  /\ Finality!Init <=> FP!Init
  /\ Finality!Agreement <=> FP!Agreement
BY DEF Finality!IInv, FP!IInv, Finality!TypeOK, FP!TypeOK, Finality!VotesOrdered, FP!VotesOrdered,
    Finality!VotedOnNotarized, FP!VotedOnNotarized, Finality!FinalJustified, FP!FinalJustified,
    Finality!IsNotarized, FP!IsNotarized, Finality!Voters, FP!Voters,
    Finality!Finalizes, FP!Finalizes, Finality!Init, FP!Init,
    Finality!EndsWithThreeConsecutiveEpochs, FP!EndsWithThreeConsecutiveEpochs,
    Finality!Agreement, FP!Agreement, Finality!Compatible, FP!Compatible

\* The facts of ChainFinality_proofs.tla about the votes and the last blocks.
LEMMA FinalityInit == ASSUME InGoodOrder, Finality!Init PROVE Finality!IInv
BY FinalityAssumed, SameFinality, FP!InitIInv

\* Its invariant is kept by its steps ...
LEMMA FinalityNext ==
  ASSUME InGoodOrder, Finality!IInv, [Finality!Next]_(Finality!vars)
  PROVE  Finality!IInv'
<1>1. FP!IInv BY SameFinality
<1>2. [FP!Next]_(FP!vars)
  BY DEF Finality!Next, FP!Next, Finality!vars, FP!vars, Finality!Vote, FP!Vote,
    Finality!Finalize, FP!Finalize, Finality!IsNotarized, FP!IsNotarized, Finality!Voters, FP!Voters,
    Finality!Finalizes, FP!Finalizes,
    Finality!EndsWithThreeConsecutiveEpochs, FP!EndsWithThreeConsecutiveEpochs
<1>3. FP!IInv'
  BY <1>1, <1>2, FinalityAssumed, FP!NextIInv
<1> QED
  BY <1>3 DEF Finality!IInv, FP!IInv, Finality!TypeOK, FP!TypeOK, Finality!VotesOrdered,
    FP!VotesOrdered, Finality!VotedOnNotarized, FP!VotedOnNotarized, Finality!FinalJustified,
    FP!FinalJustified, Finality!IsNotarized, FP!IsNotarized, Finality!Voters, FP!Voters,
    Finality!Finalizes, FP!Finalizes,
    Finality!EndsWithThreeConsecutiveEpochs, FP!EndsWithThreeConsecutiveEpochs

\* ... implies that finalized chains agree ...
LEMMA FinalityAgrees == ASSUME InGoodOrder, Finality!IInv PROVE Agreement
<1>1. Finality!Agreement BY FinalityAssumed, SameFinality, FP!IInvAgreement
<1> QED
  BY <1>1 DEF Agreement, Compatible, Finality!Agreement, Finality!Compatible

\* ... and that what is below a notarized block is notarized.
LEMMA NotarizedBelow ==
  ASSUME InGoodOrder, Finality!IInv, NEW b \in Block, NEW a \in Chain[b], Finality!IsNotarized(b)
  PROVE  Finality!IsNotarized(a)
<1>1. FP!TypeOK /\ FP!VotedOnNotarized /\ FP!IsNotarized(b)
  BY SameFinality DEF FP!IInv
<1>2. FP!IsNotarized(a)
  BY <1>1, FinalityAssumed, FP!NotarizedDownwards
<1> QED BY <1>2, SameFinality

\* A notarized block that is not below the last block of a node stands on it ...
LEMMA StandsOnLast ==
  ASSUME InGoodOrder, Finality!IInv, TypeOK, NEW n \in Node, NEW d \in Block,
         Finality!IsNotarized(d), Number[pool[n].last] <= Number[d]
  PROVE  pool[n].last \in Chain[d]
<1> DEFINE L == pool[n].last
<1>1. L \in Block BY DEF TypeOK, Pool
<1>2. Number[L] \in Number[Root] .. Number[d]
  <2>1. Root \in Chain[L] BY <1>1, ChainsAreOrdered DEF ChainIsOrdered
  <2>2. Number[Root] <= Number[L] BY <1>1, <2>1, ChainGrows
  <2>3. Number[Root] \in Nat /\ Number[L] \in Nat /\ Number[d] \in Nat BY <1>1, Typing
  <2> QED BY <2>2, <2>3
<1>3. PICK a \in Chain[d] : Number[a] = Number[L]
  BY <1>2, ChainsAreOrdered DEF ChainIsOrdered
<1>4. a \in Block /\ Finality!IsNotarized(a)
  BY NotarizedBelow, TreeIsAssumed DEF TreeAssumption
<1>5. FP!FinalizedIsOnlyNotarized
  BY SameFinality, FinalityAssumed, FP!IInvUnique
<1>6. FP!IsNotarized(a) /\ Number[a] = Number[[k \in Node |-> pool[k].last][n]]
  BY <1>3, <1>4, SameFinality
<1>7. a = L BY <1>4, <1>5, <1>6 DEF FP!FinalizedIsOnlyNotarized
<1> QED BY <1>7

\* ... and one that is not below a block that can be finalized stands on that.
LEMMA StandsOnNextLast ==
  ASSUME InGoodOrder, Finality!IInv, NEW c \in Block, Finality!Finalizes(c),
         NEW d \in Block, Finality!IsNotarized(d), Number[Parent[c]] <= Number[d]
  PROVE  Parent[c] \in Chain[d]
<1>1. Parent[c] \in Block BY Typing
<1>2. Number[Parent[c]] \in Number[Root] .. Number[d]
  BY <1>1, Typing, TreeIsAssumed, ChainsAreOrdered DEF TreeAssumption, ChainIsOrdered
<1>3. PICK a \in Chain[d] : Number[a] = Number[Parent[c]]
  BY <1>2, ChainsAreOrdered DEF ChainIsOrdered
<1>4. a \in Block /\ Finality!IsNotarized(a)
  BY NotarizedBelow, TreeIsAssumed DEF TreeAssumption
<1>5. /\ FP!TypeOK /\ FP!VotesOrdered /\ FP!Finalizes(c) /\ FP!IsNotarized(a)
  BY <1>4, SameFinality DEF FP!IInv
<1>6. a = Parent[c]
  BY <1>3, <1>4, <1>5, FinalityAssumed, FP!UniqueAtHeight
<1> QED BY <1>6

-----------------------------------------------------------------------------
(* Pools and the abstract specification.                                   *)

\* A majority of the votes that were cast notarizes.
LEMMA MajorityNotarizes ==
  ASSUME NEW b \in Block \ {Root}, NEW d \in Block, Number[d] + 1 = Number[b],
         NEW V \in SUBSET CastFor(b), IsMajority(StakeSum(b, V), TotalAtStake(d))
  PROVE  Finality!IsNotarized(b)
<1> DEFINE Q == {k \in Node : b \in cast[k]}
<1>1. CastFor(b) = {VoteOf(m) : m \in Q} /\ CastFor(b) \in SUBSET VoteTx
  BY CastForIs
<1>2. CastFor(b) = Q \X {Min(Nonce)} BY <1>1 DEF VoteOf
<1>3. StakeSum(b, V) <= StakeSum(b, CastFor(b)) BY <1>1, StakeSumGrows
<1>4. /\ StakeSum(b, V) \in Nat /\ StakeSum(b, CastFor(b)) \in Nat
      /\ TotalAtStake(d) \in Nat
  BY <1>1, StakeSumIsNat, TotalIsNat
<1>5. StakeSum(b, CastFor(b)) > 0 /\ 3 * StakeSum(b, CastFor(b)) >= 2 * TotalAtStake(d)
  BY <1>3, <1>4 DEF IsMajority
<1>6. /\ StakeSum(b, Q \X {Min(Nonce)}) > 0
      /\ 3 * StakeSum(b, Q \X {Min(Nonce)}) >= 2 * TotalAtStake(d)
  BY <1>2, <1>5, Zenon
<1>7. Q \in SUBSET Node OBVIOUS
<1> HIDE DEF Q
<1>8. Q \in Quorum BY <1>6, <1>7, QuorumIsAssumed
<1>9. Q \subseteq Finality!Voters(b) BY DEF Q, Finality!Voters
<1> QED BY <1>8, <1>9 DEF Finality!IsNotarized

\* What a pool of cast votes counts as notarized is notarized.
LEMMA PoolNotarizes ==
  ASSUME NEW p, NEW K, PoolIsWhole(p, K), NEW b \in p.notarized,
         p.votes[b] \subseteq CastFor(b)
  PROVE  Finality!IsNotarized(b)
<1>1. CASE b = Root BY <1>1 DEF Finality!IsNotarized
<1>2. CASE b # Root
  <2>1. p \in Pool /\ b \in Block \ {Root} /\ b \in p.blocks
    BY <1>2 DEF PoolIsWhole, PoolIsNested, Pool
  <2>2. PICK d \in Deciders(p, b) : IsMajority(StakeSum(b, p.votes[b]), TotalAtStake(d))
    BY <1>2, <2>1 DEF PoolIsWhole, PoolIsNotarized, PoolIsCounted
  <2>3. d \in Block /\ Number[d] + 1 = Number[b] BY <2>1, DecidersAre
  <2> QED BY <2>1, <2>2, <2>3, MajorityNotarizes
<1> QED BY <1>1, <1>2

\* So does a sound proposal, of the block that it extends.
LEMMA SoundNotarizes ==
  ASSUME NEW m \in Proposal, IsSound(m), m.lastVotes \subseteq CastFor(Parent[m.block])
  PROVE  Finality!IsNotarized(Parent[m.block])
<1>1. Parent[m.block] \in Block BY Typing DEF Proposal
<1>2. CASE Parent[m.block] = Root BY <1>2 DEF Finality!IsNotarized
<1>3. CASE Parent[m.block] # Root
  <2> DEFINE d == Parent[m.block]
  <2>1. Parent[d] \in Block /\ Number[Parent[d]] + 1 = Number[d]
    BY <1>1, <1>3, Typing, TreeIsAssumed DEF TreeAssumption
  <2>2. IsMajority(StakeSum(d, m.lastVotes), TotalAtStake(Parent[d])) BY <1>3 DEF IsSound
  <2> HIDE DEF d
  <2>3. d \in Block \ {Root} /\ m.lastVotes \in SUBSET CastFor(d) BY <1>1, <1>3 DEF d
  <2> QED BY <2>1, <2>2, <2>3, MajorityNotarizes DEF d
<1> QED BY <1>2, <1>3

-----------------------------------------------------------------------------
(* Nobody is blamed for what was missed.                                   *)

(***************************************************************************)
(* A sound proposal that does not contradict the last block is never found *)
(* invalid.                                                                *)
(***************************************************************************)
LEMMA SoundIsNotInvalid ==
  ASSUME NEW p, NEW K, PoolIsWhole(p, K), PoolIsTidy(p, K),
         NEW m \in Proposal, IsSound(m), ~HasSeenBlock(p, m.block),
         Number[p.last] <= Number[Parent[m.block]] => p.last \in Chain[Parent[m.block]]
  PROVE  CheckProposal(p, m).verdict # "invalid"
<1> DEFINE b == m.block
           d == Parent[b]
           voted == AddLastVotes(p, m)
<1>1. /\ b \in Block \ {Root} /\ d \in Block /\ p.last \in Block /\ p \in Pool
      /\ m.lastVotes \in SUBSET VoteTx /\ p.last \in p.blocks
      /\ Number[b] = Number[d] + 1
      /\ Number[d] \in Nat /\ Number[p.last] \in Nat
  BY Typing, TreeIsAssumed
     DEF Proposal, PoolIsWhole, PoolIsNested, PoolIsNotarized, Pool, TreeAssumption
<1>2. /\ m.flaw = "none" /\ m.lastTx
      /\ d = Root \/ IsMajority(StakeSum(d, m.lastVotes), TotalAtStake(Parent[d]))
      /\ Number[p.last] <= Number[d] => p.last \in Chain[d]
  BY DEF IsSound
<1> HIDE DEF b, d
<1>3. ASSUME AboveLast(p, b) PROVE d = p.last
  <2>1. Number[d] = Number[p.last] BY <1>1, <1>3 DEF AboveLast
  <2>2. p.last \in Chain[d] BY <1>1, <1>2, <2>1
  <2> QED BY <1>1, <2>1, <2>2, ChainGrows
<1>4. FoundFlaw(p, m) = "none" BY <1>2, <1>3 DEF FoundFlaw, b, d
<1>5. ~InvalidHeader(p, m) BY <1>2, <1>4 DEF InvalidHeader
<1>6. ASSUME HasPrevBlock(p, b) PROVE ~InvalidBody(voted, m)
  <2>1. d \in p.blocks BY <1>1, <1>3, <1>6 DEF HasPrevBlock, d
  <2>2. /\ PoolIsWhole(voted, K) /\ HasMoreVotes(p, voted, d, m.lastVotes)
        /\ m.lastVotes \subseteq voted.votes[d] /\ d \in voted.proposals
    BY <1>2, <2>1, AddLastVotesKeeps DEF HasPlace, b, d
  <2> HIDE DEF voted
  <2>3. p.last \in Chain[d] BY <1>2, <2>1 DEF PoolIsTidy
  <2>4. d \in voted.notarized
    <3>1. CASE d = Root
      <4>1. p.last = Root BY <2>3, <3>1, TreeIsAssumed DEF TreeAssumption
      <4> QED BY <2>2, <3>1, <4>1 DEF HasMoreVotes, PoolIsWhole, PoolIsNotarized
    <3>2. CASE d # Root /\ d \notin voted.notarized
      <4>1. /\ d \in voted.blocks /\ voted.last = p.last
            /\ voted.votes[d] \in SUBSET VoteTx
            /\ voted.tallied[d] = StakeSum(d, voted.votes[d])
        BY <1>1, <2>1, <2>2 DEF HasMoreVotes, PoolIsWhole, PoolIsCounted, Pool
      <4>2. ~IsMajority(StakeSum(d, voted.votes[d]), TotalAtStake(Parent[d]))
        BY <2>2, <2>3, <3>2, <4>1 DEF PoolIsWhole, PoolIsNotarized
      <4>3. Parent[d] \in Block BY <1>1, Typing
      <4>4. TotalAtStake(Parent[d]) \in Nat BY <4>3, TotalIsNat
      <4>5. StakeSum(d, m.lastVotes) <= StakeSum(d, voted.votes[d])
        BY <1>1, <2>2, <4>1, StakeSumGrows
      <4>6. StakeSum(d, m.lastVotes) \in Nat /\ StakeSum(d, voted.votes[d]) \in Nat
        BY <1>1, <4>1, StakeSumIsNat
      <4> QED BY <1>2, <3>2, <4>2, <4>4, <4>5, <4>6 DEF IsMajority
    <3> QED BY <3>1, <3>2
  <2>5. FoundFlaw(voted, m) = FoundFlaw(p, m)
    BY <2>2 DEF FoundFlaw, AboveLast, HasMoreVotes
  <2> QED BY <1>2, <1>4, <2>2, <2>4, <2>5 DEF InvalidBody, b, d
<1> HIDE DEF voted
<1>7. CheckedAs(p, m, CheckProposal(p, m)) BY ProposalIsChecked
<1> QED BY <1>5, <1>6, <1>7 DEF CheckedAs, b, voted

-----------------------------------------------------------------------------
(* The steps of a network in good order.                                   *)

\* Every block has votes and a proposal transaction that the next one brings.
LEMMA GoodOrder ==
  ASSUME InGoodOrder, NEW b \in Block
  PROVE  Number[b] > 0 /\ (b # Root => Number[b] > 1)
<1>1. Number[Root] > 0 /\ Number[Root] \in Nat /\ Number[b] \in Nat
  BY Typing DEF InGoodOrder
<1>2. Root \in Chain[b] BY Typing
<1>3. Number[Root] <= Number[b] /\ (Number[Root] = Number[b] => Root = b)
  BY <1>2, ChainGrows
<1> QED BY <1>1, <1>3

\* What a validator voted for is not of a later epoch.
LEMMA VotedBefore ==
  ASSUME TimelyIInv, NEW n \in Node, NEW a \in cast[n]
  PROVE  /\ a \in Block \ {Root} /\ a \in tracked[n] /\ Epoch[a] <= now
<1>1. a \in Block \ {Root} /\ a \in tracked[n]
  BY DEF TimelyIInv, IInv, TypeOK, PoolsAreFilled
<1>2. PICK l \in proposals : a = l.block
  BY <1>1 DEF TimelyIInv, IInv, PoolsAreFilled
<1>3. Epoch[a] <= epoch[Proposer[a]] BY <1>2 DEF TimelyIInv, IInv, ProposalsAreMade
<1>4. Proposer[a] \in Node BY <1>1, ProposerIsAssumed
<1>5. /\ epoch[Proposer[a]] \in Nat /\ now \in Nat /\ Epoch[a] \in Nat
      /\ epoch[Proposer[a]] <= now
  BY <1>1, <1>4, Typing DEF TimelyIInv, IInv, TypeOK, TimersAreBehind
<1> QED BY <1>1, <1>3, <1>5

\* What a pool of a validator counts as notarized, is, and stands on its last block.
LEMMA NotarizedStands ==
  ASSUME InGoodOrder, TimelyIInv, NEW n \in Node, NEW b \in pool[n].notarized
  PROVE  /\ b \in Block /\ Finality!IsNotarized(b)
         /\ pool[n].last \in Chain[b] /\ Number[pool[n].last] <= Number[b]
<1>1. /\ PoolIsWhole(pool[n], tracked[n]) /\ PoolIsTidy(pool[n], tracked[n]) /\ TypeOK
      /\ Finality!IInv /\ \A c \in Block : pool[n].votes[c] \subseteq CastFor(c)
  BY DEF TimelyIInv, IInv, PoolsAreWhole, PoolsAreTidy, PoolsAreFilled
<1>2. b \in Block /\ b \in pool[n].blocks /\ pool[n].last \in Block
  BY <1>1 DEF PoolIsWhole, PoolIsNested, Pool
<1>3. Finality!IsNotarized(b) BY <1>1, <1>2, PoolNotarizes
<1>4. Number[pool[n].last] <= Number[b]
  BY <1>1, <1>2, Typing DEF PoolIsTidy
<1>5. pool[n].last \in Chain[b] BY <1>1, <1>2, <1>3, <1>4, StandsOnLast
<1> QED BY <1>2, <1>3, <1>4, <1>5

(***************************************************************************)
(* The vote that a validator casts for a proposal is one that              *)
(* ChainFinality allows: the block is of a later epoch than all it voted   *)
(* for, and as it extends a longest notarized chain, not shorter either.   *)
(***************************************************************************)
LEMMA VoteIsInOrder ==
  ASSUME InGoodOrder, TimelyIInv, NEW n \in Node, NEW m \in Proposal, m.block \notin tracked[n],
         HasHandled(pool[n], pool'[n], m, VoteOf(n)), CastsVote(pool[n], m, VoteOf(n)),
         Epoch[m.block] = now, OneVoteAnEpoch', cast'[n] = cast[n] \cup {m.block},
         NEW a \in cast[n]
  PROVE  Epoch[a] < Epoch[m.block] /\ Number[a] <= Number[m.block]
<1> DEFINE b == m.block
           p == pool[n]
<1>1. /\ PoolIsWhole(p, tracked[n]) /\ PoolIsTidy(p, tracked[n])
      /\ Number[Parent[a]] <= Number[p.last] \/ Parent[a] \in p.notarized
  BY DEF TimelyIInv, IInv, PoolsAreWhole, PoolsAreTidy, KeepsWhatItVotedOn
<1>2. a \in Block \ {Root} /\ a \in tracked[n] /\ Epoch[a] <= now
  BY VotedBefore
<1>3. b \in Block \ {Root} BY DEF Proposal
<1>4. /\ Number[a] = Number[Parent[a]] + 1 /\ Number[b] = Number[Parent[b]] + 1
      /\ Number[Parent[a]] \in Nat /\ Number[Parent[b]] \in Nat
      /\ Epoch[a] \in Nat /\ Epoch[b] \in Nat
  BY <1>2, <1>3, Typing, TreeIsAssumed DEF TreeAssumption
<1>5. Epoch[a] # Epoch[b] BY <1>2 DEF OneVoteAnEpoch
<1>6. HasTip(p) /\ Number[b] > 1
  BY <1>1, <1>3, GoodOrder DEF PoolIsTidy, HasTip
<1>7. \A x \in p.notarized : p.last \in Chain[x] => Number[x] <= Number[Parent[b]]
  BY <1>6 DEF HasHandled
<1>8. p.last \in p.notarized /\ p.last \in Block /\ Number[p.last] \in Nat
  BY <1>1, Typing DEF PoolIsWhole, PoolIsNotarized, Pool
<1>9. Number[p.last] <= Number[Parent[b]] BY <1>7, <1>8, NotarizedStands
<1>10. Number[Parent[a]] <= Number[Parent[b]]
  <2>1. CASE Number[Parent[a]] <= Number[p.last] BY <1>4, <1>8, <1>9, <2>1
  <2>2. CASE Parent[a] \in p.notarized
    BY <1>7, <2>2, NotarizedStands
  <2> QED BY <1>1, <2>1, <2>2
<1> QED BY <1>2, <1>4, <1>5, <1>10

\* The handling of a sound proposal of the present epoch.
LEMMA TimelyHandle ==
  ASSUME InGoodOrder, TimelyIInv, NEW n \in Node, NEW m \in Proposal, IsSound(m),
         m.lastVotes \subseteq CastFor(Parent[m.block]),
         m.block \notin tracked[n], ~HasSeenBlock(pool[n], m.block), Handle(n, m),
         Epoch[m.block] = now, proposals \subseteq proposals', OneVoteAnEpoch'
  PROVE  /\ PoolsAreTidy' /\ OnlyRivalsAreBlamed' /\ KeepsWhatItVotedOn'
         /\ [Finality!Next]_(Finality!vars)
<1> DEFINE b == m.block
           p == pool[n]
           q == pool'[n]
           t == VoteOf(n)
<1>1. /\ \A k \in Node \ {n} :
           pool'[k] = pool[k] /\ tracked'[k] = tracked[k] /\ cast'[k] = cast[k]
      /\ pool' \in [Node -> Pool] /\ cast' \in [Node -> SUBSET Block]
      /\ PoolIsWhole(q, tracked'[n]) /\ HasHandled(p, q, m, t)
      /\ tracked'[n] = TrackedAfter(p, tracked[n], m)
      /\ IF t \in q.votes[b] THEN cast'[n] = cast[n] \cup {b} /\ CastsVote(p, m, t)
                             ELSE cast'[n] = cast[n]
  BY HandleIs DEF TimelyIInv
<1>2. /\ PoolIsWhole(p, tracked[n]) /\ PoolIsTidy(p, tracked[n]) /\ TypeOK /\ Finality!IInv
      /\ pool \in [Node -> Pool] /\ cast \in [Node -> SUBSET Block]
  BY DEF TimelyIInv, IInv, TypeOK, PoolsAreWhole, PoolsAreTidy
<1>3. /\ b \in Block \ {Root} /\ Parent[b] \in Block /\ p.last \in Block
      /\ Number[b] = Number[Parent[b]] + 1 /\ Number[Parent[b]] \in Nat
      /\ Number[p.last] \in Nat
  BY <1>2, Typing, TreeIsAssumed DEF Proposal, Pool, TreeAssumption
<1>4. Finality!IsNotarized(Parent[b]) BY SoundNotarizes
<1>5. Number[p.last] <= Number[Parent[b]] => p.last \in Chain[Parent[b]]
  BY <1>2, <1>3, <1>4, StandsOnLast
<1>6. CheckProposal(p, m).verdict # "invalid"
  BY <1>2, <1>5, SoundIsNotInvalid
<1>7. /\ tracked[n] \subseteq tracked'[n] /\ p.blocks \cup p.atEpoch \subseteq tracked[n]
      /\ q.invalid # p.invalid \/ q.against # p.against =>
           /\ CheckProposal(p, m).verdict = "epoch_taken"
           /\ q.blocks = p.blocks /\ b \in tracked'[n]
           /\ \E x \in tracked[n] \ {b} : Epoch[x] = Epoch[b]
  <2>1. p.blocks \cup p.atEpoch \subseteq tracked[n] BY <1>2 DEF PoolIsWhole, PoolIsNested
  <2> QED BY <1>1, <1>6, <2>1 DEF HasHandled, TrackedAfter
<1>8. PoolsAreTidy'
  <2>1. ASSUME NEW c \in Block, HasInvalidInfo(q, c) PROVE c \in tracked'[n] \ q.blocks
    <3>1. CASE c # b
      <4>1. HasInvalidInfo(p, c) BY <1>1, <2>1, <3>1 DEF HasHandled, HasInvalidInfo
      <4>2. c \in tracked[n] \ p.blocks BY <1>2, <4>1 DEF PoolIsTidy
      <4> QED BY <1>1, <1>7, <3>1, <4>2 DEF HasHandled
    <3>2. CASE c = b
      <4>1. ~HasInvalidInfo(p, b) BY <1>2, <1>3 DEF PoolIsTidy
      <4>2. q.invalid # p.invalid \/ q.against # p.against
        BY <2>1, <3>2, <4>1 DEF HasInvalidInfo
      <4> QED BY <1>7, <3>2, <4>2
    <3> QED BY <3>1, <3>2
  <2>2. HasTip(q) BY <1>1, <1>2 DEF HasHandled, PoolIsTidy, HasTip
  <2>3. ASSUME NEW c \in q.blocks PROVE Number[c] >= Number[q.last]
    <3>1. q.last = p.last BY <1>1 DEF HasHandled
    <3>2. CASE c \in p.blocks BY <1>2, <3>1, <3>2 DEF PoolIsTidy
    <3>3. CASE c \notin p.blocks
      <4>1. c = b /\ Parent[b] \in p.blocks BY <1>1, <3>3 DEF HasHandled
      <4>2. Number[Parent[b]] >= Number[p.last] BY <1>2, <4>1 DEF PoolIsTidy
      <4> QED BY <1>3, <3>1, <4>1, <4>2
    <3> QED BY <3>2, <3>3
  <2>4. PoolIsTidy(q, tracked'[n]) BY <2>1, <2>2, <2>3 DEF PoolIsTidy, HasTip
  <2> QED BY <1>1, <2>4 DEF PoolsAreTidy, TimelyIInv, PoolIsTidy, HasInvalidInfo
<1>9. OnlyRivalsAreBlamed'
  <2> SUFFICES ASSUME NEW k \in Node, NEW c \in pool'[k].invalid
               PROVE  \E l \in proposals' : l.block # c /\ Epoch[l.block] = Epoch[c]
    BY DEF OnlyRivalsAreBlamed
  <2>1. CASE c \in pool[k].invalid
    <3>1. \E l \in proposals : l.block # c /\ Epoch[l.block] = Epoch[c]
      BY <2>1 DEF TimelyIInv, OnlyRivalsAreBlamed
    <3> QED BY <3>1
  <2>2. CASE c \notin pool[k].invalid
    <3>1. k = n /\ c = b /\ q.invalid # p.invalid BY <1>1, <2>2 DEF HasHandled
    <3>2. PICK x \in tracked[n] \ {b} : Epoch[x] = Epoch[b] BY <1>7, <3>1
    <3>3. x # Root
      <4>1. Root \in Chain[b] /\ Epoch[Root] \in Nat /\ Epoch[b] \in Nat BY <1>3, Typing
      <4>2. Epoch[Root] < Epoch[b] BY <1>3, <4>1, ChainsAreOrdered DEF ChainIsOrdered
      <4> QED BY <3>2, <4>1, <4>2
    <3>4. PICK l \in proposals : l.block = x
      BY <3>2, <3>3 DEF TimelyIInv, IInv, PoolsAreFilled
    <3> QED BY <3>1, <3>2, <3>4
  <2> QED BY <2>1, <2>2
<1>10. KeepsWhatItVotedOn'
  <2> SUFFICES ASSUME NEW k \in Node, NEW a \in cast'[k]
               PROVE  \/ Number[Parent[a]] <= Number[pool'[k].last]
                      \/ Parent[a] \in pool'[k].notarized
    BY DEF KeepsWhatItVotedOn
  <2>1. CASE k # n
    BY <1>1, <2>1 DEF TimelyIInv, KeepsWhatItVotedOn
  <2>2. CASE k = n /\ a \in cast[n]
    BY <1>1, <2>2 DEF TimelyIInv, KeepsWhatItVotedOn, HasHandled
  <2>3. CASE k = n /\ a \notin cast[n]
    <3>1. a = b /\ CastsVote(p, m, t) BY <1>1, <2>3
    <3> QED BY <1>1, <2>3, <3>1 DEF HasHandled
  <2> QED BY <2>1, <2>2, <2>3
<1>11. UNCHANGED [k \in Node |-> pool[k].last]
  <2>1. \A k \in Node : pool'[k].last = pool[k].last
    BY <1>1 DEF HasHandled
  <2> QED BY <2>1
<1>12. CASE t \in q.votes[b]
  <2>1. cast' = [cast EXCEPT ![n] = @ \cup {b}]
    BY <1>1, <1>2, <1>12
  <2>2. b \notin cast[n] BY VotedBefore
  <2>3. \A a \in cast[n] : Epoch[a] < Epoch[b] /\ Number[a] <= Number[b]
    BY <1>1, <1>12, VoteIsInOrder
  <2>4. Finality!Vote(n, b)
    BY <1>3, <1>4, <1>11, <2>1, <2>2, <2>3 DEF Finality!Vote
  <2> QED BY <1>3, <1>8, <1>10, <1>9, <2>4 DEF Finality!Next
<1>13. CASE t \notin q.votes[b]
  <2>1. cast' = cast BY <1>1, <1>2, <1>13
  <2> QED BY <1>8, <1>10, <1>11, <1>9, <2>1 DEF Finality!vars
<1> QED BY <1>12, <1>13

\* A finalization is one of ChainFinality, and leaves nothing below the last block.
LEMMA TimelyStart ==
  ASSUME InGoodOrder, TimelyIInv, NEW n \in Node, StartTransition(n)
  PROVE  /\ PoolsAreTidy' /\ OnlyRivalsAreBlamed' /\ KeepsWhatItVotedOn'
         /\ [Finality!Next]_(Finality!vars)
<1> DEFINE p == pool[n]
           q == pool'[n]
<1>1. /\ IInv'
      /\ \A k \in Node \ {n} : pool'[k] = pool[k]
      /\ q = p \/ \E c \in Block : HasFinalized(p, q, c)
      /\ cast' = cast /\ tracked' = tracked /\ proposals' = proposals
  <2>1. cast' = cast /\ tracked' = tracked /\ proposals' = proposals BY DEF StartTransition
  <2> QED BY <2>1, StartKeeps DEF TimelyIInv
<1>2. /\ PoolIsWhole(p, tracked[n]) /\ PoolIsTidy(p, tracked[n]) /\ TypeOK /\ Finality!IInv
      /\ pool \in [Node -> Pool] /\ pool' \in [Node -> Pool]
      /\ PoolIsWhole(q, tracked'[n])
  BY <1>1 DEF TimelyIInv, IInv, TypeOK, PoolsAreWhole, PoolsAreTidy
<1>3. CASE q = p
  <2>1. \A k \in Node : pool'[k] = pool[k] BY <1>1, <1>3
  <2>2. pool' = pool BY <1>2, <2>1
  <2> QED
    BY <1>1, <2>2
       DEF TimelyIInv, PoolsAreTidy, OnlyRivalsAreBlamed, KeepsWhatItVotedOn, Finality!vars
<1>4. ASSUME NEW c \in Block, HasFinalized(p, q, c)
      PROVE  /\ PoolsAreTidy' /\ OnlyRivalsAreBlamed' /\ KeepsWhatItVotedOn'
             /\ [Finality!Next]_(Finality!vars)
  <2> DEFINE L == Parent[c]
  <2>1. /\ c \in p.notarized /\ EndsWithThreeConsecutiveEpochs(c) /\ q.last = L
        /\ L # p.last /\ p.last \in Chain[L] /\ L \in Chain[c] /\ L \in p.notarized
        /\ \A b \in Block : L \in Chain[b] /\ b \in p.notarized => b \in q.notarized
        /\ q.invalid \subseteq p.invalid /\ \A b \in Block : q.against[b] \subseteq p.against[b]
        /\ HasTip(p) /\ L \in Chain[Head(p.tips)] => HasTip(q)
        /\ \A b \in q.dbs : Number[b] >= Number[L] \/ HasInvalidInfo(p, b)
        /\ q.blocks \subseteq p.blocks
    BY <1>4 DEF HasFinalized
  <2>2. /\ L \in Block /\ Parent[L] \in Block /\ p.last \in Block
        /\ Number[c] = Number[L] + 1 /\ Number[L] \in Nat /\ Number[c] \in Nat
        /\ Number[p.last] \in Nat /\ Number[p.last] <= Number[L]
    <3>1. c # Root BY <2>1 DEF EndsWithThreeConsecutiveEpochs
    <3>2. p.last \in Block BY <1>2 DEF Pool
    <3>3. L \in Block /\ Number[c] = Number[L] + 1
      BY <3>1, Typing, TreeIsAssumed DEF TreeAssumption
    <3>4. Number[p.last] <= Number[L] BY <2>1, <3>3, ChainGrows
    <3> QED BY <3>2, <3>3, <3>4, Typing
  <2>3. Finality!Finalizes(c)
    <3>1. Finality!IsNotarized(c) BY <2>1, NotarizedStands
    <3>2. L \in Chain[c] /\ Parent[L] \in Chain[c]
      <4>1. L # Root BY <2>1 DEF EndsWithThreeConsecutiveEpochs
      <4>2. Parent[L] \in Chain[L]
        BY <2>2, <4>1, Typing, TreeIsAssumed DEF TreeAssumption
      <4> QED BY <2>1, <2>2, <4>2, ChainGrows
    <3>3. Finality!IsNotarized(L) /\ Finality!IsNotarized(Parent[L])
      BY <1>2, <3>1, <3>2, NotarizedBelow
    <3>4. Finality!EndsWithThreeConsecutiveEpochs(c)
      BY <2>1 DEF EndsWithThreeConsecutiveEpochs, Finality!EndsWithThreeConsecutiveEpochs
    <3> QED BY <3>1, <3>3, <3>4 DEF Finality!Finalizes
  <2>4. \A b \in p.notarized : Number[L] <= Number[b] => L \in Chain[b]
    BY <1>2, <2>3, NotarizedStands, StandsOnNextLast
  <2>5. PoolIsTidy(q, tracked[n])
    <3>1. \A b \in Block : HasInvalidInfo(q, b) => b \in tracked[n] \ q.blocks
      BY <1>2, <2>1 DEF PoolIsTidy, HasInvalidInfo
    <3>2. \A b \in q.blocks : Number[b] >= Number[q.last]
      <4>1. q.blocks = q.dbs /\ q.blocks \subseteq Block
        BY <1>2 DEF PoolIsWhole, PoolIsNested, Pool
      <4>2. \A b \in q.blocks : ~HasInvalidInfo(p, b) BY <1>2, <2>1, <4>1 DEF PoolIsTidy
      <4> QED BY <2>1, <4>1, <4>2
    <3>3. HasTip(q)
      <4> DEFINE tip == Head(p.tips)
      <4>1. HasTip(p) BY <1>2 DEF PoolIsTidy, HasTip
      <4>2. tip \in ToSet(p.tips)
        <5>1. p.tips \in Seq(Block) /\ p.tips # <<>> BY <1>2, <4>1 DEF Pool, HasTip
        <5>2. 1 \in DOMAIN p.tips /\ tip = p.tips[1] BY <5>1
        <5> QED BY <5>2 DEF ToSet
      <4>3. tip \in Longest(NotarizedAbove(p))
        BY <1>2, <4>1, <4>2 DEF PoolIsWhole, PoolHasTips, HasTip
      <4>4. NotarizedAbove(p) = {b \in p.notarized : p.last \in Chain[b]}
        BY <1>2, AboveIsNotarized DEF PoolIsWhole, PoolIsNotarized
      <4>5. c \in NotarizedAbove(p) BY <2>1, <4>4, NotarizedStands
      <4>6. tip \in p.notarized /\ Number[c] <= Number[tip]
        BY <4>3, <4>4, <4>5 DEF Longest
      <4>7. Number[tip] \in Nat BY <4>6, NotarizedStands, Typing
      <4>8. L \in Chain[tip] BY <2>2, <2>4, <4>6, <4>7
      <4> QED BY <2>1, <4>1, <4>8
    <3> QED BY <3>1, <3>2, <3>3 DEF PoolIsTidy, HasTip
  <2>6. PoolsAreTidy' /\ OnlyRivalsAreBlamed'
    <3>1. PoolsAreTidy'
      BY <1>1, <2>5 DEF TimelyIInv, PoolsAreTidy, PoolIsTidy, HasInvalidInfo
    <3>2. \A k \in Node : pool'[k].invalid \subseteq pool[k].invalid BY <1>1, <2>1
    <3> QED BY <1>1, <3>1, <3>2 DEF TimelyIInv, OnlyRivalsAreBlamed
  <2>7. KeepsWhatItVotedOn'
    <3> SUFFICES ASSUME NEW k \in Node, NEW a \in cast[k]
                 PROVE  \/ Number[Parent[a]] <= Number[pool'[k].last]
                        \/ Parent[a] \in pool'[k].notarized
      BY <1>1 DEF KeepsWhatItVotedOn
    <3>1. /\ Number[Parent[a]] <= Number[pool[k].last] \/ Parent[a] \in pool[k].notarized
          /\ Number[Parent[a]] \in Nat /\ Parent[a] \in Block
      BY VotedBefore, Typing DEF TimelyIInv, KeepsWhatItVotedOn
    <3>2. CASE k # n BY <1>1, <3>1, <3>2
    <3>3. CASE k = n /\ Number[Parent[a]] <= Number[L] BY <2>1, <3>3
    <3>4. CASE k = n /\ ~(Number[Parent[a]] <= Number[L])
      <4>1. Parent[a] \in p.notarized BY <2>2, <3>1, <3>4
      <4>2. L \in Chain[Parent[a]] BY <2>2, <2>4, <3>1, <3>4, <4>1
      <4> QED BY <2>1, <3>1, <3>4, <4>1, <4>2
    <3> QED BY <3>2, <3>3, <3>4
  <2>8. Finality!Finalize(n, c)
    <3>1. \A k \in Node \ {n} : pool'[k].last = pool[k].last BY <1>1
    <3>2. [k \in Node |-> pool[k].last]' = [[k \in Node |-> pool[k].last] EXCEPT ![n] = L]
      BY <2>1, <3>1
    <3> QED BY <1>1, <2>1, <2>3, <3>2 DEF Finality!Finalize
  <2> QED BY <2>6, <2>7, <2>8 DEF Finality!Next
<1> QED BY <1>1, <1>3, <1>4

\* What a validator proposes brings the votes for the block it extends.
LEMMA ProposalIsSound ==
  ASSUME InGoodOrder, TimelyIInv, NEW n \in Node, NEW b \in Block, transition[n] # 0,
         Proposes(n, b)
  PROVE  IsSound(ProposalOf(pool[n], b)) /\ Epoch[b] = now
<1> DEFINE p == pool[n]
           d == Parent[b]
           V == IF Number[b] > 1 THEN FirstVotes(p.votes[d]) ELSE {}
           hasTx == d \in p.proposals
<1>1. /\ PoolIsWhole(p, tracked[n]) /\ b # Root /\ Epoch[b] = transition[n]
      /\ Proposer[b] = n /\ d = LastNotarizedBlock(p) /\ d \in Block
      /\ p.votes[d] \subseteq CastFor(d) /\ p.votes[d] \in SUBSET VoteTx
  <2>1. /\ b # Root /\ Epoch[b] = transition[n] /\ Proposer[b] = n
        /\ d = LastNotarizedBlock(p)
    BY DEF Proposes
  <2>2. d \in Block BY Typing
  <2>3. PoolIsWhole(p, tracked[n]) BY DEF TimelyIInv, IInv, PoolsAreWhole
  <2>4. p.votes[d] \subseteq CastFor(d) BY <2>2 DEF TimelyIInv, IInv, PoolsAreFilled
  <2>5. p.votes[d] \in SUBSET VoteTx BY <2>2, <2>3 DEF PoolIsWhole, Pool
  <2> QED BY <2>1, <2>2, <2>3, <2>4, <2>5
<1>2. Epoch[b] = now BY <1>1 DEF TimelyIInv, TimersInStep
<1>3. d \in p.notarized /\ d \in p.blocks /\ d \in p.proposals
  <2>1. d \in p.notarized BY <1>1, LastNotarizedIsNotarized
  <2> QED BY <1>1, <2>1, GoodOrder DEF PoolIsWhole, PoolIsNested
<1>4. V = p.votes[d]
  <2>1. Number[b] > 1 BY <1>1, GoodOrder
  <2>2. p.votes[d] \in SUBSET (Node \X {Min(Nonce)}) /\ Min(Nonce) \in Nonce
    BY <1>1, CastForIs, NonceHasMin
  <2> QED BY <2>1, <2>2, FirstVotesAreAll
<1>5. d = Root \/ IsMajority(StakeSum(d, V), TotalAtStake(Parent[d]))
  <2>1. CASE d # Root
    <3>1. PICK x \in Deciders(p, d) : IsMajority(StakeSum(d, p.votes[d]), TotalAtStake(x))
      BY <1>1, <1>3, <2>1 DEF PoolIsWhole, PoolIsNotarized, PoolIsCounted
    <3>2. x \in Chain[d] /\ Parent[d] \in Chain[d]
      <4>1. p.last \in Chain[d] BY <1>3, NotarizedStands
      <4>2. Chain[d] = Chain[Parent[d]] \cup {d} /\ Parent[d] \in Chain[Parent[d]]
        BY <1>1, <2>1, Typing, TreeIsAssumed DEF TreeAssumption
      <4>3. Chain[p.last] \subseteq Chain[d]
        BY <1>1, <4>1, ChainsAreOrdered DEF ChainIsOrdered
      <4> QED BY <3>1, <4>2, <4>3 DEF Deciders
    <3>3. Number[x] = Number[Parent[d]]
      <4>1. Number[x] + 1 = Number[d] BY <3>1 DEF Deciders
      <4>2. Number[Parent[d]] + 1 = Number[d] BY <1>1, <2>1, TreeIsAssumed DEF TreeAssumption
      <4>3. x \in Block /\ Parent[d] \in Block BY <1>1, <3>2, Typing
      <4> QED BY <4>1, <4>2, <4>3, Typing
    <3>4. x = Parent[d] BY <1>1, <3>2, <3>3, ChainsAreOrdered DEF ChainIsOrdered
    <3> QED BY <1>4, <3>1, <3>4
  <2> QED BY <2>1
<1>6. ProposalOf(p, b)
        = [block |-> b, lastVotes |-> V, lastTx |-> hasTx, flaw |-> "none"]
  BY DEF ProposalOf
<1> HIDE DEF V, hasTx
<1>7. IsSound(ProposalOf(p, b))
  <2> DEFINE m == ProposalOf(p, b)
  <2>1. m.flaw = "none" /\ m.block = b /\ m.lastVotes = V
    BY <1>6
  <2>2. m.lastTx = hasTx BY <1>6
  <2>3. m.lastTx BY <1>3, <2>2 DEF hasTx
  <2> HIDE DEF m
  <2>4. IsSound(m) BY <1>5, <2>1, <2>3 DEF IsSound
  <2> QED BY <2>4 DEF m
<1> QED BY <1>2, <1>7

\* The first state.
LEMMA TimelyInit == ASSUME InGoodOrder, Init PROVE TimelyIInv /\ Finality!Init
<1>1. IInv BY InitIInv
<1>2. /\ InitPool.last = Root /\ InitPool.blocks = {Root} /\ InitPool.tips = <<Root>>
      /\ InitPool.invalid = {} /\ InitPool.against = [b \in Block |-> {}]
  BY InitPoolIs, Zenon
<1>3. Finality!Init BY <1>2 DEF Init, Finality!Init
<1>4. Finality!IInv BY <1>3, FinalityInit
<1>5. PoolsAreTidy
  <2>1. PoolIsTidy(InitPool, {Root}) BY <1>2, Typing DEF PoolIsTidy, HasInvalidInfo
  <2> QED BY <2>1 DEF Init, PoolsAreTidy
<1>6. /\ TimersInStep /\ ProposalsAreSound /\ OnlyRivalsAreBlamed /\ KeepsWhatItVotedOn
  BY <1>2 DEF Init, TimersInStep, ProposalsAreSound, OnlyRivalsAreBlamed, KeepsWhatItVotedOn
<1> QED BY <1>1, <1>3, <1>4, <1>5, <1>6 DEF TimelyIInv

\* Every step keeps the invariant, and is a step of ChainFinality or invisible there.
LEMMA TimelyNext ==
  ASSUME InGoodOrder, TimelyIInv, [Next /\ OneVoteAnEpoch']_vars
  PROVE  TimelyIInv' /\ [Finality!Next]_(Finality!vars)
<1> DEFINE Steps == [Finality!Next]_(Finality!vars)
<1>1. IInv' BY NextIInv DEF TimelyIInv
<1>2. SUFFICES /\ PoolsAreTidy' /\ OnlyRivalsAreBlamed' /\ KeepsWhatItVotedOn'
               /\ TimersInStep' /\ ProposalsAreSound' /\ Steps
  <2>1. Finality!IInv /\ InGoodOrder BY DEF TimelyIInv
  <2>2. Finality!IInv' BY <1>2, <2>1, FinalityNext
  <2> QED BY <1>1, <1>2, <2>2 DEF TimelyIInv
<1>3. CASE Advance
  <2>1. UNCHANGED <<epoch, transition, pool, tracked, proposals, cast>> BY <1>3 DEF Advance
  <2>2. \A n \in Node : transition[n] = 0
    <3>1. ASSUME NEW n \in Node PROVE transition[n] = 0
      <4>1. epoch[n] = now /\ now \in Nat
        BY <1>3 DEF Advance, InGoodOrder, TimelyIInv, IInv, TypeOK
      <4> QED BY <4>1 DEF TimelyIInv, IInv, TimersAreBehind, TimersInStep
    <3> QED BY <3>1
  <2>3. TimersInStep' BY <2>1, <2>2 DEF TimersInStep
  <2>4. PoolsAreTidy' /\ OnlyRivalsAreBlamed' /\ KeepsWhatItVotedOn' /\ ProposalsAreSound'
    BY <2>1 DEF TimelyIInv, PoolsAreTidy, OnlyRivalsAreBlamed, KeepsWhatItVotedOn,
                ProposalsAreSound
  <2>5. UNCHANGED Finality!vars BY <2>1 DEF Finality!vars
  <2> QED BY <2>3, <2>4, <2>5
<1>4. ASSUME NEW n \in Node, StartTransition(n)
      PROVE  /\ PoolsAreTidy' /\ OnlyRivalsAreBlamed' /\ KeepsWhatItVotedOn'
             /\ TimersInStep' /\ ProposalsAreSound' /\ Steps
  <2>1. PoolsAreTidy' /\ OnlyRivalsAreBlamed' /\ KeepsWhatItVotedOn' /\ Steps
    BY <1>4, TimelyStart
  <2>2. now' = now /\ proposals' = proposals /\ transition' = [transition EXCEPT ![n] = now]
    BY <1>4 DEF StartTransition
  <2>3. TimersInStep' BY <2>2 DEF TimelyIInv, IInv, TypeOK, TimersInStep
  <2>4. ProposalsAreSound' BY <2>2 DEF TimelyIInv, ProposalsAreSound
  <2> QED BY <2>1, <2>3, <2>4
<1>5. ASSUME NEW n \in Node, FinishTransition(n), OneVoteAnEpoch'
      PROVE  /\ PoolsAreTidy' /\ OnlyRivalsAreBlamed' /\ KeepsWhatItVotedOn'
             /\ TimersInStep' /\ ProposalsAreSound' /\ Steps
  <2>1. /\ now' = now /\ transition' = [transition EXCEPT ![n] = 0] /\ transition[n] # 0
    BY <1>5 DEF FinishTransition
  <2>2. TimersInStep' BY <2>1 DEF TimelyIInv, IInv, TypeOK, TimersInStep
  <2>3. ASSUME NEW b \in Block, Proposes(n, b), Handle(n, ProposalOf(pool[n], b)),
               proposals' = proposals \cup {ProposalOf(pool[n], b)}
        PROVE  /\ PoolsAreTidy' /\ OnlyRivalsAreBlamed' /\ KeepsWhatItVotedOn'
               /\ ProposalsAreSound' /\ Steps
    <3> DEFINE m == ProposalOf(pool[n], b)
    <3>1. /\ m \in Proposal /\ m.block = b /\ b \notin tracked[n] /\ ~HasSeenBlock(pool[n], b)
          /\ m.lastVotes \subseteq CastFor(Parent[b])
      BY <2>1, <2>3, ProposalIsNew DEF TimelyIInv
    <3>2. IsSound(m) /\ Epoch[b] = now BY <2>1, <2>3, ProposalIsSound
    <3>3. Handle(n, m) /\ proposals' = proposals \cup {m} BY <2>3
    <3> HIDE DEF m
    <3>4. PoolsAreTidy' /\ OnlyRivalsAreBlamed' /\ KeepsWhatItVotedOn' /\ Steps
      <4>1. proposals \subseteq proposals' BY <3>3
      <4> QED BY <1>5, <3>1, <3>2, <3>3, <4>1, TimelyHandle
    <3>5. ProposalsAreSound' BY <3>2, <3>3 DEF TimelyIInv, ProposalsAreSound, IsSound
    <3> QED BY <3>4, <3>5
  <2>4. CASE UNCHANGED <<pool, tracked, proposals, cast>>
    <3>1. PoolsAreTidy' /\ OnlyRivalsAreBlamed' /\ KeepsWhatItVotedOn' /\ ProposalsAreSound'
      BY <2>4 DEF TimelyIInv, ProposalsAreSound, PoolsAreTidy, OnlyRivalsAreBlamed,
                  KeepsWhatItVotedOn
    <3>2. UNCHANGED Finality!vars BY <2>4 DEF Finality!vars
    <3> QED BY <2>2, <3>1, <3>2
  <2> QED BY <1>5, <2>2, <2>3, <2>4 DEF FinishTransition
<1>6. ASSUME NEW n \in Node, NEW m \in proposals, ReceiveProposal(n, m), OneVoteAnEpoch'
      PROVE  /\ PoolsAreTidy' /\ OnlyRivalsAreBlamed' /\ KeepsWhatItVotedOn'
             /\ TimersInStep' /\ ProposalsAreSound' /\ Steps
  <2>1. m \in Proposal /\ IsSound(m) /\ m.lastVotes \subseteq CastFor(Parent[m.block])
    BY DEF TimelyIInv, IInv, TypeOK, ProposalsAreSound, ProposalsAreMade
  <2>2. /\ m.block \notin tracked[n] /\ ~HasSeenBlock(pool[n], m.block) /\ Handle(n, m)
        /\ now' = now /\ transition' = transition /\ proposals' = proposals
    BY <1>6 DEF ReceiveProposal, TakesProposal
  <2>3. Epoch[m.block] = now BY <1>6 DEF ReceiveProposal, InGoodOrder
  <2>4. PoolsAreTidy' /\ OnlyRivalsAreBlamed' /\ KeepsWhatItVotedOn' /\ Steps
    BY <1>6, <2>1, <2>2, <2>3, TimelyHandle
  <2>5. TimersInStep' /\ ProposalsAreSound'
    BY <2>2 DEF TimelyIInv, TimersInStep, ProposalsAreSound
  <2> QED BY <2>4, <2>5
<1>7. ASSUME NEW n \in Node, NEW voter \in Node, NEW b \in cast[voter], ReceiveVote(n, voter, b)
      PROVE  /\ PoolsAreTidy' /\ OnlyRivalsAreBlamed' /\ KeepsWhatItVotedOn'
             /\ TimersInStep' /\ ProposalsAreSound' /\ Steps
  <2>1. /\ HasMoreVotes(pool[n], pool'[n], b, {VoteOf(voter)})
        /\ \A k \in Node \ {n} : pool'[k] = pool[k]
    BY <1>7, ReceiveVoteKeeps DEF TimelyIInv
  <2>2. /\ now' = now /\ transition' = transition /\ proposals' = proposals /\ cast' = cast
        /\ tracked' = tracked
    BY <1>7 DEF ReceiveVote
  <2>3. TimersInStep' /\ ProposalsAreSound'
    BY <2>2 DEF TimelyIInv, TimersInStep, ProposalsAreSound
  <2>4. PoolsAreTidy'
    <3>1. PoolIsTidy(pool[n], tracked[n]) BY DEF TimelyIInv, PoolsAreTidy
    <3>2. PoolIsTidy(pool'[n], tracked[n])
      BY <2>1, <3>1 DEF PoolIsTidy, HasInvalidInfo, HasMoreVotes, HasTip
    <3> QED BY <2>1, <2>2, <3>2 DEF TimelyIInv, PoolsAreTidy, PoolIsTidy, HasInvalidInfo
  <2>5. OnlyRivalsAreBlamed' /\ KeepsWhatItVotedOn'
    BY <2>1, <2>2 DEF TimelyIInv, OnlyRivalsAreBlamed, KeepsWhatItVotedOn, HasMoreVotes
  <2>6. UNCHANGED Finality!vars
    <3>1. \A k \in Node : pool'[k].last = pool[k].last BY <2>1 DEF HasMoreVotes
    <3> QED BY <2>2, <3>1 DEF Finality!vars
  <2> QED BY <2>3, <2>4, <2>5, <2>6
<1>8. CASE UNCHANGED vars
  <2>1. UNCHANGED Finality!vars BY <1>8 DEF vars, Finality!vars
  <2> QED
    BY <1>8, <2>1 DEF vars, TimelyIInv, PoolsAreTidy, OnlyRivalsAreBlamed, KeepsWhatItVotedOn,
       TimersInStep, ProposalsAreSound
<1> HIDE DEF Steps
<1> QED BY <1>3, <1>4, <1>5, <1>6, <1>7, <1>8 DEF Next

-----------------------------------------------------------------------------
(* What follows, for a network in good order.                              *)

\* The invariant says each of these.
LEMMA TimelyTips == ASSUME InGoodOrder, TimelyIInv PROVE TipsFollowChain
<1> SUFFICES ASSUME NEW n \in Node
             PROVE  /\ pool[n].tips # <<>> /\ Head(pool[n].tips) \in pool[n].blocks
                    /\ pool[n].last \in Chain[LastNotarizedBlock(pool[n])]
  BY DEF TipsFollowChain
<1>1. PoolIsWhole(pool[n], tracked[n]) /\ PoolIsTidy(pool[n], tracked[n])
  BY DEF TimelyIInv, IInv, PoolsAreWhole, PoolsAreTidy
<1>2. LastNotarizedBlock(pool[n]) \in pool[n].notarized
  BY <1>1, LastNotarizedIsNotarized
<1> QED BY <1>1, <1>2, NotarizedStands DEF PoolIsTidy

(***************************************************************************)
(* In good order, and while no validator votes twice in an epoch: every    *)
(* pool stays tidy, every proposal is sound, and the votes are those that  *)
(* ChainFinality allows, whoever the proposers of the branches are.        *)
(***************************************************************************)
THEOREM StaysInGoodOrder == ASSUME InGoodOrder PROVE InOrderSpec => []TimelyIInv
<1>1. Init => TimelyIInv BY TimelyInit
<1>2. TimelyIInv /\ [Next /\ OneVoteAnEpoch']_vars => TimelyIInv' BY TimelyNext
<1> QED BY <1>1, <1>2, PTL DEF InOrderSpec

(***************************************************************************)
(* The code implements ChainFinality: a step of a validator is a vote that *)
(* it allows, a finalization that it allows, or invisible there.           *)
(***************************************************************************)
THEOREM CodeImplementsFinality == ASSUME InGoodOrder PROVE InOrderSpec => ImplementsFinality
<1>1. Init => Finality!Init BY TimelyInit
<1>2. TimelyIInv /\ [Next /\ OneVoteAnEpoch']_vars => [Finality!Next]_(Finality!vars)
  BY TimelyNext
<1> QED
  BY <1>1, <1>2, StaysInGoodOrder, PTL DEF InOrderSpec, ImplementsFinality, Finality!Spec

(***************************************************************************)
(* No two validators finalize conflicting chains: tryFinalizeChain never   *)
(* writes a block that another node's chain contradicts.                   *)
(***************************************************************************)
THEOREM FinalizedChainsAgree == ASSUME InGoodOrder PROVE InOrderSpec => []Agreement
<1>1. TimelyIInv => Agreement BY FinalityAgrees DEF TimelyIInv
<1> QED BY <1>1, StaysInGoodOrder, PTL

(***************************************************************************)
(* A validator votes against a proposal of another one only when its epoch *)
(* is taken by another block: what createProposal makes passes all other   *)
(* checks of validateAndExecuteBlockOnDb, whatever the peer has missed.    *)
(***************************************************************************)
THEOREM OnlyRivalsBlamed == ASSUME InGoodOrder PROVE InOrderSpec => []OnlyRivalsAreBlamed
<1>1. TimelyIInv => OnlyRivalsAreBlamed BY DEF TimelyIInv
<1> QED BY <1>1, StaysInGoodOrder, PTL

(***************************************************************************)
(* Every validator counts only votes that were cast, and can always        *)
(* propose on a notarized block that stands on its last one.               *)
(***************************************************************************)
THEOREM PoolsStaySound == ASSUME InGoodOrder PROVE InOrderSpec => []PoolsAreSound
<1>1. TimelyIInv => TipsFollowChain BY TimelyTips
<1>2. [Next /\ OneVoteAnEpoch']_vars => [Next]_vars OBVIOUS
<1>3. InOrderSpec => Spec BY <1>2, PTL DEF InOrderSpec, Spec
<1> QED BY <1>1, <1>3, CountsWhatWasCast, StaysInGoodOrder, PTL DEF PoolsAreSound

-----------------------------------------------------------------------------
(* When no validator votes twice in an epoch, and when majorities meet.    *)

\* The proposals of an epoch are one.
OneProposalAnEpoch ==
  \A l, m \in proposals : Epoch[l.block] = Epoch[m.block] => l = m

\* A proposer makes one proposal of an epoch, whatever the network does.
LEMMA OneProposalNext ==
  ASSUME \A a, b \in Block \ {Root} : Epoch[a] = Epoch[b] => Proposer[a] = Proposer[b],
         IInv, OneProposalAnEpoch, [Next]_vars
  PROVE  OneProposalAnEpoch'
<1>1. CASE proposals' = proposals BY <1>1 DEF OneProposalAnEpoch
<1>2. ASSUME NEW n \in Node, NEW b \in Block, transition[n] # 0, Proposes(n, b),
             proposals' = proposals \cup {ProposalOf(pool[n], b)}
      PROVE  OneProposalAnEpoch'
  <2>1. /\ ProposalOf(pool[n], b).block = b /\ b \in Block \ {Root} /\ Proposer[b] = n
        /\ \A l \in proposals : Proposer[l.block] = n => Epoch[l.block] < Epoch[b]
    BY <1>2, ProposalIsNew DEF Proposes
  <2>2. ASSUME NEW l \in proposals PROVE Epoch[l.block] # Epoch[b]
    <3>1. l.block \in Block \ {Root} BY DEF IInv, TypeOK, Proposal
    <3>2. Epoch[l.block] = Epoch[b] => Proposer[l.block] = n BY <2>1, <3>1
    <3> QED BY <2>1, <3>1, <3>2, Typing
  <2> QED BY <1>2, <2>1, <2>2 DEF OneProposalAnEpoch
<1>3. proposals' = proposals
      \/ \E n \in Node, b \in Block :
           /\ transition[n] # 0 /\ Proposes(n, b)
           /\ proposals' = proposals \cup {ProposalOf(pool[n], b)}
  BY DEF Next, Advance, StartTransition, FinishTransition, ReceiveProposal, ReceiveVote, vars
<1> QED BY <1>1, <1>2, <1>3

(***************************************************************************)
(* While the proposer of an epoch is the same on every branch that is      *)
(* alive, no validator votes twice in an epoch, on any network.            *)
(***************************************************************************)
THEOREM OneProposerOneVote ==
  ASSUME \A a, b \in Block \ {Root} : Epoch[a] = Epoch[b] => Proposer[a] = Proposer[b]
  PROVE  Spec => []OneVoteAnEpoch
<1>1. Init => OneProposalAnEpoch BY DEF Init, OneProposalAnEpoch
<1>2. IInv /\ OneProposalAnEpoch /\ [Next]_vars => OneProposalAnEpoch' BY OneProposalNext
<1>3. ASSUME IInv, OneProposalAnEpoch PROVE OneVoteAnEpoch
  <2> SUFFICES ASSUME NEW n \in Node, NEW a \in cast[n], NEW b \in cast[n], Epoch[a] = Epoch[b]
               PROVE  a = b
    BY DEF OneVoteAnEpoch
  <2>1. PICK l \in proposals : l.block = a BY <1>3 DEF IInv, PoolsAreFilled
  <2>2. PICK m \in proposals : m.block = b BY <1>3 DEF IInv, PoolsAreFilled
  <2> QED BY <1>3, <2>1, <2>2 DEF OneProposalAnEpoch
<1>4. IInv /\ OneProposalAnEpoch => OneVoteAnEpoch BY <1>3
<1> QED BY <1>1, <1>2, <1>4, PoolsStayWhole, PTL DEF Spec

\* The stake of some votes depends on the stakes only.
SumOf(stakes, V) == MapThenSumSet(LAMBDA t : stakes[Voter(t)], V)

\* The stake of some votes is that sum.
LEMMA SumIsOfStakes == \A b, V : StakeSum(b, V) = SumOf(Stake[b], V)
BY Zenon DEF StakeSum, SumOf

(***************************************************************************)
(* While stakes do not change, two sets of validators that notarize a      *)
(* block have one in common.                                               *)
(***************************************************************************)
THEOREM SteadyStakesMeet ==
  ASSUME \A b \in Block : Stake[b] = Stake[Root], TotalAtStake(Root) > 0
  PROVE  \A P, Q \in Quorum : P \cap Q # {}
<1> DEFINE k == Min(Nonce)
<1>1. Root \in Block /\ k \in Nonce BY Typing, NonceHasMin
<1> HIDE DEF k
<1>2. ASSUME NEW Q \in Quorum
      PROVE  Q \in SUBSET Node /\ 3 * NodeSum(Root, Q) >= 2 * TotalAtStake(Root)
  <2>1. Q \in SUBSET Node /\ \E b, d \in Block : 3 * StakeSum(b, Q \X {k}) >= 2 * TotalAtStake(d)
    BY QuorumIsAssumed DEF k
  <2>2. PICK b \in Block, d \in Block : 3 * StakeSum(b, Q \X {k}) >= 2 * TotalAtStake(d)
    BY <2>1
  <2>3. Stake[b] = Stake[Root] /\ Stake[d] = Stake[Root] OBVIOUS
  <2>4. TotalAtStake(d) = TotalAtStake(Root)
    BY <2>3, TotalIsOfStakes, Zenon
  <2>5. StakeSum(b, Q \X {k}) = StakeSum(Root, Q \X {k})
    BY <2>3, SumIsOfStakes, Zenon
  <2>6. StakeSum(Root, Q \X {k}) = NodeSum(Root, Q) BY <1>1, <2>1, VotesOfSet
  <2>7. 3 * NodeSum(Root, Q) >= 2 * TotalAtStake(Root) BY <2>2, <2>4, <2>5, <2>6
  <2> QED BY <2>1, <2>7
<1> QED BY <1>1, <1>2, MajoritiesMeet
=============================================================================
