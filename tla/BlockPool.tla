------------------------------ MODULE BlockPool ------------------------------
(***************************************************************************)
(* block-pool/index.js as operators on a pool, and the part of             *)
(* node/index.js that finalizes from it.  Every call of a BlockPool method *)
(* runs to completion (the code has no await in it), so a method is a      *)
(* function from a pool to a pool.  OneNode.tla drives one pool with       *)
(* every order of calls; Consensus.tla gives one to every validator.       *)
(***************************************************************************)
EXTENDS BlockTree, Sequences, FiniteSetsExt, SequencesExt

CONSTANTS
  Node,            \* the validators
  Stake,           \* Stake[b][n]: the stake of n in b.validators, 0 if n is not in it
  Evidence,        \* Evidence[b]: the invalid blocks whose offense b records
  MaxInvalidOnMem  \* the parameter consensus/max_invalid_blocks_on_mem

StakeAssumption == /\ Stake \in [Block -> [Node -> Nat]]
                   /\ Evidence \in [Block -> SUBSET Block]
                   /\ MaxInvalidOnMem \in Nat

ASSUME StakeIsAssumed == StakeAssumption

(***************************************************************************)
(* A vote is a transaction, identified in the pool by its hash: a validator*)
(* that votes again for a block creates another one, with another Nonce.   *)
(***************************************************************************)
CONSTANT Nonce   \* a set of naturals
VoteTx == Node \X Nonce

ASSUME VoteTxIsAssumed == /\ IsFiniteSet(Node)
                          /\ IsFiniteSet(Nonce) /\ Nonce \subseteq Nat /\ Nonce # {}

Voter(t) == t[1]

(***************************************************************************)
(* A pool, with bc.lastBlock() of the same node:                           *)
(*   last       the last finalized block                                   *)
(*   state      the block whose state is the final version of stateManager *)
(*   blocks     the hashes with a block in hashToBlockInfo                 *)
(*   proposals  ... with a proposal transaction                            *)
(*   votes      ... their votes                                            *)
(*   tallied    ... their sum of stakes                                    *)
(*   notarized  ... marked notarized                                       *)
(*   children   hashToNextBlockSet, in insertion order                     *)
(*   tips       longestNotarizedChainTips                                  *)
(*   atEpoch    the values of epochToBlock, at most one of an epoch        *)
(*   listed     the values of numberToBlockSet                             *)
(*   dbs        the keys of hashToDb                                       *)
(*   invalid    the hashes with a block in hashToInvalidBlockInfo          *)
(*   against    ... their votes against the block                          *)
(*   highest    heighestSeenBlockNumber                                    *)
(***************************************************************************)
Pool == [last      : Block,
         state     : Block,
         blocks    : SUBSET Block,
         proposals : SUBSET Block,
         votes     : [Block -> SUBSET VoteTx],
         tallied   : [Block -> Nat],
         notarized : SUBSET Block,
         children  : [Block -> Seq(Block)],
         tips      : Seq(Block),
         atEpoch   : SUBSET Block,
         listed    : SUBSET Block,
         dbs       : SUBSET Block,
         invalid   : SUBSET Block,
         against   : [Block -> SUBSET VoteTx],
         highest   : Nat]

\* The pool after Root was finalized from it and everything before was dropped,
\* with h as heighestSeenBlockNumber.
\* The genesis block has neither votes nor a proposal transaction.
PoolAbove(h) ==
  LET voted == IF Number[Root] = 0 THEN {} ELSE {n \in Node : Stake[Root][n] > 0} \X {Min(Nonce)}
  IN  [last      |-> Root,
       state     |-> Root,
       blocks    |-> {Root},
       proposals |-> IF Number[Root] = 0 THEN {} ELSE {Root},
       votes     |-> [b \in Block |-> IF b = Root THEN voted ELSE {}],
       tallied   |-> [b \in Block |->
                        IF b = Root THEN MapThenSumSet(LAMBDA t : Stake[b][t[1]], voted) ELSE 0],
       notarized |-> {Root},
       children  |-> [b \in Block |-> <<>>],
       tips      |-> <<Root>>,
       atEpoch   |-> {Root},
       listed    |-> {Root},
       dbs       |-> {Root},
       invalid   |-> {},
       against   |-> [b \in Block |-> {}],
       highest   |-> h]

\* A mutant for the runs: the number of Root was not seen.
InitPoolUnseen == PoolAbove(-1)

InitPool == PoolAbove(Number[Root])

\* hashToInvalidBlockInfo.has(b); hasSeenBlock(b), which does not look there
\* once hashToBlockInfo has an entry, even one with no block.
HasInvalidInfo(p, b) == b \in p.invalid \/ p.against[b] # {}
HasInfo(p, b) == b \in p.blocks \cup p.proposals \/ p.votes[b] # {}
HasSeenBlock(p, b) == IF HasInfo(p, b) THEN b \in p.blocks ELSE b \in p.invalid

StakeSum(b, V) == MapThenSumSet(LAMBDA t : Stake[b][Voter(t)], V)
TotalAtStake(b) == MapThenSumSet(LAMBDA n : Stake[b][n], Node)

\* A mutant for the runs: a third of the stake is enough.
IsThird(sum, total) == sum > 0 /\ 3 * sum >= total

\* sum >= total * ConsensusConsts.MAJORITY, of a sum that is not 0.
IsMajority(sum, total) == sum > 0 /\ 3 * sum >= 2 * total

-----------------------------------------------------------------------------
(* The tree of the notarized blocks above the last finalized one.          *)

\* The blocks that dfsLongest and dfsFinalizable reach from the last finalized
\* block: linked in hashToNextBlockSet and notarized all the way.
NotarizedAbove(p) ==
  {b \in Block : /\ p.last \in Chain[b]
                 /\ \A x \in Chain[b] \ Chain[p.last] :
                      x \in p.notarized /\ Contains(p.children[Parent[x]], x)}

\* The depth-first search comes to a before b: where their chains part, the
\* block on the chain of a was added to the pool before the one on that of b.
Before(p, a, b) ==
  \E x \in Chain[a] \ Chain[b], y \in Chain[b] \ Chain[a] :
    /\ Parent[x] = Parent[y]
    /\ \E i, j \in DOMAIN p.children[Parent[x]] :
         i < j /\ p.children[Parent[x]][i] = x /\ p.children[Parent[x]][j] = y

\* The last blocks of the longest of the chains that end in S.
Longest(S) == {b \in S : \A d \in S : Number[d] <= Number[b]}

\* ... in the order of the search.
LongestOf(p, S) ==
  LET top == Longest(S)
  IN  CHOOSE s \in [1 .. Cardinality(top) -> top] :
        IsInjective(s) /\ \A i, j \in DOMAIN s : i < j => ~Before(p, s[j], s[i])

\* getLongestNotarizedChainList: of a chain longer than the genesis block, the
\* last finalized block must itself still be in the pool.
LongestNotarizedChainTips(p) ==
  IF Number[p.last] < 1 \/ p.last \in p.notarized
  THEN LongestOf(p, NotarizedAbove(p))
  ELSE <<>>

UpdateLongestNotarizedChains(p) ==
  IF p.tips # <<>> /\ Head(p.tips) \notin p.blocks
  THEN p
  ELSE [p EXCEPT !.tips = LongestNotarizedChainTips(p)]

\* getLastNotarizedBlock: the tip of the latest epoch, or the last finalized block.
LastNotarizedBlock(p) ==
  LET candidates == {p.last} \cup (ToSet(p.tips) \cap p.blocks)
      latest == {b \in candidates : \A d \in candidates : Epoch[d] <= Epoch[b]}
  IN  IF p.last \in latest THEN p.last
      ELSE p.tips[Min({i \in DOMAIN p.tips : p.tips[i] \in latest})]

-----------------------------------------------------------------------------
(* Notarization.                                                           *)

\* The block whose validators decide about b: the last finalized block if it
\* has the right number, whatever its hash, or the predecessor if it is known.
PrevBlocks(p, b) ==
  IF Number[p.last] + 1 = Number[b] THEN {p.last}
  ELSE {Parent[b]} \cap (p.blocks \cup Chain[p.last])

NotarizedNow(p, b) ==
  /\ b \in p.blocks \ p.notarized
  /\ \/ Number[b] = 0
     \/ \E d \in PrevBlocks(p, b) : IsMajority(p.tallied[b], TotalAtStake(d))

\* A mutant for the runs: the cached tips are not refreshed.
TryUpdateNotarizedOnly(p, b) ==
  IF NotarizedNow(p, b) THEN [p EXCEPT !.notarized = @ \cup {b}] ELSE p

TryUpdateNotarized(p, b) ==
  IF NotarizedNow(p, b)
  THEN UpdateLongestNotarizedChains([p EXCEPT !.notarized = @ \cup {b}])
  ELSE p

\* A mutant for the runs: hasVote is not asked.
AddVoteForAgain(p, b, t) ==
  LET q == [p EXCEPT !.listed = @ \cup {b}, !.votes[b] = @ \cup {t}]
  IN  IF b \notin p.blocks \/ Stake[b][Voter(t)] = 0
      THEN q
      ELSE TryUpdateNotarized([q EXCEPT !.tallied[b] = @ + Stake[b][Voter(t)]], b)

\* addSeenVote of a vote for b: a vote only counts once the block is known.
AddVoteFor(p, b, t) ==
  LET q == [p EXCEPT !.listed = @ \cup {b}, !.votes[b] = @ \cup {t}]
  IN  IF t \in p.votes[b] \/ b \notin p.blocks \/ Stake[b][Voter(t)] = 0
      THEN q
      ELSE TryUpdateNotarized([q EXCEPT !.tallied[b] = @ + Stake[b][Voter(t)]], b)

\* addSeenVote of a vote against b, and of a proposal transaction.
AddVoteAgainst(p, b, t) == [p EXCEPT !.listed = @ \cup {b}, !.against[b] = @ \cup {t}]
AddProposal(p, b) == [p EXCEPT !.listed = @ \cup {b}, !.proposals = @ \cup {b}]

\* checkEpochToBlockMap: another block of the epoch of b is notarized.
EpochTaken(p, b) ==
  \E x \in p.atEpoch \ {b} : Epoch[x] = Epoch[b] /\ x \in p.notarized

\* A mutant for the runs: the proposal transaction is not kept with the block.
AddBlockWithoutTx(p, b, hasTx) ==
  IF b \in p.blocks THEN p
  ELSE LET q == [p EXCEPT !.blocks = @ \cup {b}]
       IN  IF p.tallied[b] = 0 /\ p.votes[b] # {}
           THEN TryUpdateNotarized([q EXCEPT !.tallied[b] = StakeSum(b, p.votes[b])], b)
           ELSE q

\* addToHashBlockInfoMap: the votes that came before the block count now.
AddToHashBlockInfoMap(p, b, hasTx) ==
  IF b \in p.blocks THEN p
  ELSE LET q == [p EXCEPT !.blocks = @ \cup {b},
                          !.proposals = IF hasTx THEN @ \cup {b} ELSE @ \ {b}]
       IN  IF p.tallied[b] = 0 /\ p.votes[b] # {}
           THEN TryUpdateNotarized([q EXCEPT !.tallied[b] = StakeSum(b, p.votes[b])], b)
           ELSE q

\* addSeenBlock of a valid block whose epoch is not taken, and of an invalid one.
AddSeenBlock(p, b, hasTx) ==
  LET added  == AddToHashBlockInfoMap(p, b, hasTx)
      linked == [added EXCEPT
                   !.listed = @ \cup {b},
                   !.atEpoch = {x \in @ : Epoch[x] # Epoch[b]} \cup {b},
                   !.children[Parent[b]] = IF Contains(@, b) THEN @ ELSE Append(@, b),
                   !.highest = Max({@, Number[b]})]
  IN  FoldLeft(TryUpdateNotarized, TryUpdateNotarized(linked, b), linked.children[b])

AddInvalidBlock(p, b) ==
  [p EXCEPT !.invalid = @ \cup {b}, !.listed = @ \cup {b}, !.highest = Max({@, Number[b]})]

-----------------------------------------------------------------------------
(* Finalization.                                                           *)

\* cleanUpForBlockHash, for every block of S.
Forget(p, S) ==
  [p EXCEPT !.blocks = @ \ S, !.proposals = @ \ S, !.notarized = @ \ S,
            !.votes    = [b \in Block |-> IF b \in S THEN {} ELSE @[b]],
            !.tallied  = [b \in Block |-> IF b \in S THEN 0 ELSE @[b]],
            !.children = [b \in Block |-> IF b \in S THEN <<>> ELSE @[b]],
            !.invalid  = @ \ S,
            !.against  = [b \in Block |-> IF b \in S THEN {} ELSE @[b]],
            !.dbs      = @ \ S]

\* Mutants for the runs: the last block goes too; the evidence goes too; the
\* blocks of the epoch of the last one go too.
LowerOrLastBlocks(p, recorded) == {b \in p.listed : Number[b] <= Number[p.last]}
AllLowerBlocks(p, recorded) == {b \in p.listed : Number[b] < Number[p.last]}
EarlierOrLastBlocks(p) == {b \in p.atEpoch : Epoch[b] <= Epoch[p.last]}

\* The blocks below the last finalized one, except the invalid ones whose
\* evidence may still have to be recorded in a block.
LowerBlocks(p, recorded) ==
  {b \in p.listed : /\ Number[b] < Number[p.last]
                    /\ \/ ~HasInvalidInfo(p, b)
                       \/ b \in recorded
                       \/ Number[b] < Number[p.last] - MaxInvalidOnMem}

EarlierBlocks(p) == {b \in p.atEpoch : Epoch[b] < Epoch[p.last]}

CleanUpAfterFinalization(p, recorded) ==
  LET lower   == LowerBlocks(p, recorded)
      earlier == EarlierBlocks(p)
  IN  UpdateLongestNotarizedChains(
        [Forget(p, lower \cup earlier) EXCEPT !.listed = @ \ lower, !.atEpoch = @ \ earlier])

\* getFinalizableChain: the longest chain from the last finalized block that ends
\* in three blocks of consecutive epochs, as its last block, or <<>>.
FinalizableChain(p) ==
  LongestOf(p, {b \in NotarizedAbove(p) : /\ Number[b] >= Number[p.last] + 2
                                          /\ EndsWithThreeConsecutiveEpochs(b)})

(***************************************************************************)
(* BlockchainNode.tryFinalizeChain: all blocks of the finalizable chain    *)
(* but the last are appended to the chain and their states made final, one *)
(* by one.  A block with no db is appended before the call throws: its     *)
(* state does not become final, and nothing is cleaned up.                 *)
(***************************************************************************)
TryFinalizeChain(p) ==
  LET chain == FinalizableChain(p)
      new   == Chain[Parent[Head(chain)]] \ Chain[p.last]
      noDb  == new \ p.dbs
      stop  == CHOOSE b \in noDb : \A d \in noDb : Number[b] <= Number[d]
  IN  IF chain = <<>> THEN p
      ELSE IF noDb # {} THEN [p EXCEPT !.last = stop,
                                       !.state = IF Parent[stop] = p.last THEN @ ELSE Parent[stop]]
      ELSE CleanUpAfterFinalization(
             [p EXCEPT !.last = Parent[Head(chain)], !.state = Parent[Head(chain)]],
             UNION {Evidence[b] : b \in new})

-----------------------------------------------------------------------------
(***************************************************************************)
(* What holds of a pool between two calls: the parts of the inductive      *)
(* invariant of OneNode.tla and Consensus.tla.  K are the blocks whose     *)
(* proposal the node has tracked: what it forgets never comes back.        *)
(***************************************************************************)

\* What the maps hold about a block, they hold about a block of the pool, or
\* about one beside the final chain (the last_votes of a proposal numbered right
\* above the last block enter the pool even if they are for a forgotten rival).
PoolIsNested(p, K) ==
  /\ p.notarized \subseteq p.blocks
  /\ p.dbs = p.blocks /\ p.blocks \subseteq p.listed
  /\ \A b \in p.blocks : Number[b] > 0 => b \in p.proposals
  /\ \A b \in Block \ p.blocks : b \in p.proposals \/ p.votes[b] # {} =>
       b \in p.listed /\ Number[b] <= Number[p.last]
  /\ p.blocks \cup p.atEpoch \cup ToSet(p.tips) \subseteq K
  /\ p.invalid \cap p.atEpoch \subseteq p.blocks
  /\ IsFiniteSet(p.blocks)

\* Votes are counted once each, for as long as their block is in the pool.
PoolIsCounted(p) ==
  \A b \in Block : p.tallied[b] = IF b \in p.blocks THEN StakeSum(b, p.votes[b]) ELSE 0

\* A block is linked to its predecessor for as long as that is in the pool.
PoolIsLinked(p, K) ==
  /\ \A b \in Block : IsInjective(p.children[b]) /\ (p.children[b] # <<>> => b \in K)
  /\ \A b \in p.blocks \ {Root} :
       /\ Parent[b] \in K
       /\ Parent[b] \in p.blocks => Contains(p.children[Parent[b]], b)

\* The blocks whose validators may have decided about b so far.
Deciders(p, b) == {d \in Chain[p.last] \cup {Parent[b]} : Number[d] + 1 = Number[b]}

\* What is notarized has a majority; the blocks above the last final one stand on
\* notarized ones, and are themselves notarized as soon as the votes are there.
PoolIsNotarized(p) ==
  /\ p.last \in p.notarized
  /\ p.state = p.last
  /\ \A b \in p.notarized \ {Root} : \E d \in Deciders(p, b) : IsMajority(p.tallied[b], TotalAtStake(d))
  /\ \A b \in p.blocks : p.last \in Chain[b] =>
       /\ Chain[b] \ (Chain[p.last] \cup {b}) \subseteq p.notarized
       /\ b \notin p.notarized => ~IsMajority(p.tallied[b], TotalAtStake(Parent[b]))

\* The cached tips are notarized, and the longest while the first is in the pool.
PoolHasTips(p) ==
  /\ ToSet(p.tips) \cap p.blocks \subseteq p.notarized
  /\ p.tips # <<>> /\ Head(p.tips) \in p.blocks =>
       ToSet(p.tips) = Longest(NotarizedAbove(p))

PoolIsWhole(p, K) == /\ p \in Pool
                     /\ PoolIsNested(p, K)
                     /\ PoolIsCounted(p)
                     /\ PoolIsLinked(p, K)
                     /\ PoolIsNotarized(p)
                     /\ PoolHasTips(p)
=============================================================================
