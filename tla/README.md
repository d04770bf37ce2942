# A TLA+ verification of the AIN blockchain

This directory models the AI Network blockchain node (the JavaScript program in
`src/`): its consensus protocol, the block pool that the protocol keeps its
undecided blocks in, the finalization of blocks, the versions of the state that a node
keeps and the trees they share, what transactions do to the state and who may do it, the
transaction pool, the event handler, and the ways in which a node catches up with its peers. TLC
checks the models on small instances; TLAPS proves for all instances that the block pool stays
whole, that the code implements the finality protocol and that this one is safe, who owns a version, the
invariants of the services of a node (transaction pool, event handler, syncs, reports), and that the books of stakes,
requests, payments, fees and budgets balance.

## 1. The system

A node is one Node.js process. Its event loop runs one callback at a time; a
callback is interrupted only where it awaits. The parts that keep state:

| part | source | state | operations | what makes it correct |
|---|---|---|---|---|
| Consensus | `consensus/index.js` | `epoch`, `isInEpochTransition`, `proposer`, `state` | epoch timer, `handleConsensusMessage`, `tryPropose`, `tryVoteForValidBlock`, `tryVoteAgainstInvalidBlock`, `catchUp` | validators finalize compatible chains; a proposer is blamed only where its epoch has another proposal; a synchronous network makes progress |
| Block pool | `block-pool/index.js` | blocks, proposals, votes and tallies by hash, `hashToNextBlockSet`, `epochToBlock`, `numberToBlockSet`, `hashToDb`, cached `longestNotarizedChainTips` | `addSeenBlock`, `addSeenVote`, `tryUpdateNotarized`, `getFinalizableChain`, `cleanUpAfterFinalization`, `getOffensesAndEvidence` | the notarized flag and the cached tips do not depend on the order of arrival; clean-up forgets what is decided and nothing else |
| Node | `node/index.js` | `state`, `db`, the parts below | `startNode`, `tryFinalizeChain`, `cloneAndFinalizeVersion`, `executeTransactionAndAddToPool`, `mergeChainSegment` | the chain, the final state and the pool move together |
| State manager | `db/state-manager.js` | `rootMap`, `finalVersion` | clone, finalize, transfer, delete a version | the final version exists; no version is deleted under a db that reads it; none leaks |
| Database and state tree | `db/*.js` | versioned radix trees that share nodes; per-db caches | execute a transaction, get and set values, rules, functions, owners; back up, restore | a version never changes when another one is written; failed transactions leave no trace |
| Transaction pool | `tx-pool/index.js` | `transactions`, counters, `transactionTracker` | add, pick valid ones, clean up | counters match lists; a finalized transaction leaves the pool; an executed one is not lost |
| Chain on disk | `blockchain/index.js` | `chain` in memory, block files | append, read, merge a segment | the files are a prefix-closed chain |
| Peer-to-peer | `p2p/index.js`, `p2p/server.js` | connections, sync peers, node states | connect, heartbeat, state and chain sync, broadcast, shard reports | stale answers are not applied; limits hold; the node ends in SERVING |
| Event handler | `event-handler/*.js` | channels, filters, the state-event tree | register, deregister, emit | filters and channels refer to each other; none leaks |

How they interact: the epoch timer calls `tryFinalizeChain`, which appends
blocks to the chain, moves the final state version and cleans up the block pool
and the transaction pool; then it may propose. Peers send proposals and votes
to `handleConsensusMessage`, which executes a block on a clone of the state after its
predecessor, adds it to the pool, passes the message on and votes. A node that finds itself
behind asks a peer for a chain segment. Everything but the network, the disk and the
NTP client is called synchronously.

What is hard: the order in which proposals, votes and epoch ticks arrive at a
validator; votes of one epoch spread over several blocks; caches
(`longestNotarizedChainTips`, `tallied`, `epochToBlock`) that must follow every
step; a clean-up that goes by number and by epoch at the same time; finalization that
consists of several steps each of which may fail; the await in the epoch timer; stakes
that change under the protocol; restarts, which empty the pool.

`PROJECT.json` lists the components with their status, and under "hazards" the places
where this bites, with the properties that look at them.

## 2. Modules

| module | models | checked by |
|---|---|---|
| `BlockTree` | blocks as a constant tree: hash links, numbers, epochs; `endsWithThreeConsecutiveEpochs` | - |
| `ChainFinality` | the abstract specification: vote, finalize | `ChainFinality.cfg` |
| `ChainFinality_proofs` | its theorems | TLAPS |
| `BlockPool` | `block-pool/index.js` and `tryFinalizeChain`, as operators on a pool | through the next ones |
| `ConsensusNode` | the handlers and checks of `consensus/index.js` for one validator | through the next ones |
| `FoldTheorems` | induction over the folds of the community modules | TLAPS |
| `BlockPool_proofs` | what each operator of the two keeps of a pool | TLAPS |
| `OneNode` | one validator that receives anything, in any order | `OneNode*.cfg` |
| `OneNode_proofs` | its theorems | TLAPS |
| `Consensus` | all validators with timers, proposals and votes in transit | `Consensus*.cfg`, `OneVote.cfg`, `Progress.cfg` |
| `Consensus_proofs` | its theorems, with the refinement of `ChainFinality` | TLAPS |
| `StateVersions` | `db/state-manager.js`, backup and restore of `db/index.js`, and their callers in the node, the consensus and the pool | `StateVersions.cfg` |
| `StateVersions_proofs` | its theorems | TLAPS |
| `VersionedMaps`, `RadixTree` | the children of a state node in all versions: what they promise, and `db/radix-tree.js`, `db/radix-node.js` | `Database.cfg` |
| `VersionedTrees`, `StateTree` | the state of all versions: what it promises, and `db/state-node.js`, `db/state-util.js` and the writes of `db/index.js` | `Database.cfg` |
| `Ledger` | balances and `_transfer`, on which the next four rest | through them |
| `StakeFunctions`, `Staking` | `_stake`, `_unstake`, `_handleOffenses`, lock-ups | `Database.cfg` |
| `TokenBridge` | check-ins and check-outs, pending amounts, daily limits, refunds | `Database.cfg` |
| `Payments` | `_createApp`, `_pay`, `_claim`, `_hold`, `_release` | `Database.cfg` |
| `Fees` | gas fees, billing accounts, distribution and claims of rewards | `Database.cfg` |
| `Budgets` | the budgets of state bytes, the free tier and its cache, nonces and timestamps | `Database.cfg` |
| `ConfigTrees`, `Access` | owners, rules, functions: matching, permissions, state rules, garbage collection | `Database.cfg` |
| `Triggers` | which functions a write calls, how calls nest, fail and are undone | `Database.cfg`, `Progress.cfg` |
| `Books` | `Staking`, `TokenBridge`, `Payments`, `Fees` and `Budgets` beside one another | `Database.cfg` |
| `Books_proofs` | its theorems, one inductive invariant for each part | TLAPS |
| `TxPool` | `tx-pool/index.js` and its callers | `Services.cfg` |
| `EventTree`, `EventHandler` | `event-handler/*.js` | `Services.cfg`, `Progress.cfg` |
| `ChainSync` | chain segments: `p2p/index.js`, `p2p/server.js`, `mergeChainSegment`, `catchUp`, restarts | `Services.cfg`, `Progress.cfg` |
| `ColdStart` | snapshots and the old chain: `p2p/index.js`, `p2p/server.js` | `Services.cfg`, `Progress.cfg` |
| `ShardReports` | `reportShardProofHashes` and the parent chain's side of it | `Services.cfg`, `Progress.cfg` |
| `Services` | the last six beside one another: what a node does beside consensus and execution | `Services.cfg` |
| `Services_proofs` | its theorems, one inductive invariant for each part | TLAPS |
| `MCBlockTree`, `MCChainFinality`, `MCOneNode`, `MCConsensus`, `MCStateVersions` | instances for TLC | - |
| `MCServices` | instances of `Services` | `Services.cfg` |
| `MCDatabase` | instances of `Books`, and of the trees, permissions and triggers beside it | `Database.cfg` |
| `MCProgress` | instances of several components beside one another | `Progress.cfg` |

**Instances beside one another.** Components that do not call each other within a model are
checked in one run: `Services` and `Books`, which have the parameters of all their parts as constants, or a `MC` module
has an `INSTANCE` of each with variables of its own, and a variable
`part` that is chosen at the start and names the only instance that takes steps
(`Only(p)`, `BooksOnly(p)`). The state space is the sum of those of the parts, not their product, and each property
is the conjunction of what the components' modules define and comment; the name of a
component's property in a counterexample's state tells which part broke it. Every conjunct
has a mutated form of some operator of its component, defined just before that operator (such as
`MovedTwice`, `RewardedAnew`, `CountedTwice`, `LastExtension`), with which TLC finds it
violated; "mutants" in `PROJECT.json` lists one for each property of a run.

**Blocks.** A block is identified by the hash of its content, which holds
`last_hash`, `number` and `epoch`, so the blocks that can ever be made form a tree, and
`BlockTree` has it as constants. `Root` is the last block that every validator
has finalized when a behaviour starts. For TLC a block is the set
of the epochs at which it and its ancestors were proposed (`MCBlockTree`), because
`selectProposer` names one proposer of an epoch on top of a given block (`Proposer[b]`), which may be another one on
another branch: the instances contain every block that validators following the code can make up to `MaxEpoch`.

**The pool.** A `BlockPool` method has no await, so it is an operator from a pool to a
pool; `Pool` in `BlockPool.tla` gives the correspondence of fields. Transactions are
reduced to what the protocol reads: a vote is its voter and a nonce (votes are told
apart by transaction hash), a block has stakes (`Stake[b]`) and the invalid blocks whose
offense it records (`Evidence[b]`). The depth-first searches are written as what they
compute, with the order of their results. `TryFinalizeChain` keeps the order "append the
block, then look up its db", with the exception in between.

**One validator.** `CheckProposal` follows `validateAndExecuteBlockOnDb` and
`checkProposalBlockAndTx` in the order of their checks; what a check throws is a
verdict. The content of a block is reduced to whether it is right (`flaw`, by the step that would find it wrong), and to its
`last_votes`. A block that is numbered right above the last final block is checked against *that* block, whatever its
`last_hash` (`getPrevBlockInfo`, `getBaseStateVersion`): if it stands on another one, `FlawOn` says what the
checks find there, where the draw may fall on the same proposer and the transactions may do the same (`FoundFlaw`). The
`last_votes` enter the pool before anybody asks whether it has the predecessor, and stay whatever comes of the block: a
pool may hold votes and a proposal for a block that it has forgotten or never had, and the next clean-up takes them
away. A proposal transaction that another than the proposer signed (`PROPOSER_MISMATCH`) is ignored, like a missing
predecessor; any other flaw is voted against. `InitPool` is the pool of a
node that has just finalized `Root`. Votes of a block that the pool does not know are refused by
`checkVoteTx`, so `tallied` is only ever counted with the block at hand.

**All validators.** The timer callback is two steps, `StartTransition` and
`FinishTransition`: it awaits the NTP time between reading the clock and setting
the epoch, and messages are handled there (`Awaits`). Messages are never removed, so
they can be late, repeated or not delivered at all. `Network` says what is assumed of them:
"async" nothing, "timely" that a proposal arrives within its epoch or never and clocks agree on the
epoch, "sync" that everything arrives within its epoch.

**The versions.** `roots` is `rootMap`, from the name of a version to what its state
holds: the blocks that were executed to get it, and the transactions since. That writing one
version leaves the others alone is the business of the state tree, which is a later module;
here a write changes the content of one name. A database is the two versions that it owns.
There is one handle for `node.db` (`Front`), one for each entry of `hashToDb`, one for the
temporary database that a task works on (`Work`) and one for a copy of that (`Spare`). A task (a
block that is validated, a proposal, a vote that is checked, the clean-up after a finalization) runs
to its end before the next one; `task` tells which actions it still has. A missing or
taken name makes `Clone` and `Delete` do nothing, as in the code, which logs an error and
goes on: an action never assumes that a name is there because it should be. The steps of
one transaction are two actions, `Begin` (the backup and the operation) and one of `Succeed`,
`Fail` (also the end of a dry run) and `FailOnFee`, so that the runs see the state between them.

The correspondence with `BlockPool` is by guards: that a block which becomes final has a
database is `StateFollowsChain` of `OneNode`, and which blocks are finalized is any child of the
last one. `CleanUp` closes the databases of all blocks with a lower number, but for those with a
vote against them (`Blamed`): `addVoteAgainst` makes even a valid block one of
`hashToInvalidBlockInfo`, which the clean-up keeps for a while. Of the blocks of
earlier epochs that are not lower it may close any, which is more than `CleanUpAfterFinalization`
does.

**The trees.** `heap` of `RadixTree` holds the radix nodes of all versions, with the fields of
`RadixNode` that are read again: label, children by first digit, parents, state and serial, and the
information that is cached (proof and size). The methods are operators from heaps to heaps
(`CloneNode`, `Split`, `MergeToChild` and the like), and an action is one method of a state
node's tree on one version. `StateTree` takes the children of a state node as a function, which is
what `RadixTree` implements. Tree height, bytes and the counters of siblings are left out. Both
modules have a variable for the abstract state of `VersionedMaps` and `VersionedTrees`, which
only the refinement reads. `transferStateTree` renames nodes only and is not modelled.

**The functions.** A database is a record, and a transaction that fails is one that leaves it as it was,
so an action of `Staking`, `TokenBridge`, `Payments` and `Fees` is a transaction that succeeds (`Fees` also
has those that fail and pay). The write rule of a value, the function it triggers and the
transfers which that one makes are one action. Amounts are integers in units of 10^-6, the
smallest amount a transfer may have; the rewards of `Fees` are in Share-ths of a unit, and floats
are not modelled. What a model has beside the database: `given` of `Staking` are tokens that were
transferred into a staking account directly, which no total counts; `opened` and `fees` of
`TokenBridge` are what a property compares with. Garbage collection of transfer records,
escrows whose source is a staking account, and formats are left out. Each transfer of a bridge
closing has a timestamp of its own.

**Permissions.** The owners, rules and functions are functions from paths to configurations
(`ConfigTrees`). A write rule stands for the set of addresses for which it is true; a state rule is its
`max_children` and its garbage collection; a configuration without keys stays. `Match` prefers the
label itself to a variable; if a node has several variable children, the first of them is arbitrary.

**Triggers.** The recursion of `setValue` and `triggerFunctions` is a stack with a frame for every
write and every call. Functions are the native ones that write values (`_eraseValue`,
`_saveLastTx`, `_updateLatestShardReport`, `_fail`); REST functions are posted after the write and
change no state here. The order among paths below the written one is fixed arbitrarily.

**The transaction pool.** Blocks are paths above the last final block, so forks come and go
under one pool. A transaction has an account, may be free of gas, and has a turn (a nonce, or a timestamp:
`Ordered`) or none (nonce -1: `Unordered`). One without a turn is accepted and executed at any time and leaves no trace in its account;
it leaves the pool by its hash only, and nothing but the tracker keeps a final one out, so it may be pooled
and executed once more when it is sent again after `TX_TRACKER_TIMEOUT_MS`. Consensus transactions bypass the limits, as in the
code. Bandwidth budgets and the order by gas price are abstracted: what they leave out of a block stays in the
pool, as does a nonce that `filterAndSortTransactions` does not get to because an unordered transaction between two
nonces upsets its comparison, so a selection is any part of the candidates.

**The event handler.** A filter is a channel and the id its client chose; the six indexes of
`event-channel-manager.js` and `index.js` are variables. Sockets are the environment: clients may send
anything, leave, or fall silent (`silent`), and the heartbeat pings them.

**Syncing.** The chain of `ChainSync` is a line of block numbers; `Closing` holds the blocks that end three
consecutive epochs, which finalize what is below them when they are notarized. A request, an answer
and a sleeping handler are elements of queues; a socket that closes takes its queues with it. A
restart keeps the disk and forgets the votes for the last block on it. `ColdStart` reduces a
snapshot to the number of its chunks, and a block of another chain is a number above `MaxBlock`. In
`ShardReports` a block stands for its proof hash, and the parent chain executes a transaction
of reports as a whole.

## 3. Runs

| run | question | size |
|---|---|---|
| `chain_finality` | abstract protocol, 3 validators, all blocks of 4 epochs above Root: `Agreement`, `FinalizedIsOnlyNotarized`, the inductive invariant `IInv` | 116k states, 1 min |
| `one_node` | one pool, 7 blocks in two forks, an invalid block, votes for and against: order of arrival, caches, clean-up, the inductive invariant | 49k states, 20 s |
| `consensus_three` | 3 validators, 2 epochs of proposals, timely, proposers differ by branch, one vote of a validator in an epoch: refinement of `ChainFinality`, the inductive invariant of its proof, who is blamed | 179k states, 1.5 min |
| `consensus_two` | 2 validators, 4 epochs, timer callbacks interrupted by the await: agreement, refinement | 32k states, 50 s |
| `consensus_async` | 2 validators, nothing assumed of the network, proposers differ by branch: pools are sound | 97k states, 20 s |
| `state_versions` | versions of one node, genesis and snapshot starts, a tree of 4 blocks with a fork, one transaction: ownership, leaks, restores, final version | 0.84M states, 1 min |
| `database` | the trees, functions, fees, budgets, permissions and triggers, 10 parts | 207k states, 1 min |
| `services` | transaction pool, event handler, chain sync, cold start, shard reports, 5 parts | 461k states, 1.5 min |
| `progress` | liveness of the consensus, the filters, the syncs, the reports and the triggers, 7 parts | 10k states, 10 s |
| `one_vote` | *violated*: a validator votes for two blocks of one epoch | - |
| `growing_stakes` | *violated*: a notarized tip cannot be extended when stakes grow | - |
| `revote` | *violated*: two votes of one validator are tallied twice | - |

What the properties of the last three passing runs combine:

| property | of | says |
|---|---|---|
| `TreesAreExact` | radix, tree (types also of owners, values, triggers) | parents, counts, cached hashes, pages and proofs are those of the tree that is there, and nothing leaks; equal states, and only they, have equal hashes |
| `VersionsAreSeparate` | radix, tree | both trees implement their abstract specifications; a clone has the hash of its original; deletion leaves no orphans |
| `BooksBalance` | staking, bridge, fees | totals of stakes, lock-ups, pending amounts, pools and rewards agree with what they sum up |
| `LimitsAreKept` | bridge, fees, budgets | daily limits, fees and budgets hold whenever they are checked and used up at different times |
| `StepsAreCovered` | staking, payments, fees, budgets | lock-ups, whole releases, billing by those on the list, room for what grows, nonces for what takes effect |
| `PermissionsDecide` | owners, values | nothing changes that the owners or rules in charge do not let the actor change; collections keep the newest |
| `CallsAreComplete` | triggers | every path that changes is told; any failure undoes the operation; the latest report is the largest |
| `PoolIsClean` | pool | counters, tracker, duplicates, settled and stale transactions: nothing settled for the tracker is pooled, nothing that has a turn once it is final or its turn is over |
| `FiltersAgree` | events | what is matched is registered; indexes, channels and timers agree; clients were told the state of now |
| `ChainsAreWhole` | sync, cold, reports | a node that serves is synced; block files and reports have no gap |
| `NothingGoesBack` | sync, reports | final blocks stay final but for a restart; the latest report stays |
| `ValidatorsFinalize` | consensus | all validators come to the same final block, beyond the second |
| `SyncsEnd` | sync, foreign, pruned | a node that is behind catches up; the old chain is fetched |
| `EverythingSettles` | filters, reports, triggers | silent channels and waiting filters end; all blocks are reported; every write ends |

**Bounds.** `MaxEpoch` bounds the epochs of blocks; the clock stops one epoch after
the last of them, so every block is followed by a finalization. Four epochs above `Root` are
what a fork against a finalized block needs: two blocks on one branch with a third to finalize
them, against a branch that skips an epoch; the mutant
`EndsWithThreeBlocks` (finalize any three blocks) breaks `Agreement` within this bound.
Two epochs above `Root` are enough to finalize one block (with `Root` as the first of three).
Three validators with equal stakes are the smallest set in which a majority of two
thirds is not everybody; `MaxInvalidOnMem = 1` makes old evidence expire within the
instance. `consensus_three` is cut off (`FewAreMissed`) where more than `MaxMissed` = 4 proposals and votes, counted by
receiver, are outstanding when an epoch begins; up to four are lost or late. `RootNumber = 1`, because a block of number 1 may extend the genesis block
whatever the tips are.

`state_versions` has two epochs above `Root`: a block that is final, its child, and a sibling with
the number of the child's parent (the case `getBaseStateVersion` does not tell apart). One
transaction is enough, because only one runs at a time and a version tells transactions that are on
it from one that is not. The sibling is `Blamed`, so its database is there to be left behind and to be
built on after the other branch has become final. Three indices (`TempId`) suffice because no prefix has more than
three versions of one number at a time: with fewer, an action that needs a new name would be
disabled, and the run checks that there is no deadlock.

`database`: TLC explores `Explored`, the behaviours of `Spec` in which the staker either stakes for both services, at
one time and without an offense, or leaves the service app alone while time passes and offenses come in
(`StakingScenario`). The labels of `RadixTree` are prefixes of one another or part at their first or second
digit, and four writes make an inner node, split it and merge it while another version shares it. The
paths and objects of `StateTree` have two levels, with deletions in the middle; three steps suffice for
a clone, a write and a deletion. Three offenses lock a stake up; two
requests of the bridge over two days and pools; an escrow of a user with himself and one of a
payment account; ratios of 0, 50 and 100; two transactions in each of three blocks, with votes whose stakes
divide a fee evenly or not; four transactions against budgets (`MaxNonce`), so that apps get,
lose and regain a stake. `OwnerChanges`, `RuleChanges` and the writes of `Access` are those in which
a configuration stands above, at and below another one's. The functions of `Triggers` call each other's paths in
circles of two; `MaxDepth` of 12 is never reached.

`services`: TLC explores `Explored`, the behaviours of `Spec` within two scenarios a part, because the constants that
both need would together be too large. The pool has either four transactions of three accounts with time that passes,
at each of its limits, or a fork of two blocks that hold two transactions of one nonce, or an unordered
transaction beside one with a nonce, or the unordered one alone in a fork with time that passes, which comes back after
it was final (`Groups`, `PoolScenario`). The event handler
has either two channels with a filter id each and paths of one label, or one with two ids and paths of up to three labels with
wildcards (`EventsScenario`); both register once more than there are filters, so that an id is used again.
Segments of three blocks over a chain of six; two faults
let a request be lost, a peer be replaced and a node restart in one behaviour. Reports: two calls that
overlap, two faults, four blocks; a transaction is only lost while a further period of blocks follows, since
with the last blocks it is the bound that keeps them from being reported again. Cold start: a
whole, a pruned and a foreign peer, three refusals and two lost connections.

The passing instances of three components keep to conditions under which their properties hold; section 5
says what happens without them: single operations and full nodes (`MaxOps = 1`, `Lightweight = FALSE`) for
budgets and reports, blocks close enough together (`Closing`) for the chain sync, and peers that have
the blocks they are asked for.

**Environment of the refinement.** The code implements `ChainFinality` when the network is in
good order (`InGoodOrder`: proposals are timely, two majorities have a validator in common, and `Root` is not the genesis
block) and for as long as no validator has voted twice in an epoch. The second condition is about what the
validators did, so it is in the specification: `InOrderSpec` is `Spec` up to the first step that breaks it. The code
does not ensure it, which is the finding of the run `one_vote`. Nothing is assumed of
proposers, which differ by branch in `consensus_three` (`ByParent`), nor are stakes constant. `MCConsensus` has TLC evaluate that its timely
instances are in good order; section 4 says what each condition is for.

**Fairness.** Node.js serves its queues, so a timer fires and a handler runs when it can. For the
consensus that is `Fairness` of `Consensus`: time passes, and an event loop that has a timer or a message to
serve does not rest (its second conjunct is weak fairness with ENABLED written out as `~Idle`). The
other components have a `Fairness` of their own: the heartbeat and the timeouts of filters fire and a terminated socket closes; chain
sync timers fire, handlers run, sockets deliver and a node that has too few peers looks for more; the
shard goes on and a transaction that is not lost gets into a block; a write that has begun goes on, because
one thread executes it. Nothing is assumed of faults (which are bounded), of clients, of new blocks or of
the choice of a peer. `MCProgress` restates it for the part that runs; where a step takes the head of a
queue, the fairness is that the head is taken, which follows from that of the step.

## 4. Proofs

### Finality

`ChainFinality_proofs` proves, for every block tree, set of validators and quorum
system in which two quorums meet:

- `ChainsAreOrdered`: numbers and epochs grow along a chain, which has one block of every number
  (`ChainIsOrdered`). `TreeAssumption` only says that of a block and its predecessor; a block with the
  smallest number for which it would fail gives the induction.
- `InductiveInvariant`: `Spec => []IInv`. `IInv` strengthens agreement with what it rests on:
  `VotesOrdered` (a validator votes once in an epoch and never for a shorter block
  later), `VotedOnNotarized` (what is below a voted block is notarized) and
  `FinalJustified` (a final block is the middle of three notarized blocks of consecutive
  epochs, and stays so because votes are never taken back: `NotarizedIsStable`).
- `FinalizedUnique`: no other block is notarized at the height of a finalized one. Take a
  notarized block of that height (`NotarizedDownwards` reduces to equal heights): it shares a voter with each of the three
  blocks (`SharedVoter`); its epoch is before, among or after theirs, and each case
  contradicts the order of the votes of that voter (`UniqueAtHeight`).
- `FinalityAgreement`: hence the finalized chains of two validators are compatible.

### The pool

`BlockPool_proofs` proves of each operator of `BlockPool` and `ConsensusNode` what it keeps of a pool, for
every block tree, set of validators, nonces, stakes and evidence. The invariant is `PoolIsWhole(p, K)`, at
the end of `BlockPool`; `K` are the blocks that the node has tracked so far, the ones it will
never add again. Its parts:

| part | says | needed because |
|---|---|---|
| `PoolIsNested` | what the maps hold about a block, they hold about one of the pool, or, brought by `last_votes`, about one whose number is not above the last block's, which the next clean-up finds by its number | the clean-up deletes from each map by itself |
| `PoolIsCounted` | `tallied` is the stake of the votes that are there if the block is, else 0 | `tallied` and `votes` are updated and deleted apart |
| `PoolIsLinked` | a block is among the children of its predecessor, once, while that is in the pool | `dfsLongest` only finds what is linked |
| `PoolIsNotarized` | what stands above the last block stands on notarized blocks, and has no majority that went unnoticed | a majority may be there before the block |
| `PoolHasTips` | the cached tips are the longest notarized chains, unless the clean-up took the first | they are recomputed at three places, and not at all once the first tip has left the pool |

The lemmas follow the code: `TryUpdateKeeps`, `AddVoteForKeeps`, `AddSeenBlockKeeps`, `CleanUpKeeps`,
`TryFinalizeKeeps`, and at last `AfterProposalKeeps` for `handleConsensusMessage` with a proposal, whatever
the verdict. Three arguments are not local:

- *Loops.* `last_votes` and the children of a block that is notarized late are walked through, and the stakes are summed
  up. The models take the folds of the community modules, whose recursive function `FoldTheorems` reasons about:
  that it exists, that it keeps a set of values that each step keeps (`FoldKeeps`), that it takes on
  what one of the steps brings (`FoldReaches`), and that steps that commute may come in any order (`FoldAnyLast`).
  Each is an induction by a smallest subset (`WFMin` of the library, which needs no operator as parameter).
- *Tips.* `LongestIsWhole`: the order of a depth-first search is a strict order on the longest blocks, and
  a finite set that is strictly ordered has a sorting (`SortingExists`).
- *Majorities.* `MajoritiesMeet`: two sets of validators with two thirds of the stakes each have a
  member in common. The sums are over arbitrary stakes (`NodeSumOfTwo`).

`OneNode_proofs` puts the calls together, for every set of messages that may arrive in any order, any number of times:

- `PoolStaysWhole`: `Spec => []IInv`, and with it `NodeTypeOK`, `NotarizesOnTime`, `TipsStayLongest` and
  `StateStaysWithChain`.
- `CleansUpExactly` and `KeepsEvidence`, the action properties of the clean-up, by what `FinalizationIs` says of `tryFinalizeChain`.
- `TipStaysExtendable`: `createProposal` finds what it needs for the block that it would extend. It assumes that the
  stakes are the same for all blocks and that a validator has one vote transaction for a
  block. Both are needed: the runs `growing_stakes` and `revote` drop one each.

### The code implements the protocol

`Consensus_proofs` is about all validators. Without any assumption about the network - messages may
be lost, repeated, late and reordered, clocks out of step, timers interrupted by their await:

- `PoolsStayWhole`: `Spec => []IInv`, where `IInv` says that every pool is whole, timers are behind the clock
  (`TimersAreBehind`), and every vote in a pool or a proposal was cast (`PoolsAreFilled`, `ProposalsAreMade`).
  `ConsensusTypeOK` follows, and `CountsWhatWasCast`: what is notarized in some
  pool was voted for by two thirds of the stakes that decide about it, however stakes change.
- `OneProposerOneVote`: if the proposer of an epoch is the same on every block, no validator votes twice in an epoch,
  because there is one proposal of an epoch (`OneProposalAnEpoch`).

The theorems that follow are about `InOrderSpec` and assume `InGoodOrder`. Each of their conditions is one the code depends on:

| condition | what happens without it | it holds if |
|---|---|---|
| no validator has voted twice in an epoch (`InOrderSpec`) | run `one_vote`: the order of votes of `ChainFinality` is broken | the branches draw one proposer for an epoch (`OneProposerOneVote`), or a fork is not proposed on by both of its proposers in an epoch |
| `Network = "timely"`: a proposal arrives within its epoch or not at all, clocks agree on the epoch | a vote may come after one for a later epoch | messages take less than an epoch |
| two majorities have a validator in common | two blocks of a number may be notarized; run `growing_stakes` for what else changing stakes do | stakes do not change (`SteadyStakesMeet`), or change little |
| `Root` is not the genesis block | a block of number 1 may extend the genesis block whatever the tips are | the first block is final |

- `StaysInGoodOrder`: `InOrderSpec => []TimelyIInv`. Beside `IInv` and the invariant of `ChainFinality` for what was
  cast (`Finality!IInv`), it says that a timer in transition is at the present
  epoch (`TimersInStep`), that a proposal has the votes and the transaction of its predecessor
  (`ProposalsAreSound`), that a pool has no block below its last one, a tip in it, and blames no block that it has
  (`PoolIsTidy`), and that a validator keeps the notarization of what it voted on
  (`KeepsWhatItVotedOn`). The last is what makes votes ordered by number: a block that is
  voted for extends one of the longest notarized chains of the voter, so nothing it voted for
  before is longer. A proposal that is numbered right above the last block stands on it, since its
  `last_votes` notarize its predecessor and no sibling of a final block is ever notarized (`StandsOnLast`); the block
  on a forgotten sibling that `PoolsStayWhole` has to deal with is never proposed here.
- `CodeImplementsFinality`: `InOrderSpec => ImplementsFinality`. A vote of the code is a `Vote` of `ChainFinality` (its
  guards are the order of votes above, and that the predecessor is notarized by votes that were cast);
  `tryFinalizeChain` moves the last block to the middle of three consecutive notarized ones, or
  leaves it; all other steps are invisible.
- `FinalizedChainsAgree`, from the invariant of `ChainFinality`, whose assumption on quorums is one of `InGoodOrder`
  (`SteadyStakesMeet` has it from `MajoritiesMeet`).
- `OnlyRivalsBlamed`: a proposal that a validator blames has a rival, another proposal of its epoch, which
  `checkEpochToBlockMap` found in its place (hazard at `consensus/index.js:804`). All other checks it passes, because it brings what its
  peers may have missed.
- `PoolsStaySound`: every validator can go on from a notarized tip above its last block.

### Versions

`StateVersions_proofs` proves, for every block tree, set of transactions, of indices and of
blocks with votes against them:

- `InductiveInvariant`: `Spec => []IInv`. Ownership alone is not inductive. `IInv` adds the
  names (`Named`: the final version is `FINAL:n` and the front one `NODE:n` of the last block, so
  those of the next block are new, which is why finalization cannot collide with what it
  clones), what `node.db` holds while a transaction runs on it (`FrontHolds`), and which
  databases a task has open and which of lower blocks the last clean-up closed for good (`Control`).
- Two lemmas carry the steps. `Changes(h, d)`: one database moves to versions that are its own
  or new, and versions of others are untouched (the steps of a transaction). `Moves(H)`: the same
  for several databases between transactions, with versions that pass from one to
  another (opening, rolling back, accepting, destroying). `Finalizing` follows
  `cloneAndFinalizeVersion` through its four intermediate maps.
- `FinalVersion`, `PoolExact`, `NothingShared`, `FrontReported`, `NoLeaks`: the invariants that the
  run checks.

That a name is found at all (`Unused` is not empty) is a guard there, so the proofs need no bound
on the number of versions.

### Services

`Services_proofs` is about `Services`, so its theorems are about the properties that the runs check, for any
sets of channels, filters, paths, transactions, peers and calls and for any limits.
`ServicesInvariance` says that the invariants of the parts, each stated on its instance, hold in every behaviour; a step of
the node is a step of each part or leaves it alone (`OneServiceSteps`), so every part keeps its own.

- The transaction pool (`PoolIInv`). The counters are sums over the lists, and a filter keeps what
  a fold over a list leaves (`PoolSelection`, `PoolFiltering`, `PoolPushing`). That a
  transaction has its turn to come is not inductive alone: `cleanUpForFinalizedBlock` lets go what
  is not later than some transaction *in the block*, while the nonce of the final state moves by the
  number of those that *succeeded*. The invariant has what makes them agree (`PoolTurnsOK`): along every path of
  blocks above the final one the nonces that succeed follow each other without a gap from the
  nonce of the final state on, so that a final block leaves it exactly behind the last of them (`PoolDropping`,
  `PoolTurnsMove`). Transactions without a turn are in none of this: of a final one that comes back the invariant says
  only that the tracker knows it as a new one. The other half is time (`PoolTrackedInTime`): what is pooled was tracked when it came or later, so
  that the pool lets go of it before the tracker does, which needs `TX_POOL_TIMEOUT_MS <= TX_TRACKER_TIMEOUT_MS`.
- The event handler (`EventsIInv`, `EventsTightOK`). None of the indexes is inductive alone, because
  `deregisterEventFilter` starts from `eventFilters`, and goes to the tree through `parsed`, to the timer
  through its callback and to the channel through the id. The invariant relates them all: an event node is in the tree, and its
  filters are registered for its path; which states the socket of a held channel can be in;
  that every filter has a channel; that a running timeout is the one noted in the filter's callback, so that clearing the noted one
  clears every one; what a client was told; that the ways to a node are nodes and every node leads to an event node.
- The chain sync (`SyncIInv`): the order of the four block numbers of a node (`SyncChains`), that a request names no
  block above the last one and an answer is at least what the peer had at the start (`SyncWireOK`), and that few
  requests are under way (`SyncFewInFlight`), which is a sum over the peers. The step that matters is an
  empty answer, which makes the node serve: the node has what the peer has only if the answer is
  empty because nothing follows. A pruned peer answers nothing to a request from below its first block as
  well, so what a serving node has is proved for peers with their chains from genesis on (`SyncAreWhole`).
- The reports (`RepIInv`): one call sends at a time, and it is the one the flag stands for
  (`RepOneSender`); a transaction writes its blocks one after the other, and each follows the latest report or is there already,
  which is a fold over the blocks of the transaction (`FoldLeft` of `Write`).
- The cold start (`ColdIInv`, `ColdOneAtATime`): before the snapshot is there nothing of the old chain moves, an
  old request names a block above 0, `oldest` is not below the snapshot, the files have no gap, and done
  means whole; one request for old blocks, answer or sleeping handler is under way. An answer may come late, or twice, or
  from a peer on another chain, so that `oldSync.oldest` says nothing of it; what keeps the files together is that
  `precheckOldChainSegment` finds its last block's successor on disk, which a block of
  another chain never has, and that done is only set by a segment that reaches block 0.

From these: `PoolTheorem` (`PoolIsClean`), `FiltersTheorem` (`Spec => []FiltersAgree`), `ChainsTheorem` (`ChainsAreWhole`, with
`SyncAreWhole` and `~Lightweight`), `NotBackTheorem` (`NothingGoesBack`, with `~Lightweight`: a lightweight node does not
check the rules of the reports, section 5) and `TypesTheorem` (`TypeOK`).

### Books

`Books_proofs` is about `Books`, for any users, services, pools, escrows, apps, amounts, rates, votes and limits.
`BooksInvariance` puts together the inductive invariants of its five parts, as `ServicesInvariance` does; each action
is shown to keep the one of its part.

- Sums. A total is a fold of a community module over a set; the first section has what the proofs need of
  it: one element may be taken out last (`TotalTakesOut`, by `FoldAnyLast`), a transfer leaves the sum
  over a set of accounts that has both ends and changes one with a single end by its amount (`Moves`, `Paid`).
- Stakes (`StkIInv`). The total of a service, with what was given to its staking accounts directly, is what these
  accounts hold, and the sum over the services is their sum once it has been written. Lock-ups: an account expires no earlier than any end
  that was agreed to, and than `Extension * (2^k - 1)` after k offenses; that the extensions of offenses that come in groups add up to that
  is `StkExtensionIs`, from the doubling of powers (`StkTwoToDoubles`).
- The bridge (`BriIInv`). Pending amounts are sums over the open requests, by sender, by user, over the pools and in all; the
  balance of the pools is the funds, what was checked out and in, the fees, and what open check-outs cost *at the rate they were
  opened with*, which a later `SetConfig` does not change; today's completed and pending check-outs are within
  the limit, and the ids of requests are used once. Each action is a chain of changes of one field each, and a lemma says of each
  what it changes.
- Payments (`PayIInv`): types and the sum of all balances. That a release pays out the whole escrow (`PayWhole`) holds because
  its two parts, if both are exact, add up to the balance whatever the ratio (`PayShareIs`), also when source and target are
  one account.
- Fees (`FeeIInv`). The shares of a block's fee add up to it because the last voter gets the rest, and the rest is
  not negative because the others' parts, rounded down, fit (`FeePartsFit`, `FeeSharesAddUp`); what the distribution gives is a fold
  over the votes, in which validators may come in any order (`FeeGivesAll`). What is unclaimed and claimed is
  what was ever given; what is collected is never more than what the blocks charge, since a fee is taken from an
  account that has it.
- Budgets (`BudIInv`): the cached usage of the free tier is that of some state in which it was renewed
  (`BudConsistent`), so that renewing it makes it the usage of the state it is renewed for, whatever it was before
  (`BudRenewedIs`). Transactions of a single operation on nodes that compute hashes; section 5 says what others do.

From these: `TypesTheorem` (`TypeOK`), `BalanceTheorem` (`BooksBalance`), `LimitsTheorem` (`LimitsAreKept`) and
`StepsTheorem` (`BooksSpec => StepsAreCovered`). `Books` states them for all parts at once. A step of `MCDatabase` is one of
`Books`, or leaves it alone, so the run and the theorems are about the same definitions.

### What is assumed, and what is not proved

Assumed of the constants: `TreeAssumption` (a block and its predecessor), `StakeIsAssumed`, `VoteTxIsAssumed` (there are
finitely many validators and nonces, and at least one nonce), the types of the other
constants of `BlockPool`, `OneNode` and `Consensus` (where `QuorumIsAssumed` defines a quorum as validators with two
thirds of the stakes of every block), `QuorumAssumption` of `ChainFinality`, `TempIdIsAssumed` and `BlamedIsAssumed`,
and the assumptions of the parts of `Services` and of `Books` (finitely many accounts, which are told apart by their kind;
amounts, rates and limits that are natural numbers; voters with stakes). TLC evaluates all of them for the instances. Where
a theorem needs more, it says so in its own `ASSUME` (`InGoodOrder`; constant stakes and one nonce for `TipStaysExtendable`; the
hypotheses of `OneProposerOneVote` and `SteadyStakesMeet`), and
the instances of runs satisfy it: `TimelyIsInGoodOrder` of `MCConsensus`.

Only model-checked:

- everything about liveness, because the provers have no rules for fairness and ENABLED;
- of `database`, the trees with their refinements of `VersionedMaps` and `VersionedTrees` (`TreesAreExact`,
  `VersionsAreSeparate`), which are walked by recursive operators, and the permissions (`PermissionsDecide`) and
  triggers (`CallsAreComplete`), which no theorem states;
- what the finalization does to versions together with what it does to the pool: `StateVersions` and
  `BlockPool` are connected by guards only (section 2).

## 5. Findings

With runs ("findings" in `PROJECT.json`): a validator can vote for two blocks of an
epoch; the majority that notarizes a block is not the one that `createProposal`
asks for; a validator's votes are counted by transaction.

Disagreements between the code and what its comments, names or tests say, met while modelling. The models follow the
code; the passing instances state what holds in spite of them.

| where | what the code does | what the project says |
|---|---|---|
| `event-handler/state-event-tree-manager.js:73` | `Set.prototype.values()` has no length, so deregistering one filter removes the event nodes of all filters on its path and above it | line 70: "Delete event node with no filter Ids." |
| `event-handler/event-channel-manager.js:229` | a filter for a transaction in an end state is told and stays, for ever | `event-handler/index.js:189`: "When the state no longer changes, the event filter is removed." |
| `db/functions.js:1044` | `_unstake` compares the lock-up with the clock of the executing node, so replicas may differ | `db/functions.js:616`: "Allow only node-independent values to avoid state proof hash issues." |
| `db/functions.js:1303` | pending check-ins are kept by token pool and looked up with the pool configured now | `test/integration/function.test.js:5601`: "cannot open checkin with (amount + pending) more than token pool balance" |
| `db/index.js:2000` | the fee of a failed transaction is collected, then rolled back with it, and still distributed | `test/integration/blockchain.test.js:629`: "Amount actually collected & distributed." |
| `common/common-util.js:472` | the budget error of a transaction with several operations is not looked at: it is not rolled back | `test/unit/db.test.js:4001`: "cannot exceed service state budget" |
| `db/index.js:1519` | on a LIGHTWEIGHT node all proof hashes are '', so the cached usage of the free tier is never renewed | `common/constants.js:32`: "Enables getStateFreeTierUsage() optimization." |
| `db/radix-node.js:620` | the proof of a child whose label is a prefix of another's leaves out its radix children and is never verified | `test/unit/state-util.test.js:3243`: `"isVerified": true` |
| `db/state-util.js:923` | `renameStateTreeVersion` does not reach renamed nodes below ones with another version | `db/state-manager.js:143`: "each node's version ... is set to to-version if its version is equal to the given from-version" |
| `tx-pool/index.js:482` | a transaction that is in a block of one branch is told to be FAILED when it fails on another | `common/constants.js:579`: "Failed and is NOT included in a block" |
| `db/index.js:2252` | `setRule` and `setFunction` let a node get two variable children, one of which is never matched | "It's assumed that there is at most one variable (i.e., with '$') child node." |
| `db/index.js:2312` | a write of an object also calls the function at `/r/$x` for a child that has its own | `db/index.js:2260`: "Does a DFS search to find most specific nodes matched in the function tree." |
| `p2p/index.js:621` | a segment that finalizes nothing is asked for again and again | `p2p/server.js:652`: "Requester will continue to request blockchain chunks until their blockchain height matches the consensus blockchain height" |
| `node/index.js:893` | an empty answer of a peer without the old blocks makes an empty node SERVING | `node/index.js:895`: "Blockchain Node is now synced!" |
| `p2p/index.js:1009` | the handler of an invalid answer drops the peer of the moment, not the one that answered | `p2p/index.js:608`: "The peer is randomly selected and maintained until it's disconnected, it gives an invalid chain, or we're fully synced." |
| `p2p/server.js:904` | with rules set up by a LIGHTWEIGHT node, an overlapping report moves old blocks behind the newest, which is collected | `test/integration/sharding.test.js:447`: "expect(latest).to.equal(Number(highest));" |
| `p2p/index.js:588` | when the peer of the snapshot is lost, nobody else is asked | `p2p/index.js:234`: "Use the existing peer or, if the peer is unavailable, randomly assign a peer for syncing" |
| `p2p/index.js:900` | when a connection is lost with a request for old blocks under way, the old chain is never fetched | `p2p/index.js:285`: the same |

Two more that no instance shows: `validateBlockNumberAndHashes` (`consensus/index.js:542`) returns at once unless the
node is LIGHTWEIGHT, and the `return` inside a `forEach` of `precheckBalanceAndStakes` ends nothing.

## 6. Not modelled, and the plan

Not modelled by choice: JSON-RPC, the client, the tracker, tools, hashing, signatures, formats
and logging: they keep no state that the protocol reads. REST functions: their effects are outside. Of the modelled components:

- Consensus: `getValidators` and `selectProposer` (validators and the proposer of a block are constants of the block), so that stakes that change
  between the final and the last notarized block are not seen (hazard at `consensus/index.js:231`, which has no property); reports of evidence by
  several proposers.
- Blocks on one network with different versions held in memory (the shape of a radix tree depends on them: hazard at
  `db/radix-tree.js:259`, which has no property).
- Event handler: custom client ids, malformed messages, filter ids with a colon.
- Transaction pool: bandwidth and the order by gas price, but as a choice among the candidates.
- Cold start: `getBlockByNumber` (`blockchain/index.js:119`) reads the newest `ON_MEMORY_CHAIN_LENGTH` blocks from memory only, so
  that `precheckOldChainSegment` fails for a block that only a file has until the chain has grown past it; with the default sizes
  this costs retries, and `PassesPrecheck` looks at the files.
- State: heights, bytes, the debugging output, `transferStateTree`.
- Peer-to-peer: peer discovery, connection limits and heartbeats, `P2pUtil`.

Planned, most important first:

1. `BlockExecution`: how a proposer and a validator execute one block - last votes, evidence and its
   roll-back, transactions, fees and rewards - with the property that the validator gets the
   proposer's state, on top of `StateVersions` and `Fees`.
2. `selectProposer`, `getValidators`, and stakes that change during the protocol.
3. `P2P`: connection limits, peer discovery, heartbeats.
4. Composition of `TxPool` with `ChainSync`: blocks that come by segments.
5. Proofs: `PermissionsDecide` and `CallsAreComplete`; the composition of `StateVersions` with `BlockPool`.
