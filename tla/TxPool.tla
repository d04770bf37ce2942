------------------------------- MODULE TxPool -------------------------------
(***************************************************************************)
(* The transaction pool of a node (tx-pool/index.js) with everything that  *)
(* fills and empties it: users (executeTransactionAndAddToPool), consensus *)
(* messages, the proposer's selection of transactions, the execution of    *)
(* blocks, finalization and time.                                          *)
(*                                                                         *)
(* The pool keeps its lists, their counters and the tracker apart, and     *)
(* every caller updates some of them.  Blocks are kept as paths above the  *)
(* last final block, so that forks come and go under the pool.             *)
(***************************************************************************)
EXTENDS Integers, FiniteSets, SequencesExt

CONSTANTS
  UserTx,         \* transactions of users
  Unordered,      \* those without a turn: their nonce is -1
  ConsensusTx,    \* votes and proposals
  Address,        \* accounts
  Numbered,       \* those whose ordered transactions have nonces, else timestamps
  AddressOf,      \* the account of a transaction
  OrderOf,        \* the nonce, or the timestamp, of a user's transaction that has a turn
  Free,           \* transactions without a gas price
  PoolLimit,      \* TX_POOL_SIZE_LIMIT
  FreeLimit,      \* the share of it for free transactions
  AccountLimit,   \* TX_POOL_SIZE_LIMIT_PER_ACCOUNT
  AccountFreeLimit,
  PoolTimeout,    \* TX_POOL_TIMEOUT_MS
  TrackerTimeout, \* TX_TRACKER_TIMEOUT_MS
  MaxTime,        \* bound of the clock
  MaxBlocks,      \* bound of the blocks executed above the last final one
  MaxTxs,         \* bound of the transactions of a block
  Together        \* bound: the sets of transactions that come up in one behaviour

Tx == UserTx \cup ConsensusTx
Ordered == UserTx \ Unordered

TxPoolAssumption ==
  /\ Numbered \subseteq Address
  /\ UserTx \cap ConsensusTx = {} /\ Unordered \subseteq UserTx
  /\ AddressOf \in [Tx -> Address]
  /\ OrderOf \in [UserTx -> Nat]
  /\ ConsensusTx \subseteq Free /\ Free \subseteq Tx
  /\ {PoolLimit, FreeLimit, AccountLimit, AccountFreeLimit} \subseteq Nat
  /\ {PoolTimeout, TrackerTimeout, MaxTime, MaxBlocks} \subseteq Nat
  /\ PoolTimeout <= TrackerTimeout
  /\ IsFiniteSet(Tx) /\ IsFiniteSet(Address)

(***************************************************************************)
(* Transaction states (common/constants.js).  "none" stands for a missing  *)
(* tracker entry.                                                          *)
(***************************************************************************)
InBlock  == {"FINALIZED", "REVERTED", "IN_BLOCK"}
EndState == {"FINALIZED", "REVERTED", "FAILED", "TIMED_OUT"}
TxState  == InBlock \cup EndState \cup {"EXECUTED", "PENDING"}
Untracked == [state |-> "none", at |-> 0]

\* What the pool sees of a block.  Of the failed transactions of a block the
\* nonces are not used up.
Body == [txs : SUBSET UserTx, failed : SUBSET UserTx, proposal : ConsensusTx,
         votes : SUBSET ConsensusTx, at : 0 .. MaxTime]

VARIABLES
  pool,        \* transactions: the list of every account
  tracker,     \* transactionTracker
  total,       \* txCountTotal
  freeTotal,   \* freeTxCountTotal
  freeOf,      \* freeTxCountPerAccount
  created,     \* extra.created_at
  front,       \* the next nonce, or the last timestamp, of accounts in node.db
  final,       \* the same in the final state
  blocks,      \* the executed blocks, as paths from the last final one
  finalized,   \* the transactions of final blocks that were not reverted
  told,        \* the last state that the event handler was told
  now          \* the clock

vars == <<pool, tracker, total, freeTotal, freeOf, created, front, final,
          blocks, finalized, told, now>>

Pooled == UNION {Range(pool[a]) : a \in Address}
SizeOf(p) == FoldFunction(+, 0, [a \in Address |-> Len(p[a])])
FreeIn(s) == Cardinality({i \in DOMAIN s : s[i] \in Free})

Init ==
  /\ pool = [a \in Address |-> <<>>]
  /\ tracker = [t \in Tx |-> Untracked]
  /\ total = 0 /\ freeTotal = 0
  /\ freeOf = [a \in Address |-> 0]
  /\ created = [t \in Tx |-> 0]
  /\ front = [a \in Address |-> 0] /\ final = front
  /\ blocks = {} /\ finalized = {}
  /\ told = [t \in Tx |-> "none"]
  /\ now = 0

-----------------------------------------------------------------------------
(* Accounts.                                                               *)

OrdersIn(S, a) == {OrderOf[t] : t \in {u \in S \ Unordered : AddressOf[u] = a}}

\* The accounts after the transactions of S succeeded (updateAccountNonceAndTimestamp):
\* an unordered transaction leaves no trace in its account.
AccountsAfter(accounts, S) ==
  [a \in Address |->
     IF a \in Numbered THEN accounts[a] + Cardinality(OrdersIn(S, a))
     ELSE Max(OrdersIn(S, a) \cup {accounts[a]})]

\* precheckNonceAndTimestamp: it is always the turn of an unordered transaction.
HasNextNonce(accounts, t) ==
  t \in Ordered =>
    IF AddressOf[t] \in Numbered
    THEN OrderOf[t] = accounts[AddressOf[t]]
    ELSE OrderOf[t] > accounts[AddressOf[t]]

\* The transactions of S, of which those of bad fail, can be executed: those of
\* an account in the order of nonces, and no later nonce after one that fails.
CanExecute(accounts, S, bad) ==
  /\ \A t, u \in S \ Unordered :
       t # u /\ AddressOf[t] = AddressOf[u] => OrderOf[t] # OrderOf[u]
  /\ \A t \in S \ Unordered :
       IF AddressOf[t] \in Numbered
       THEN /\ accounts[AddressOf[t]] <= OrderOf[t]
            /\ accounts[AddressOf[t]] .. (OrderOf[t] - 1)
                 \subseteq OrdersIn(S \ bad, AddressOf[t])
       ELSE OrderOf[t] > accounts[AddressOf[t]]

AccountsOn(path) ==
  AccountsAfter(final, UNION {body.txs \ body.failed : body \in Range(path)})

-----------------------------------------------------------------------------
(* The counted lists.                                                      *)

\* What a filter says of every transaction of a list, and those that it lets through
Judged(s, keep) == [i \in DOMAIN s |-> [tx |-> s[i], stays |-> s[i] \in keep]]
Kept(list, m) == IF m.stays THEN Append(list, m.tx) ELSE list
Selected(s, keep) == FoldLeft(Kept, <<>>, Judged(s, keep))

\* Mutants for the runs: the counter of an account is forgotten; the counters are
\* updated by the caller as well.
FilteredTotalsOnly(keep) ==
  LET p == [a \in Address |-> Selected(pool[a], keep)]
  IN  [pool  |-> p,
       total |-> total - (SizeOf(pool) - SizeOf(p)),
       free  |-> freeTotal - FoldFunction(+, 0, [a \in Address |-> FreeIn(pool[a]) - FreeIn(p[a])]),
       of    |-> freeOf]

FilteredTwice(keep) ==
  LET p    == [a \in Address |-> Selected(pool[a], keep)]
      gone == [a \in Address |-> FreeIn(pool[a]) - FreeIn(p[a])]
  IN  [pool  |-> p,
       total |-> total - 2 * (SizeOf(pool) - SizeOf(p)),
       free  |-> freeTotal - FoldFunction(+, 0, gone),
       of    |-> [a \in Address |-> freeOf[a] - gone[a]]]

\* updateTxListAndCounts of every account: only what is in keep stays.
Filtered(keep) ==
  LET p    == [a \in Address |-> Selected(pool[a], keep)]
      gone == [a \in Address |-> FreeIn(pool[a]) - FreeIn(p[a])]
  IN  [pool  |-> p,
       total |-> total - (SizeOf(pool) - SizeOf(p)),
       free  |-> freeTotal - FoldFunction(+, 0, gone),
       of    |-> [a \in Address |-> freeOf[a] - gone[a]]]

Keep(keep) ==
  /\ pool' = Filtered(keep).pool
  /\ total' = Filtered(keep).total
  /\ freeTotal' = Filtered(keep).free
  /\ freeOf' = Filtered(keep).of

\* The lists of addTransaction.
Push(t) ==
  LET a == AddressOf[t]
      n == IF t \in Free THEN 1 ELSE 0
  IN  /\ pool' = [pool EXCEPT ![a] = Append(@, t)]
      /\ total' = total + 1
      /\ freeTotal' = freeTotal + n
      /\ freeOf' = [freeOf EXCEPT ![a] = @ + n]

\* updateTransactionInfo and emitTxStateChanged for all of S.
Track(S, state) == [t \in Tx |-> IF t \in S THEN [state |-> state, at |-> now] ELSE tracker[t]]
Tell(S, state) == [t \in Tx |-> IF t \in S THEN state ELSE told[t]]

IsTimedOut(since, time, timeout) == time >= since + timeout

-----------------------------------------------------------------------------
(* Transactions arrive.                                                    *)

HasRoomFor(t) ==
  LET a == AddressOf[t]
  IN  /\ total < PoolLimit
      /\ Len(pool[a]) < AccountLimit
      /\ t \in Free => freeTotal < FreeLimit /\ freeOf[a] < AccountFreeLimit

\* A mutant for the runs: what is still to be executed may be sent again.
IsEligibleAgain(t) == tracker[t].state \in {"none", "PENDING"}

\* isNotEligibleTransaction, negated.
IsEligible(t) == t \notin Pooled /\ tracker[t].state = "none"

(***************************************************************************)
(* executeTransactionAndAddToPool.  A transaction that fails after its     *)
(* pre-checks is added as well: it is for the proposer to try again.       *)
(***************************************************************************)
Submit(t, succeeds) ==
  /\ HasRoomFor(t)
  /\ IsEligible(t)
  /\ HasNextNonce(front, t)
  /\ Push(t)
  /\ LET state == IF succeeds THEN "EXECUTED" ELSE "PENDING"
     IN  /\ tracker' = Track({t}, state)
         /\ told' = Tell({t}, state)
  /\ created' = [created EXCEPT ![t] = now]
  /\ front' = IF succeeds THEN AccountsAfter(front, {t}) ELSE front
  /\ UNCHANGED <<final, blocks, finalized, now>>

\* A vote that passed checkVoteTx, or a proposal whose block was rejected after
\* executeProposalTx: no limit applies.
AddConsensusTx(t) ==
  /\ told[t] = "none"
  /\ Push(t)
  /\ tracker' = Track({t}, "PENDING")
  /\ told' = Tell({t}, "PENDING")
  /\ created' = [created EXCEPT ![t] = now]
  /\ UNCHANGED <<front, final, blocks, finalized, now>>

-----------------------------------------------------------------------------
(* Blocks.                                                                 *)

Paths == blocks \cup {<<>>}

(***************************************************************************)
(* validateAndExecuteBlockOnDb and updateTransactionInfoForBlock: the      *)
(* proposal enters the pool, and everything in the block is tracked,       *)
(* whatever was known of it.                                               *)
(***************************************************************************)
Executed(path, body) ==
  /\ Append(path, body) \notin blocks
  /\ body.proposal \notin body.votes /\ told[body.proposal] \in {"none", "PENDING"}
  /\ body.votes \cap finalized = {}
  /\ CanExecute(AccountsOn(path), body.txs, body.failed)
  /\ blocks' = blocks \cup {Append(path, body)}
  /\ created' = [created EXCEPT ![body.proposal] = now]

TrackBlock(body) ==
  [t \in Tx |->
     CASE t \in body.failed -> [state |-> "REVERTED", at |-> now]
       [] t \in (body.txs \ body.failed) \cup body.votes \cup {body.proposal} ->
            [state |-> "IN_BLOCK", at |-> now]
       [] OTHER -> tracker[t]]

TellBlock(body) ==
  [t \in Tx |-> IF TrackBlock(body)[t] # tracker[t] THEN TrackBlock(body)[t].state ELSE told[t]]

ReceiveBlock(path, body) ==
  /\ Executed(path, body)
  /\ Push(body.proposal)
  /\ tracker' = TrackBlock(body)
  /\ told' = TellBlock(body)
  /\ UNCHANGED <<front, final, finalized, now>>

(***************************************************************************)
(* getValidTransactions on the accounts of a state, without the            *)
(* transactions of excluded: sorted by nonce, the first of each nonce, up  *)
(* to the first gap; or those with a later timestamp; and all unordered.   *)
(* Of these the bandwidth checks, and a sort that an unordered transaction *)
(* between two nonces upsets, leave some in the pool for a later block:    *)
(* what is taken is any part of the candidates.                            *)
(***************************************************************************)
Earlier(t, u) ==
  \E i, j \in DOMAIN pool[AddressOf[t]] :
    i < j /\ pool[AddressOf[t]][i] = t /\ pool[AddressOf[t]][j] = u

Candidates(accounts, excluded) ==
  LET S     == (Pooled \cap UserTx) \ excluded
      First == {t \in S \ Unordered :
                  ~ \E u \in S \ Unordered : /\ AddressOf[u] = AddressOf[t]
                                            /\ OrderOf[u] = OrderOf[t] /\ Earlier(u, t)}
  IN  (S \cap Unordered) \cup
      {t \in First :
         LET a == AddressOf[t]
         IN  IF a \in Numbered
             THEN accounts[a] <= OrderOf[t]
                  /\ accounts[a] .. OrderOf[t] \subseteq OrdersIn(First, a)
             ELSE OrderOf[t] > accounts[a]}

\* executeAndGetValidTransactions: what succeeds, what is reverted and what does
\* not pass the pre-checks, be it for its nonce or for a balance.
Outcome(accounts, S, valid, bad) ==
  /\ bad \subseteq valid /\ valid \subseteq S
  /\ CanExecute(accounts, valid, bad)

\* removeInvalidTxsFromPool.
TrackInvalid(S) ==
  [t \in Tx |-> IF t \in S /\ tracker[t].state \notin InBlock \cup {"none"}
                THEN [tracker[t] EXCEPT !.state = "FAILED"] ELSE tracker[t]]

(***************************************************************************)
(* createProposal, and the proposer's own handling of the block.           *)
(***************************************************************************)
Propose(path, body) ==
  LET excluded == UNION {b.txs : b \in Range(path)}
  IN  /\ told[body.proposal] = "none"
      /\ body.votes \subseteq Pooled \cap ConsensusTx
      /\ Executed(path, body)
      /\ \E S \in SUBSET Candidates(AccountsOn(path), excluded) :
        /\ Outcome(AccountsOn(path), S, body.txs, body.failed)
        /\ LET invalid == S \ body.txs
               f       == Filtered(Tx \ invalid)
               a       == AddressOf[body.proposal]
               tracked == TrackInvalid(invalid)
           IN  /\ pool' = [f.pool EXCEPT ![a] = Append(@, body.proposal)]
               /\ total' = f.total + 1
               /\ freeTotal' = f.free + 1
               /\ freeOf' = [f.of EXCEPT ![a] = @ + 1]
               /\ tracker' = [t \in Tx |-> IF t \in invalid THEN tracked[t] ELSE TrackBlock(body)[t]]
               /\ told' = [t \in Tx |-> IF t \in invalid THEN "FAILED" ELSE TellBlock(body)[t]]
  /\ UNCHANGED <<front, final, finalized, now>>

-----------------------------------------------------------------------------
(* Finalization.                                                           *)

\* Mutants for the runs: only the transactions of the block leave; only those before them.
LeavesInBlockOnly(body, t) == t \in body.txs \cup body.votes
LeavesEarlierOnly(body, t) ==
  \/ t \in body.votes
  \/ /\ t \in Ordered
     /\ \E u \in body.txs \ Unordered : AddressOf[u] = AddressOf[t] /\ OrderOf[t] < OrderOf[u]

\* updateTxPoolWithTxHashSet: what is in the block, or has had its turn.
Leaves(body, t) ==
  \/ t \in body.txs \cup body.votes
  \/ /\ t \in Ordered
     /\ \E u \in body.txs \ Unordered : AddressOf[u] = AddressOf[t] /\ OrderOf[t] <= OrderOf[u]

\* A mutant for the runs: what timed out stays in the pool.
NothingTimesOut(S, time) == {}

\* removeTimedOutTxsFromPool.
TimedOut(S, time) == {t \in S : IsTimedOut(created[t], time, PoolTimeout)}

(***************************************************************************)
(* One block becomes final (tryFinalizeChain): cleanUpForFinalizedBlock,   *)
(* node.db moves to the final state and the transactions of the pool are   *)
(* executed on it again (UPDATE_NEW_FINAL_FRONT_DB_WITH_TX_POOL).  Blocks  *)
(* of other branches are dropped.                                          *)
(***************************************************************************)
Finalize(body) ==
  /\ <<body>> \in blocks
  /\ LET accounts == AccountsAfter(final, body.txs \ body.failed)
         stays    == {t \in Pooled : ~Leaves(body, t)}
         late     == TimedOut(stays, body.at)
         settled  == [t \in Tx |->
                        CASE t \in body.failed -> [state |-> "REVERTED", at |-> now]
                          [] t \in body.txs \cup body.votes -> [state |-> "FINALIZED", at |-> now]
                          [] OTHER -> tracker[t]]
         expired  == {t \in Tx : IsTimedOut(settled[t].at, body.at, TrackerTimeout)}
         timed    == [t \in Tx |->
                        CASE t \in expired -> Untracked
                          [] t \in late \ expired /\ settled[t].state \notin InBlock \cup {"none"} ->
                               [settled[t] EXCEPT !.state = "TIMED_OUT"]
                          [] OTHER -> settled[t]]
     IN  \E S \in SUBSET Candidates(accounts, UserTx \ (stays \ late)) :
         \E valid \in SUBSET S : \E bad \in SUBSET valid :
           /\ Outcome(accounts, S, valid, bad)
           /\ LET invalid == S \ valid
              IN  /\ Keep((stays \ late) \ invalid)
                  /\ tracker' = [t \in Tx |->
                       IF t \in invalid /\ timed[t].state \notin InBlock \cup {"none"}
                       THEN [timed[t] EXCEPT !.state = "FAILED"] ELSE timed[t]]
                  /\ told' = [t \in Tx |->
                       CASE t \in invalid -> "FAILED"
                         [] t \in late -> "TIMED_OUT"
                         [] t \in body.txs \cup body.votes -> settled[t].state
                         [] OTHER -> told[t]]
           /\ front' = AccountsAfter(accounts, valid \ bad)
           /\ final' = accounts
  /\ blocks' = {Tail(p) : p \in {q \in blocks : Head(q) = body}} \ {<<>>}
  /\ finalized' = finalized \cup (body.txs \ body.failed) \cup body.votes
  /\ UNCHANGED <<created, now>>

\* cleanUpConsensusTxs for what the block pool forgets (cleanUpForBlockHash).
CleanUpConsensusTxs(S) ==
  /\ S # {} /\ S \subseteq Pooled \cap ConsensusTx
  /\ \A p \in blocks : \A b \in Range(p) : b.proposal \notin S
  /\ Keep(Tx \ S)
  /\ UNCHANGED <<tracker, created, front, final, blocks, finalized, told, now>>

Tick ==
  /\ now < MaxTime
  /\ now' = now + 1
  /\ UNCHANGED <<pool, tracker, total, freeTotal, freeOf, created, front, final,
                 blocks, finalized, told>>

Seen == {t \in Tx : told[t] # "none"}
MayCome(t) == \E G \in Together : Seen \cup {t} \subseteq G

\* The bodies of blocks now: a peer's may hold transactions that this node has not.
BodyNow ==
  UNION {UNION {[txs : {T}, failed : SUBSET T, proposal : ConsensusTx \cap G,
                 votes : {V \in SUBSET (ConsensusTx \cap G) : Cardinality(V) <= 1}, at : {now}] :
                   T \in {U \in SUBSET (UserTx \cap G) : Cardinality(U) <= MaxTxs}} :
           G \in {H \in Together : Seen \subseteq H}}

Next ==
  \/ \E t \in UserTx, succeeds \in BOOLEAN : MayCome(t) /\ Submit(t, succeeds)
  \/ \E t \in ConsensusTx : MayCome(t) /\ AddConsensusTx(t)
  \/ /\ Cardinality(blocks) < MaxBlocks
     /\ \E body \in BodyNow : \E path \in Paths :
          ReceiveBlock(path, body) \/ Propose(path, body)
  \/ \E path \in blocks : Finalize(path[1])
  \/ \E S \in SUBSET ConsensusTx : CleanUpConsensusTxs(S)
  \/ Tick

Spec == Init /\ [][Next]_vars

-----------------------------------------------------------------------------
TypeOK ==
  /\ pool \in [Address -> Seq(Tx)]
  /\ \A t \in Tx : tracker[t].state \in TxState \cup {"none"} /\ tracker[t].at \in 0 .. MaxTime
  /\ total \in Nat /\ freeTotal \in Nat /\ freeOf \in [Address -> Nat]
  /\ created \in [Tx -> 0 .. MaxTime]
  /\ front \in [Address -> Nat] /\ final \in [Address -> Nat]
  /\ \A p \in blocks : p \in Seq(Body) /\ p # <<>>
  /\ finalized \subseteq Tx
  /\ told \in [Tx -> TxState \cup {"none"}]
  /\ now \in 0 .. MaxTime

(***************************************************************************)
(* The counters agree with the lists, after every mixture of additions,    *)
(* blocks, clean-ups and timeouts (updateTxListAndCounts).  The pool takes *)
(* no transaction when they are too large, and too many when too small.    *)
(***************************************************************************)
CountsAreExact ==
  /\ total = SizeOf(pool)
  /\ freeOf = [a \in Address |-> FreeIn(pool[a])]
  /\ freeTotal = FoldFunction(+, 0, freeOf)

(***************************************************************************)
(* What is settled has left the pool: a proposer would select it again     *)
(* (cleanUpForFinalizedBlock, removeInvalidTxsFromPool,                    *)
(* removeTimedOutTxsFromPool).  A final transaction that has a turn never  *)
(* comes back; an unordered one does when it is sent again after the       *)
(* tracker forgot it.                                                      *)
(***************************************************************************)
SettledIsGone ==
  /\ \A t \in Pooled \cap UserTx : tracker[t].state \notin {"FINALIZED", "FAILED", "TIMED_OUT"}
  /\ Pooled \cap Ordered \cap finalized = {}

(***************************************************************************)
(* A transaction in the pool that has a turn has it still to come on the   *)
(* final chain: otherwise it fills the pool until it times out             *)
(* (updateTxPoolWithTxHashSet).                                            *)
(***************************************************************************)
PoolIsNotStale ==
  \A t \in Pooled \cap Ordered :
    IF AddressOf[t] \in Numbered THEN OrderOf[t] >= final[AddressOf[t]]
                                 ELSE OrderOf[t] > final[AddressOf[t]]

(***************************************************************************)
(* The tracker knows all that is in the pool, although it expires by a     *)
(* clock of its own: a client can ask for it (getTransactionByHash) and it *)
(* is not accepted a second time.                                          *)
(***************************************************************************)
PoolIsTracked == \A t \in Pooled : tracker[t].state # "none"

(***************************************************************************)
(* The pool holds no transaction of a user twice, so that no block of this *)
(* node has it twice (isNotEligibleTransaction).                           *)
(***************************************************************************)
OncePerPool ==
  \A a \in Address : \A i, j \in DOMAIN pool[a] :
    pool[a][i] = pool[a][j] /\ pool[a][i] \in UserTx => i = j

=============================================================================
