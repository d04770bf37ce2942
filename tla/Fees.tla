-------------------------------- MODULE Fees --------------------------------
(***************************************************************************)
(* Gas fees and rewards.  A transaction is executed, then its fee is       *)
(* collected to the gas fee account, then what it did is rolled back if it *)
(* failed.  A block records what its transactions were charged; when the   *)
(* next block is started, the proposal and the votes of the last one are   *)
(* executed, which gives the fees of the block before to those who voted   *)
(* for it, by their stakes, and they claim them whenever they like.        *)
(*                                                                         *)
(* Balances and fees are in units of 10^-6, Coin of them in a whole coin;  *)
(* rewards, which are not rounded, are in Share-ths of a unit, so that the *)
(* parts of a fee are whole numbers.                                       *)
(***************************************************************************)
EXTENDS Ledger, Sequences

CONSTANTS
  User,
  Validator,
  Billing,      \* billing accounts
  GasFees,      \* the account the fees are collected on
  Funds,        \* balance of each user and billing account at first
  Amounts,      \* amounts that are transferred and claimed
  Price,        \* gas price: units of 10^-6 for a unit of gas
  Gas,          \* what transactions use: [bandwidth, state]
  Coin, Share,
  RewardRate,   \* the reward of a block for a unit of stake
  Votes,        \* the votes a block may have: [validator, stake] by number
  MaxTxs,       \* bound on the transactions of the chain
  MaxBlocks     \* bound on the blocks

Payer == User \cup Billing
Account == Payer \cup Validator \cup {GasFees}

FeeAssumption ==
  /\ IsFiniteSet(User) /\ IsFiniteSet(Billing) /\ IsFiniteSet(Validator)
  /\ User \cap Billing = {} /\ GasFees \notin Payer \cup Validator
  /\ Funds \in Nat /\ Amounts \subseteq Nat /\ Price \in Nat
  /\ Gas \subseteq [bandwidth : Nat, state : Nat]
  /\ Coin \in Nat \ {0} /\ Share \in Nat /\ RewardRate \in Nat
  /\ Votes \subseteq Seq([validator : Validator, stake : Nat \ {0}]) \ {<<>>}

VARIABLES
  db,       \* balances, the users of billing accounts, rewards
  cost,     \* gas_cost_total of the block that is being made
  last,     \* the last block: its gas_cost_total, and the votes for it
  paid,     \* history: what was charged in finished blocks, distributed and claimed
  txs,      \* history: how many transactions there were
  blocks    \* history: how many blocks were finished
vars == <<db, cost, last, paid, txs, blocks>>

Init ==
  /\ db = [bal |-> [a \in Account |-> IF a \in Payer THEN Funds ELSE 0],
           sent |-> {},
           users |-> [b \in Billing |-> User],
           unclaimed |-> [v \in Validator |-> 0],
           cumulative |-> [v \in Validator |-> 0]]
  /\ cost = 0
  /\ last = [cost |-> 0, votes |-> <<>>]
  /\ paid = [charged |-> 0, distributed |-> 0, rewards |-> 0, claimed |-> [v \in Validator |-> 0]]
  /\ txs = 0
  /\ blocks = 0

\* getTotalGasCost
CostOf(gas) == Price * gas

\* The billing account pays, whomever it lists
BilledToNamed(d, u, billing) == IF billing \in Billing THEN billing ELSE u

\* Who pays: the billing account, as long as it lists the user, or the user
BilledTo(d, u, billing) == IF billing \in Billing /\ u \in d.users[billing] THEN billing ELSE u

\* _collectFee, triggered by a value at gas_fee/collect, which is admitted when the
\* account has the amount
Collected(d, from, amount) ==
  IF amount > 0 THEN Transfer(d, from, GasFees, amount, <<"fee", txs>>) ELSE d

\* What a user does with a transaction: a transfer, or leaving a billing account
Operate(u, op) ==
  IF op.type = "transfer" THEN Transfer(db, u, op.to, op.amount, txs)
  ELSE [db EXCEPT !.users[op.billing] = @ \ {u}]

\* A fee that only the balance limits: what the account has, but not more than the bandwidth
FeeOfThePoor(balance, gas) == Min({CostOf(balance) \div Coin, CostOf(gas.bandwidth)})

\* A record of what was charged that leaves out the state
ChargedBandwidth(u, billing, result, gas) ==
  LET d == After(db, result)
      from == BilledTo(d, u, billing)
      wanted == CostOf(gas.bandwidth + IF result = Failed THEN 0 ELSE gas.state)
      low == d.bal[from] < wanted
      fee == IF low THEN FeeOfThePoor(db.bal[from], gas) ELSE wanted
  IN  [fee |-> Min({fee, CostOf(gas.bandwidth)}),
       db |-> IF low THEN Collected(db, from, fee)
              ELSE IF result = Failed THEN db
              ELSE Collected(d, from, fee)]

\* executeTransaction, after the operation: collectFee, and what is left in the end.
\* A transaction that cannot pay is rolled back before its fee is collected, one that
\* failed is rolled back after it was, with the fee.
Charged(u, billing, result, gas) ==
  LET d == After(db, result)
      from == BilledTo(d, u, billing)
      wanted == CostOf(gas.bandwidth + IF result = Failed THEN 0 ELSE gas.state)
      low == d.bal[from] < wanted
      fee == IF low THEN FeeOfThePoor(db.bal[from], gas) ELSE wanted
  IN  [fee |-> fee, db |-> IF low THEN Collected(db, from, fee)
                           ELSE IF result = Failed THEN db
                           ELSE Collected(d, from, fee)]

\* A transaction of the block; the precheck wants the user on the list of the billing account
ExecuteTx(u, billing, op, gas) ==
  /\ txs < MaxTxs
  /\ billing \in Billing => u \in db.users[billing]
  /\ LET result == Charged(u, billing, Operate(u, op), gas)
     IN  /\ result.db # Failed
         /\ db' = result.db
         /\ cost' = cost + result.fee
  /\ txs' = txs + 1
  /\ UNCHANGED <<last, paid, blocks>>

\* The fee of the validator whose vote is the n-th, by stake; the last one gets the rest
FeeShare(votes, n, total) ==
  LET ns == DOMAIN votes
      atStake == Total([i \in ns |-> votes[i].stake], ns)
      parts == [i \in ns |-> (total * Share * votes[i].stake) \div atStake]
  IN  IF n < Cardinality(ns) THEN parts[n]
      ELSE total * Share - Total(parts, ns \ {n})

\* Rewards that forget what the validator has not claimed yet
RewardedAnew(d, v, amount) ==
  [d EXCEPT !.unclaimed[v] = amount, !.cumulative[v] = @ + amount]

\* incrementConsensusRewards
Rewarded(d, v, amount) ==
  [d EXCEPT !.unclaimed[v] = @ + amount, !.cumulative[v] = @ + amount]

\* _distributeFee
Distributed(d) ==
  FoldSet(LAMBDA n, acc :
            Rewarded(acc, last.votes[n].validator,
                     FeeShare(last.votes, n, last.cost) + RewardRate * last.votes[n].stake),
          d, DOMAIN last.votes)

\* What a block rewards its voters with, beside the fees
RewardsOf(votes) == Total([n \in DOMAIN votes |-> RewardRate * votes[n].stake], DOMAIN votes)

\* The next block is started: the proposal of the finished one distributes the fees of
\* the one before, and the votes for the finished one are recorded
NextBlock(votes) ==
  /\ blocks < MaxBlocks
  /\ blocks' = blocks + 1
  /\ db' = Distributed(db)
  /\ last' = [cost |-> cost, votes |-> votes]
  /\ paid' = [paid EXCEPT !.charged = @ + cost,
                          !.distributed = @ + last.cost,
                          !.rewards = @ + RewardsOf(last.votes)]
  /\ cost' = 0
  /\ UNCHANGED txs

\* What is left of the unclaimed rewards
Taken(d, v, amount) == [d EXCEPT !.unclaimed[v] = @ - amount * Share]

\* _claimReward: a transaction without a fee (its gas price is 0)
ClaimReward(v, amount) ==
  LET result == Transfer(db, GasFees, v, amount, <<"claim", txs>>)
  IN  /\ txs < MaxTxs
      /\ amount * Share <= db.unclaimed[v]
      /\ result # Failed
      /\ db' = Taken(result, v, amount)
      /\ paid' = [paid EXCEPT !.claimed[v] = @ + amount]
      /\ txs' = txs + 1
      /\ UNCHANGED <<cost, last, blocks>>

Op == [type : {"transfer"}, to : Payer, amount : Amounts] \cup [type : {"leave"}, billing : Billing]

Next ==
  \/ \E u \in User, b \in Billing \cup {GasFees}, op \in Op, gas \in Gas : ExecuteTx(u, b, op, gas)
  \/ \E votes \in Votes : NextBlock(votes)
  \/ \E v \in Validator, amount \in Amounts : ClaimReward(v, amount)

Spec == Init /\ [][Next]_vars

-----------------------------------------------------------------------------
Claimed == Total(paid.claimed, Validator)
CollectedFees == db.bal[GasFees] + Claimed

(* Type invariant, with: no balance and no reward is ever negative, and no *)
(* tokens are made or lost by fees, rewards and claims.                    *)
TypeOK ==
  /\ \A a \in Account : db.bal[a] \in Nat
  /\ \A v \in Validator : db.unclaimed[v] \in Nat /\ db.cumulative[v] \in Nat
  /\ db.users \in [Billing -> SUBSET User]
  /\ Total(db.bal, Account) = Funds * Cardinality(Payer)

(* The rewards are what the blocks were charged, to the last part however  *)
(* the stakes divide it, and what a validator was given is what is         *)
(* unclaimed and what was claimed.                                         *)
RewardsAddUp ==
  /\ Total(db.cumulative, Validator) = Share * paid.distributed + paid.rewards
  /\ \A v \in Validator : db.cumulative[v] = db.unclaimed[v] + Share * paid.claimed[v]

(* Never is more collected than is charged in the blocks, even when a      *)
(* transaction cannot pay, or changes who pays for it.                     *)
NeverTooMuch == CollectedFees <= paid.charged + cost

(* A billing account pays for a transaction only as long as it lists its   *)
(* user: not for the one with which the user is taken off the list.        *)
BillingAgrees ==
  [][\A b \in Billing : db'.bal[b] < db.bal[b] => db'.users[b] = db.users[b]]_vars
=============================================================================
