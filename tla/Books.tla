------------------------------- MODULE Books -------------------------------
(***************************************************************************)
(* What the built-in functions and the executor keep books of: stakes, the *)
(* token bridge, payments and escrows, fees and rewards, and the bytes of  *)
(* state that apps may use.  None of them calls another here, so that only *)
(* one of them, part, takes steps; the others stay as they were at first.  *)
(* The database has more parts than these: part may name one of them.      *)
(***************************************************************************)
EXTENDS Integers, FiniteSets, Sequences

CONSTANTS
  Failed, None,
  User,   \* the users of the bridge, of payments, of fees and of budgets
  \* Staking
  Staker, Service, Consensus, StakerFunds, StakedAmounts, Lockups, Extension,
  MaxOffenses, MaxClock,
  \* TokenBridge
  Sender, Pool, BridgeFunds, BridgeAmounts, FeeRates,
  MinPerRequest, MaxPerRequest, MaxPerDay, MaxRequests, MaxDay,
  \* Payments
  PayingApp, Payee, AdminGroup, Escrow, PayFunds, PayAmounts, Ratios, MaxTime,
  \* Fees
  Validator, Billing, GasFees, PayerFunds, FeeAmounts, Price, Gas, Coin, RewardShare,
  RewardRate, Votes, MaxTxs, MaxBlocks,
  \* Budgets
  App, Sizes, StakeAmounts, TreeLimit, ServiceBudget, AppsBudget, FreeBudget, MaxNonce

VARIABLES
  part,
  stakeDb, stakeClock, stakeGiven, stakePromised,
  bridgeDb, bridgeConfig, bridgeDay, bridgeOpened, bridgeFees,
  payDb, payTime,
  feeDb, feeCost, feeLast, feePaid, feeTxs, feeBlocks,
  budgetDb, budgetCache

-----------------------------------------------------------------------------
Stakes == INSTANCE Staking
  WITH User <- Staker, Funds <- StakerFunds, Amounts <- StakedAmounts, MaxTime <- MaxClock,
       db <- stakeDb, clock <- stakeClock, given <- stakeGiven, promised <- stakePromised

ASSUME StakesAreAssumed == Stakes!StakesAreAssumed /\ Stakes!ClockIsAssumed

Bridge == INSTANCE TokenBridge
  WITH Funds <- BridgeFunds, Amounts <- BridgeAmounts,
       db <- bridgeDb, config <- bridgeConfig, day <- bridgeDay, opened <- bridgeOpened, fees <- bridgeFees

ASSUME BridgeIsAssumed == Bridge!BridgeIsAssumed

Pay == INSTANCE Payments
  WITH App <- PayingApp, Group <- AdminGroup, Funds <- PayFunds, Amounts <- PayAmounts, db <- payDb, time <- payTime

ASSUME PaymentsAreAssumed == Pay!PayAssumption

Fee == INSTANCE Fees
  WITH Funds <- PayerFunds, Amounts <- FeeAmounts, Share <- RewardShare,
       db <- feeDb, cost <- feeCost, last <- feeLast, paid <- feePaid, txs <- feeTxs, blocks <- feeBlocks

ASSUME FeesAreAssumed == Fee!FeeAssumption

\* Transactions of one operation, on a node that computes proof hashes
Budget == INSTANCE Budgets
  WITH MaxOps <- 1, Lightweight <- FALSE, db <- budgetDb, cache <- budgetCache

ASSUME BudgetsAreAssumed == Budget!BudgetAssumption

-----------------------------------------------------------------------------
stakeVars == <<stakeDb, stakeClock, stakeGiven, stakePromised>>
bridgeVars == <<bridgeDb, bridgeConfig, bridgeDay, bridgeOpened, bridgeFees>>
payVars == <<payDb, payTime>>
feeVars == <<feeDb, feeCost, feeLast, feePaid, feeTxs, feeBlocks>>
budgetVars == <<budgetDb, budgetCache>>
booksVars == <<part, stakeVars, bridgeVars, payVars, feeVars, budgetVars>>

\* What the part that takes steps leaves alone
BooksOnly(p) ==
  /\ part = p
  /\ UNCHANGED part
  /\ IF p = "staking" THEN TRUE ELSE UNCHANGED stakeVars
  /\ IF p = "bridge" THEN TRUE ELSE UNCHANGED bridgeVars
  /\ IF p = "payments" THEN TRUE ELSE UNCHANGED payVars
  /\ IF p = "fees" THEN TRUE ELSE UNCHANGED feeVars
  /\ IF p = "budgets" THEN TRUE ELSE UNCHANGED budgetVars

BooksInit == Stakes!Init /\ Bridge!Init /\ Pay!Init /\ Fee!Init /\ Budget!Init

BooksNext ==
  \/ BooksOnly("staking") /\ Stakes!Next
  \/ BooksOnly("bridge") /\ Bridge!Next
  \/ BooksOnly("payments") /\ Pay!Next
  \/ BooksOnly("fees") /\ Fee!Next
  \/ BooksOnly("budgets") /\ Budget!Next

BooksSpec == BooksInit /\ [][BooksNext]_booksVars

-----------------------------------------------------------------------------
(* Properties.  A part that does not run changes nothing, so that what     *)
(* holds of one part is stated of all at once.                             *)

(* The type invariants of the parts, with what each says of balances that  *)
(* are never negative and of tokens that are neither made nor lost.        *)
TypeOK == Stakes!TypeOK /\ Bridge!TypeOK /\ Pay!TypeOK /\ Fee!TypeOK /\ Budget!TypeOK

(* Amounts that are kept apart from what they sum up agree with it: the    *)
(* totals of stakes with the staking accounts, the extensions of lock-ups  *)
(* with the offenses, pending amounts with the open requests, the balance  *)
(* of the pools with every request that was closed, whichever way, and     *)
(* rewards with the gas of the blocks and what was claimed.                *)
BooksBalance ==
  /\ Stakes!Conserved /\ Stakes!StakesAddUp /\ Stakes!OffensesAreSummed
  /\ Bridge!PendingIsOpen /\ Bridge!BooksBalance
  /\ Fee!RewardsAddUp

(* Limits that are checked at one time and used up at another are kept:    *)
(* the daily limit of check-outs, the fees of a block, the budgets of the  *)
(* services, of all apps and of the tree.                                  *)
LimitsAreKept == Bridge!DailyLimitKept /\ Fee!NeverTooMuch /\ Budget!BudgetsKept

(* No step takes what it may not: staked tokens leave after every lock-up  *)
(* that was agreed to, an escrow pays out as a whole, a billing account    *)
(* pays only for a user it still lists, an app grows only into room that   *)
(* is there after the step, and an effect uses up its nonce.               *)
StepsAreCovered ==
  /\ Stakes!LockupsAreKept
  /\ Pay!ReleasesAreWhole
  /\ Fee!BillingAgrees
  /\ Budget!GrowthHasRoom
  /\ Budget!EffectsUseNonce
=============================================================================
