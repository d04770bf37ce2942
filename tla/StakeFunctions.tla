--------------------------- MODULE StakeFunctions ---------------------------
(***************************************************************************)
(* Stakes: the built-in functions _stake, _unstake and _handleOffenses,    *)
(* and the transfers a user may make directly.  The tokens a user stakes   *)
(* for a service are on a staking account of their own, which a transfer   *)
(* reaches like any other account; balance_total and balance_total_sum are *)
(* running totals of what was staked and unstaked.                         *)
(* A transaction is executed at the time of its block (blockTime) and at   *)
(* the wall-clock time of the node that executes it (executedAt).          *)
(***************************************************************************)
EXTENDS Ledger

CONSTANTS
  User,          \* individual accounts
  Service,       \* services one can stake for
  Consensus,     \* the one whose stakes make validators
  None,          \* a value that is not set
  Funds,         \* balance of each user at first
  Amounts,       \* amounts that are transferred, staked and unstaked
  Lockups,       \* lock-up durations an admin sets
  Extension      \* stake_lockup_extension

Stakes == Service \X User          \* a user's staking account of a service (staking key 0)
Account == User \cup Stakes
StakesOf(s) == {a \in Stakes : a[1] = s}

StakesAreAssumed ==
  /\ IsFiniteSet(User) /\ IsFiniteSet(Service)
  /\ User \cap Stakes = {}
  /\ Consensus \in Service
  /\ None \notin Int
  /\ Funds \in Nat /\ Amounts \subseteq Nat /\ Lockups \subseteq Nat /\ Extension \in Nat

\* A database without stakes
Genesis ==
  [bal |-> [a \in Account |-> IF a \in User THEN Funds ELSE 0],
   sent |-> {},
   expire |-> [a \in Stakes |-> 0],
   lockup |-> [s \in Service |-> 0],
   total |-> [s \in Service |-> 0],
   sum |-> None,
   offenses |-> [u \in User |-> 0]]

\* What a transaction is
Tx == [op : {"transfer"}, from : User, to : Account, amount : Amounts]
        \cup [op : {"stake", "unstake"}, stake : Stakes, amount : Amounts \cup {0}]
        \cup [op : {"lockup"}, service : Service, duration : Lockups]
        \cup [op : {"propose"}, offender : User, new : 1..2]

\* sumUpStakingBalanceTotal
SumOfTotals(db) == Total(db.total, Service)

\* The first sum adds the amount that balance_total already has
CountedTwice(db, s, delta) ==
  LET counted == [db EXCEPT !.total[s] = @ + delta]
  IN  [counted EXCEPT !.sum = (IF @ = None THEN SumOfTotals(counted) ELSE @) + delta]

\* balance_total and, once the first stake has created it, balance_total_sum
Counted(db, s, delta) ==
  LET counted == [db EXCEPT !.total[s] = @ + delta]
  IN  [counted EXCEPT !.sum = IF @ = None THEN SumOfTotals(counted) ELSE @ + delta]

\* A lock-up that replaces a longer one
StakeForLess(db, a, amount, key, blockTime) ==
  LET renewed == blockTime + db.lockup[a[1]]
      moved == Transfer(db, a[2], a, amount, key)
  IN  IF amount = 0 THEN [db EXCEPT !.expire[a] = renewed]
      ELSE IF moved = Failed THEN Failed
      ELSE Counted([moved EXCEPT !.expire[a] = renewed], a[1], amount)

\* _stake
Stake(db, a, amount, key, blockTime) ==
  LET renewed == blockTime + db.lockup[a[1]]
      locked(d) == IF renewed > d.expire[a] THEN [d EXCEPT !.expire[a] = renewed] ELSE d
      moved == Transfer(db, a[2], a, amount, key)
  IN  IF amount = 0 /\ renewed > db.expire[a] THEN locked(db)
      ELSE IF moved = Failed THEN Failed
      ELSE Counted(locked(moved), a[1], amount)

\* _unstake
Unstake(db, a, amount, key, executedAt) ==
  LET moved == Transfer(db, a, a[2], amount, key)
  IN  IF db.expire[a] > executedAt \/ moved = Failed THEN Failed
      ELSE Counted(moved, a[1], -amount)

\* 2^n
TwoTo(n) == FoldSet(LAMBDA i, x : 2 * x, 1, 1..n)

\* An extension that counts the offenses from the latest one only
LastExtension(new, updated) == Extension * TwoTo(updated - 1)

\* getLockupExtensionForNewOffenses: the n-th offense extends by Extension * 2^(n-1)
LockupExtension(new, updated) ==
  LET offenses == (updated - new + 1)..updated
  IN  Extension * Total([n \in offenses |-> TwoTo(n - 1)], offenses)

\* _handleOffenses: the stake for Consensus of an offender is locked for longer
HandleOffenses(db, offender, new, blockTime) ==
  LET a == <<Consensus, offender>>
      updated == db.offenses[offender] + new
      current == Max({db.expire[a], blockTime})
  IN  [db EXCEPT !.offenses[offender] = updated,
                 !.expire[a] = current + LockupExtension(new, updated)]

\* The result of a transaction
Apply(db, tx, key, blockTime, executedAt) ==
  CASE tx.op = "transfer" -> Transfer(db, tx.from, tx.to, tx.amount, key)
    [] tx.op = "stake" -> Stake(db, tx.stake, tx.amount, key, blockTime)
    [] tx.op = "unstake" -> Unstake(db, tx.stake, tx.amount, key, executedAt)
    [] tx.op = "lockup" -> [db EXCEPT !.lockup[tx.service] = tx.duration]
    [] tx.op = "propose" -> HandleOffenses(db, tx.offender, tx.new, blockTime)
=============================================================================
