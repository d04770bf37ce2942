------------------------------ MODULE Staking ------------------------------
(***************************************************************************)
(* The stakes of one database: one transaction after another is executed,  *)
(* at a wall-clock time that is never before the time of its block.        *)
(***************************************************************************)
EXTENDS StakeFunctions

CONSTANTS
  MaxOffenses,   \* bound on the offenses of a user
  MaxTime        \* bound on the clock

ClockIsAssumed == MaxTime \in Nat \ {0}

VARIABLES
  db,         \* the database
  clock,      \* the wall clock
  given,      \* history: what transfers put on the staking accounts of a service
  promised    \* history: until when the stakers of an account agreed to a lock-up
vars == <<db, clock, given, promised>>

Init ==
  /\ db = Genesis
  /\ clock = 1
  /\ given = [s \in Service |-> 0]
  /\ promised = [a \in Stakes |-> 0]

\* The key of a transfer is the timestamp of its transaction: here it is the time of
\* the block, so that two transfers of the same block have the same key.
Execute(tx) ==
  \E blockTime \in {clock - 1, clock} :
    LET result == Apply(db, tx, blockTime, blockTime, clock)
    IN  /\ result # Failed
        /\ tx.op = "propose" => result.offenses[tx.offender] <= MaxOffenses
        /\ db' = result
        /\ given' = IF tx.op = "transfer" /\ tx.to \in Stakes
                      THEN [given EXCEPT ![tx.to[1]] = @ + tx.amount] ELSE given
        /\ promised' = IF tx.op = "stake"
                         THEN [promised EXCEPT ![tx.stake] =
                                 Max({@, blockTime + db.lockup[tx.stake[1]]})]
                         ELSE promised
        /\ UNCHANGED clock

TransferTokens == \E tx \in Tx : tx.op = "transfer" /\ Execute(tx)
StakeTokens == \E tx \in Tx : tx.op = "stake" /\ Execute(tx)
UnstakeTokens == \E tx \in Tx : tx.op = "unstake" /\ Execute(tx)
SetLockup == \E tx \in Tx : tx.op = "lockup" /\ Execute(tx)
ProposeWithOffenses == \E tx \in Tx : tx.op = "propose" /\ Execute(tx)

Tick ==
  /\ clock < MaxTime
  /\ clock' = clock + 1
  /\ UNCHANGED <<db, given, promised>>

Next == TransferTokens \/ StakeTokens \/ UnstakeTokens \/ SetLockup \/ ProposeWithOffenses \/ Tick

Spec == Init /\ [][Next]_vars

-----------------------------------------------------------------------------
(* Type invariant: no balance is ever negative, whatever order transfers,  *)
(* stakes and withdrawals come in.                                         *)
TypeOK ==
  /\ \A a \in Account : db.bal[a] \in Nat
  /\ \A a \in Stakes : db.expire[a] \in Nat
  /\ \A s \in Service : db.total[s] \in Int
  /\ db.sum \in Int \cup {None}
  /\ clock \in 1..MaxTime

(* Tokens are neither made nor lost by transfers, stakes and withdrawals.  *)
Conserved == Total(db.bal, Account) = Funds * Cardinality(User)

(* balance_total of a service is what is on its staking accounts, except   *)
(* for what came there by plain transfers, which no total counts; and      *)
(* balance_total_sum, created with the first stake, is the sum of the      *)
(* totals from then on.                                                    *)
StakesAddUp ==
  /\ \A s \in Service : Total(db.bal, StakesOf(s)) = db.total[s] + given[s]
  /\ db.sum # None => db.sum = SumOfTotals(db)

(* Staked tokens leave only when every lock-up agreed to has ended, also   *)
(* those of a time when the lock-up duration of the service was longer.    *)
LockupsAreKept ==
  [][\A a \in Stakes : db'.bal[a] < db.bal[a] => promised[a] <= clock]_vars

(* However offenses are grouped into proposals, k of them lock the stake   *)
(* for Extension * (2^k - 1) more.                                         *)
OffensesAreSummed ==
  \A u \in User :
    db.expire[<<Consensus, u>>] >= Extension * (TwoTo(db.offenses[u]) - 1)
=============================================================================
