------------------------------- MODULE Ledger -------------------------------
(***************************************************************************)
(* The balances of the accounts and the only operation that changes them:  *)
(* a value written to transfer/$from/$to/$key/value, which triggers the    *)
(* built-in function _transfer.  Every other built-in function that moves  *)
(* tokens (stakes, payments, escrows, check-ins, check-outs, rewards) sets *)
(* such a value; the modules of those functions extend this one.           *)
(*                                                                         *)
(* A database is a record with at least the fields bal (the balance of     *)
(* every account; an account that does not exist has 0) and sent (the keys *)
(* of the transfer records).  Amounts are in units of 10^-6, the smallest  *)
(* transfer the write rule admits, hence integers.  A function that fails  *)
(* makes the transaction fail, whose effects are rolled back: an operation *)
(* yields the next database or Failed.                                     *)
(***************************************************************************)
EXTENDS Integers, FiniteSets, FiniteSetsExt

CONSTANTS
  Failed   \* the outcome of a transaction that is rolled back

\* A transfer that is admitted whatever the sender has
MayOverdraw(db, from, to, amount, key) ==
  /\ <<from, to, key>> \notin db.sent
  /\ from # to
  /\ amount > 0

\* The write rule of transfer/$from/$to/$key/value
MayTransfer(db, from, to, amount, key) ==
  /\ <<from, to, key>> \notin db.sent
  /\ from # to
  /\ amount > 0
  /\ db.bal[from] >= amount

\* A transfer that forgets to take the amount from the sender
MovedTwice(db, from, to, amount, key) ==
  [db EXCEPT !.bal[to] = @ + amount,
             !.sent = @ \cup {<<from, to, key>>}]

\* _transfer: dec the balance of the one account, inc that of the other
Moved(db, from, to, amount, key) ==
  [db EXCEPT !.bal[from] = @ - amount,
             !.bal[to] = @ + amount,
             !.sent = @ \cup {<<from, to, key>>}]

Transfer(db, from, to, amount, key) ==
  IF MayTransfer(db, from, to, amount, key)
    THEN Moved(db, from, to, amount, key)
    ELSE Failed

\* The sum of f over S
Total(f, S) == MapThenSumSet(LAMBDA x : f[x], S)

-----------------------------------------------------------------------------
(* What transactions do to a database, for the modules that extend this    *)
(* one: a failed operation leaves the database as it was.                  *)
After(db, result) == IF result = Failed THEN db ELSE result
=============================================================================
