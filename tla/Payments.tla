------------------------------ MODULE Payments ------------------------------
(***************************************************************************)
(* Apps, payments and escrows: the built-in functions _createApp, _pay,    *)
(* _claim, _hold and _release with the write rules of the values that      *)
(* trigger them.  The admins of an app pay into payment accounts, one for  *)
(* each user, and claim from them, directly or through an escrow; an       *)
(* escrow is opened for a source and a target account, and its admins      *)
(* release what it holds, in parts, to the target and back to the source.  *)
(*                                                                         *)
(* Functions trigger each other: _claim may trigger _hold, and every one   *)
(* of them triggers _transfer, at the timestamp of the transaction.  When  *)
(* one of them fails, so does the transaction, as a whole.                 *)
(***************************************************************************)
EXTENDS Ledger

CONSTANTS
  User,
  App,
  Payee,     \* the users that have payment accounts
  Group,     \* sets of users that become the admins of an app or an escrow
  Escrow,    \* the escrows: pairs of a source and a target account
  Funds,     \* balance of each user at first
  Amounts,   \* amounts that are paid, claimed and held
  Ratios,    \* ratios of releases, in percent
  MaxTime    \* bound on the timestamps

Payment == [app : App, user : Payee]   \* payments|app|user|key
Source == User \cup Payment
Account == Source \cup Escrow

PayAssumption ==
  /\ IsFiniteSet(User) /\ IsFiniteSet(Payment) /\ IsFiniteSet(Escrow)
  /\ Escrow \subseteq [source : Source, target : Source]
  /\ User \cap Payment = {} /\ Source \cap Escrow = {}
  /\ Group \subseteq SUBSET User
  /\ Funds \in Nat /\ Amounts \subseteq Nat /\ Ratios \subseteq 0..100 /\ MaxTime \in Nat \ {0}

VARIABLES
  db,      \* balances, the admins of apps and escrows, and the records of holds
  time     \* time of the last block, and timestamp of its transactions
vars == <<db, time>>

Init ==
  /\ db = [bal |-> [a \in Account |-> IF a \in User THEN Funds ELSE 0],
           sent |-> {},
           admins |-> [a \in App |-> {}],
           keepers |-> [e \in Escrow |-> {}],
           holds |-> {}]
  /\ time = 1

Commit(result) ==
  /\ result # Failed
  /\ db' = result
  /\ UNCHANGED time

IsAdmin(u, a) == u \in db.admins[a]

\* _createApp: an app that has no configuration yet
CreateApp(a, admins) ==
  /\ db.admins[a] = {}
  /\ Commit([db EXCEPT !.admins[a] = admins])

\* _pay: the admin who signs pays
Pay(u, p, amount) ==
  /\ IsAdmin(u, p.app)
  /\ Commit(Transfer(db, u, p, amount, time))

\* Whether u may write a hold record of e
MayHold(u, e) ==
  /\ IF e.source \in Payment THEN IsAdmin(u, e.source.app) ELSE u = e.source
  /\ db.keepers[e] # {}

\* _hold, triggered by a record of its own
Held(e, amount, record) ==
  IF <<e, record>> \in db.holds THEN Failed
  ELSE Transfer([db EXCEPT !.holds = @ \cup {<<e, record>>}], e.source, e, amount, time)

Hold(u, e, amount) ==
  /\ MayHold(u, e)
  /\ Commit(Held(e, amount, <<"own", time>>))

\* _claim: to an account, or to the escrow the record is to be held in
Claim(u, p, target, amount) ==
  /\ IsAdmin(u, p.app)
  /\ Commit(Transfer(db, p, target, amount, time))

ClaimInEscrow(u, p, target, amount) ==
  LET e == [source |-> p, target |-> target]
  IN  /\ IsAdmin(u, p.app)
      /\ e \in Escrow
      /\ MayHold(u, e)
      /\ Commit(Held(e, amount, <<"claim", time>>))

\* The configuration of an escrow: anybody may write the first one
OpenEscrow(u, e, keepers) ==
  /\ db.keepers[e] = {} \/ u \in db.keepers[e]
  /\ db.keepers[e] # keepers
  /\ Commit([db EXCEPT !.keepers[e] = keepers])

\* The amount that goes to the target, when the ledger can express it
Share(e, ratio) == (db.bal[e] * ratio) \div 100
IsExact(e, ratio) == (db.bal[e] * ratio) % 100 = 0

\* A part, unless there is nothing to transfer
Part(d, e, to, amount) == IF amount > 0 THEN Transfer(d, e, to, amount, time) ELSE d

\* A release that keeps the first transfer when the second one fails
ReleasedInPart(e, ratio) ==
  LET toTarget == IF IsExact(e, ratio) THEN Part(db, e, e.target, Share(e, ratio)) ELSE Failed
      both == IF toTarget = Failed THEN Failed
              ELSE Part(toTarget, e, e.source, toTarget.bal[e])
  IN  IF both = Failed THEN toTarget ELSE both

\* _release
Released(e, ratio) ==
  LET toTarget == IF IsExact(e, ratio) THEN Part(db, e, e.target, Share(e, ratio)) ELSE Failed
  IN  IF toTarget = Failed THEN Failed
      ELSE Part(toTarget, e, e.source, db.bal[e] - Share(e, ratio))

Release(u, e, ratio) ==
  /\ u \in db.keepers[e]
  /\ Commit(Released(e, ratio))

NextBlock ==
  /\ time < MaxTime
  /\ time' = time + 1
  /\ UNCHANGED db

Next ==
  \/ \E a \in App, admins \in Group : CreateApp(a, admins)
  \/ \E u \in User, p \in Payment, amount \in Amounts : Pay(u, p, amount)
  \/ \E u \in User, p \in Payment, t \in Source, amount \in Amounts : Claim(u, p, t, amount)
  \/ \E u \in User, p \in Payment, t \in User, amount \in Amounts : ClaimInEscrow(u, p, t, amount)
  \/ \E u \in User, e \in Escrow, k \in Group : OpenEscrow(u, e, k)
  \/ \E u \in User, e \in Escrow, amount \in Amounts : Hold(u, e, amount)
  \/ \E u \in User, e \in Escrow, ratio \in Ratios : Release(u, e, ratio)
  \/ NextBlock

Spec == Init /\ [][Next]_vars

-----------------------------------------------------------------------------
(* Type invariant, and: no tokens are made or lost on the way through      *)
(* payment and escrow accounts, none of which is ever negative.            *)
TypeOK ==
  /\ \A a \in Account : db.bal[a] \in Nat
  /\ Total(db.bal, Account) = Funds * Cardinality(User)
  /\ db.admins \in [App -> SUBSET User]
  /\ db.keepers \in [Escrow -> SUBSET User]
  /\ time \in 1..MaxTime

(* An escrow pays out everything or nothing, and only to its own two       *)
(* accounts: a release whose second transfer fails leaves no trace of the  *)
(* first ("TODO(liayoo): Revert the release to target_account if there was *)
(* any", db/functions.js:1197, is the work of the transaction's rollback). *)
ReleasesAreWhole ==
  [][\A e \in Escrow : db'.bal[e] < db.bal[e] =>
       /\ db'.bal[e] = 0
       /\ Total(db'.bal, {e.source, e.target}) = Total(db.bal, {e.source, e.target}) + db.bal[e]]_vars
=============================================================================
