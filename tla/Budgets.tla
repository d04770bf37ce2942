------------------------------ MODULE Budgets ------------------------------
(***************************************************************************)
(* The bytes of state that transactions may use.  A transaction, of one    *)
(* operation or of a list of them, is executed, then what the state has    *)
(* become is compared with the budgets: of the whole tree, of services, of *)
(* apps, of each app by its stake, and of all apps without a stake (the    *)
(* free tier).  If it exceeds one, the result gets an error code, and a    *)
(* failed transaction is rolled back.                                      *)
(*                                                                         *)
(* The usage of the free tier is cached: a database keeps the usage of the *)
(* apps and the set of those with a stake together with the proof hashes   *)
(* of the parts of the state they came from, and renews either one when    *)
(* its hash has changed.  A hash stands here for what is hashed.           *)
(***************************************************************************)
EXTENDS Integers, SequencesExt

CONSTANTS
  User, App, None,
  Sizes,            \* bytes an app or a service may be given
  StakeAmounts,     \* stakes an app may be given
  TreeLimit, ServiceBudget, AppsBudget, FreeBudget,
  MaxOps,           \* operations of a transaction of several; 1 if there are none
  Lightweight,      \* whether the node computes no proof hashes
  MaxNonce          \* bound on the nonces

Op == [type : {"app"}, app : App, bytes : Sizes]
        \cup [type : {"service"}, bytes : Sizes]
        \cup [type : {"stake"}, app : App, amount : StakeAmounts]
        \cup {[type |-> "denied"]}

Tx == [list : {FALSE}, ops : [1..1 -> Op]] \cup [list : IF MaxOps > 1 THEN {TRUE} ELSE {}, ops : [1..MaxOps -> Op]]

BudgetAssumption ==
  /\ IsFiniteSet(App)
  /\ None \notin Nat \cup [App -> Nat]
  /\ Sizes \subseteq Nat /\ StakeAmounts \subseteq Nat
  /\ TreeLimit \in Nat /\ ServiceBudget \in Nat /\ AppsBudget \in Nat /\ FreeBudget \in Nat /\ MaxNonce \in Nat

VARIABLES
  db,      \* the bytes of each app and of all services, the stakes of apps, the nonces
  cache    \* appStateUsageCache, stakedAppSetCache and stateFreeTierUsageCache
vars == <<db, cache>>

Init ==
  /\ db = [apps |-> [a \in App |-> 0], service |-> 0,
           stake |-> [a \in App |-> 0], nonce |-> [u \in User |-> 0]]
  /\ cache = [usageHash |-> None, usage |-> None, stakeHash |-> None, staked |-> None, free |-> None]

SumOf(f, S) == MapThenSumSet(LAMBDA a : f[a], S)

\* executeSingleSetOperation, as far as bytes and stakes go
Executed(d, op) ==
  CASE op.type = "app" -> [d EXCEPT !.apps[op.app] = op.bytes]
    [] op.type = "service" -> [d EXCEPT !.service = op.bytes]
    [] op.type = "stake" -> [d EXCEPT !.stake[op.app] = op.amount]
    [] op.type = "denied" -> d

\* executeMultiSetOperation stops at the first operation that fails; a transaction
\* that has one is rolled back, so that it does not matter here how far it came
DeniedIn(ops) == \E i \in DOMAIN ops : ops[i].type = "denied"
ExecutedAll(d, ops) == FoldLeft(Executed, d, ops)

AppsOf(ops) == {ops[i].app : i \in {j \in DOMAIN ops : ops[j].type = "app"}}

\* The proof hash of a part of the state
Hash(part) == IF Lightweight THEN "" ELSE part

\* getStateFreeTierUsage, without the cache
FreeTier(d) == SumOf(d.apps, {a \in App : d.stake[a] = 0})

\* A cache of the free tier that is renewed with the usage only
RenewedByUsage(c, d) ==
  LET usageHash == Hash(d.apps)
      stakeHash == Hash(d.stake)
      usageIsNew == c.usageHash # usageHash
      usage == IF usageIsNew THEN d.apps ELSE c.usage
      staked == IF c.stakeHash # stakeHash THEN {a \in App : d.stake[a] > 0} ELSE c.staked
  IN  [usageHash |-> usageHash, usage |-> usage, stakeHash |-> stakeHash, staked |-> staked,
       free |-> IF usageIsNew THEN SumOf(usage, App \ staked) ELSE c.free]

\* A cache that asks for the stakes only once
RenewedButStakes(c, d) ==
  LET usageHash == Hash(d.apps)
      staked == IF c.staked = None THEN {a \in App : d.stake[a] > 0} ELSE c.staked
  IN  [usageHash |-> usageHash, usage |-> d.apps, stakeHash |-> Hash(d.stake), staked |-> staked,
       free |-> SumOf(d.apps, App \ staked)]

\* updateStateFreeTierUsageCache
Renewed(c, d) ==
  LET usageHash == Hash(d.apps)
      stakeHash == Hash(d.stake)
      usageIsNew == c.usageHash # usageHash
      stakeIsNew == c.stakeHash # stakeHash
      usage == IF usageIsNew THEN d.apps ELSE c.usage
      staked == IF stakeIsNew THEN {a \in App : d.stake[a] > 0} ELSE c.staked
  IN  [usageHash |-> usageHash, usage |-> usage, stakeHash |-> stakeHash, staked |-> staked,
       free |-> IF usageIsNew \/ stakeIsNew THEN SumOf(usage, App \ staked) ELSE c.free]

\* checkTreeHeightAndBytes, and the first two of checkStateGasBudgets
FitsTree(d) == SumOf(d.apps, App) + d.service <= TreeLimit
FitsAsAWhole(d) == d.service <= ServiceBudget /\ SumOf(d.apps, App) <= AppsBudget

\* The rest of checkStateGasBudgets: every app the transaction names
FitsByApp(d, free, apps) ==
  \A a \in apps :
    IF d.stake[a] = 0 THEN free < FreeBudget
    ELSE d.apps[a] * SumOf(d.stake, App) <= AppsBudget * d.stake[a]

\* Checks that leave services out
CheckedForApps(d, c, tx) ==
  IF ~FitsTree(d) THEN [code |-> "TREE", cache |-> c]
  ELSE IF SumOf(d.apps, App) > AppsBudget THEN [code |-> "BUDGET", cache |-> c]
  ELSE [code |-> IF FitsByApp(d, Renewed(c, d).free, AppsOf(tx.ops)) THEN "SUCCESS" ELSE "BUDGET",
        cache |-> Renewed(c, d)]

\* The checks of executeOperation, which renew the cache when they get that far
Checked(d, c, tx) ==
  IF ~FitsTree(d) THEN [code |-> "TREE", cache |-> c]
  ELSE IF ~FitsAsAWhole(d) THEN [code |-> "BUDGET", cache |-> c]
  ELSE [code |-> IF FitsByApp(d, Renewed(c, d).free, AppsOf(tx.ops)) THEN "SUCCESS" ELSE "BUDGET",
        cache |-> Renewed(c, d)]

\* isFailedTx: the result of a list of operations has failed when one of them has
IsFailed(tx, code) == IF tx.list THEN DeniedIn(tx.ops) ELSE code # "SUCCESS"

\* A nonce that is not used up by a transaction that stakes
NonceOfWrites(d, u, tx) ==
  IF AppsOf(tx.ops) = {} THEN d ELSE [d EXCEPT !.nonce[u] = @ + 1]

\* updateAccountNonceAndTimestamp
WithNonce(d, u, tx) == [d EXCEPT !.nonce[u] = @ + 1]

\* executeTransaction
ExecuteTx(u, tx) ==
  LET d == ExecutedAll(db, tx.ops)
      checked == IF DeniedIn(tx.ops) THEN [code |-> "DENIED", cache |-> cache]
                 ELSE Checked(d, cache, tx)
      done == IF checked.code = "SUCCESS" THEN WithNonce(d, u, tx) ELSE d
  IN  /\ db.nonce[u] < MaxNonce
      /\ db' = IF IsFailed(tx, checked.code) THEN db ELSE done
      /\ cache' = checked.cache

\* getNodeStatus asks for the usage of the free tier
AskFreeTier ==
  /\ cache' = Renewed(cache, db)
  /\ UNCHANGED db

Next ==
  \/ \E u \in User, tx \in Tx : ExecuteTx(u, tx)
  \/ AskFreeTier

Spec == Init /\ [][Next]_vars

-----------------------------------------------------------------------------
(* Type invariant, with: the cached usages are consistent with each other. *)
TypeOK ==
  /\ db.nonce \in [User -> 0..MaxNonce]
  /\ \A a \in App : db.apps[a] \in Nat /\ db.stake[a] \in Nat
  /\ cache.free # None => cache.free = SumOf(cache.usage, App \ cache.staked)

(* No transaction brings the state above the budgets of all services, of   *)
(* all apps and of the tree: "cannot exceed service state budget"          *)
(* (test/unit/db.test.js:4001).                                            *)
BudgetsKept == FitsTree(db) /\ FitsAsAWhole(db)

(* An app grows only when there is room for it after the step: in the free *)
(* tier, whose usage is not computed but cached, or in its own budget.     *)
GrowthHasRoom ==
  [][\A a \in App : db'.apps[a] > db.apps[a] => FitsByApp(db', FreeTier(db'), {a})]_vars

(* A transaction that has an effect has used up its nonce: it cannot be    *)
(* executed again.                                                         *)
EffectsUseNonce ==
  [][db' # db => \E u \in User : db'.nonce[u] = db.nonce[u] + 1]_vars
=============================================================================
