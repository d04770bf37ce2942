----------------------------- MODULE MCDatabase -----------------------------
(***************************************************************************)
(* The components of the database beside one another, each in a small      *)
(* instance of its own: the radix tree and the state tree, what the        *)
(* built-in functions do to stakes, the token bridge, payments and fees,   *)
(* the budgets, the access to configurations and to values, and the        *)
(* triggers of functions.  None of them calls another here, so that only   *)
(* one of them, part, takes steps; the others stay as they were at first.  *)
(***************************************************************************)
EXTENDS Books, TLC

CONSTANTS
  Null, u1, u2, v1, v2, p1, app, la, lb, lc, x, y, f, top, star

Parts == {"radix", "tree", "staking", "bridge", "payments", "fees", "budgets",
          "owners", "values", "triggers"}

VARIABLES
  radixHeap, radixTrees, radixLists, radixSteps,
  treeHeap, treeRoots, treeTrees, treeSteps,
  ownOwners, ownRules, ownFunctions, ownValues, ownOrder,
  valOwners, valRules, valFunctions, valValues, valOrder,
  trigValues, trigStack, trigSaved, trigFailed

-----------------------------------------------------------------------------
\* Versions of a node with up to four children, whose labels are prefixes of one
\* another or part at the first or the second digit
Versions == {v1, v2}
Labels == {<<1>>, <<1, 2>>, <<1, 3, 1>>, <<1, 3, 2>>}

Radix == INSTANCE RadixTree
  WITH Version <- Versions, Label <- Labels, Value <- {x, y}, MaxSteps <- 4,
       heap <- radixHeap, trees <- radixTrees, lists <- radixLists, steps <- radixSteps

ASSUME Radix!LabelsAreAssumed

\* Two versions, paths of up to two labels and objects of up to two leaves, one of
\* them null
GenesisState == (<<la, lb>> :> x) @@ (<<lb>> :> y)
Paths   == {<<la>>, <<la, lb>>, <<lb, la>>}
Objects == {<<>> :> Null, <<>> :> x, <<>> :> y, <<la>> :> Null, (<<la>> :> x) @@ (<<lb>> :> Null)}

Tree == INSTANCE StateTree
  WITH Version <- Versions, Path <- Paths, Object <- Objects, Genesis <- GenesisState, MaxSteps <- 3,
       heap <- treeHeap, roots <- treeRoots, trees <- treeTrees, steps <- treeSteps

-----------------------------------------------------------------------------
\* Values of the constants of Books: escrows of a user with himself and from a payment
\* account; transactions that use bandwidth only, or state as well; one voter, or two
\* whose stakes divide a fee evenly or not
Escrows == {[source |-> u1, target |-> u1], [source |-> [app |-> app, user |-> u2], target |-> u1]}
Groups == {{u1}, {u2}}
GasUsed == {[bandwidth |-> 1, state |-> 0], [bandwidth |-> 1, state |-> 1]}
VoteOf(v, s) == [validator |-> v, stake |-> s]
VotesOfBlocks == {<<VoteOf(v1, 1)>>, <<VoteOf(v1, 1), VoteOf(v2, 2)>>, <<VoteOf(v2, 1), VoteOf(v1, 1)>>}

-----------------------------------------------------------------------------
\* Who acts: two users, and the second one by way of a function
U1 == [addr |-> u1, fid |-> Null]
U2 == [addr |-> u2, fid |-> Null]
U2f == [addr |-> u2, fid |-> f]
Root == <<>>
At(path, config) == path :> config
Deleted == [r \in {} |-> Null]
Everything == {"branch_owner", "write_function", "write_owner", "write_rule"}

\* Configurations on two levels, with owners of every kind
TwoLevels == {<<la>>, <<la, lb>>}
Narrow == {"write_rule", "branch_owner"}
OwnerChangesOne ==
  { At(Root, u1 :> Everything), At(Root, u1 :> Null), At(Root, star :> Null), At(Root, star :> Narrow),
    At(Root, f :> Everything @@ u2 :> {}), At(<<lb>>, u2 :> Everything),
    At(Root, la :> Everything), Deleted }
RuleChangesOne == { At(Root, "write" :> {u1}), Deleted }
FunctionChangesOne == { At(Root, f :> TRUE), At(<<lb>>, top :> TRUE), At(Root, Deleted), Deleted }

Owners == INSTANCE Access
  WITH Variable <- {x}, Auth <- {U1, U2, U2f}, Anyone <- star, Admins <- {u1}, Natives <- {f, top},
       OwnerOnly <- {top}, ConfigPath <- TwoLevels, OwnerChanges <- OwnerChangesOne,
       RuleChanges <- RuleChangesOne, FunctionChanges <- FunctionChangesOne, Writes <- {}, MinDeleted <- 1,
       owners <- ownOwners, rules <- ownRules, functions <- ownFunctions,
       values <- ownValues, order <- ownOrder

\* Rules with and without variables over a collection
RulePaths == { <<la, x>>, <<la, lc>> }
RuleChangesTwo ==
  { At(Root, "write" :> {u1}), At(Root, "write" :> Null), Deleted,
    At(Root, "state" :> [maxChildren |-> 2, gcMax |-> 2, gcDeleted |-> 2]),
    At(Root, "state" :> [maxChildren |-> 1, gcMax |-> 1, gcDeleted |-> 1]),
    At(Root, "state" :> [maxChildren |-> 1, gcMax |-> 1, gcDeleted |-> 2]) }
WritesTwo ==
  ( {<<la, la>>, <<la, lb>>, <<la, lc>>} \X {At(Root, 1), Deleted} )
    \cup { <<<<la>>, (<<lb>> :> 1) @@ (<<lc>> :> 1)>>, <<<<la>>, Deleted>>, <<<<la>>, At(Root, 1)>> }

Values == INSTANCE Access
  WITH Variable <- {x}, Auth <- {U1, U2}, Anyone <- star, Admins <- {u1}, Natives <- {f, top},
       OwnerOnly <- {top}, ConfigPath <- RulePaths, OwnerChanges <- {},
       RuleChanges <- RuleChangesTwo, FunctionChanges <- {}, Writes <- WritesTwo, MinDeleted <- 1,
       owners <- valOwners, rules <- valRules, functions <- valFunctions,
       values <- valValues, order <- valOrder

-----------------------------------------------------------------------------
\* Functions that call each other's paths, that fail, and that report shards
FunctionsSet ==
  <<"r", "$x">> :> <<"_eraseValue", "_saveLastTx">>
  @@ <<"t", "$x">> :> <<"_saveLastTx", "_fail", "_eraseValue">>
  @@ <<"u">> :> <<"_saveLastTx">>
  @@ <<"u", "$x">> :> <<"_eraseValue">>
  @@ <<".last_tx", "u">> :> <<"_saveLastTx", "_eraseValue">>
  @@ <<"s", "map", "$x", "hash">> :> <<"_updateLatestShardReport">>

V == "value"
Leaf == <<>> :> V
AB == <<"a">> :> V @@ <<"b">> :> V
WritesOfUsers ==
  { <<<<"r", "a">>, Leaf>>, <<<<"r", "b">>, Leaf>>, <<<<"r">>, AB>>, <<<<"r">>, Deleted>>,
    <<<<"t", "a">>, Leaf>>, <<<<"t">>, AB>>, <<<<"u">>, AB>>, <<<<"u">>, <<"a">> :> V>>, <<<<"u">>, Deleted>>,
    <<<<"u", "a", "c">>, Leaf>>,
    <<<<"s", "map", "1", "hash">>, Leaf>>, <<<<"s", "map", "2", "hash">>, Leaf>>,
    <<<<"s", "map">>, <<"1", "hash">> :> V @@ <<"2", "hash">> :> V>>, <<<<"s", "map">>, Deleted>> }

Trigger == INSTANCE Triggers
  WITH Variable <- {"$x"}, FunctionTree <- FunctionsSet, Denied <- {<<"r", ".last_tx", "b">>},
       Operations <- WritesOfUsers, NumberOf <- ("1" :> 1 @@ "2" :> 2), MaxDepth <- 12,
       values <- trigValues, stack <- trigStack, saved <- trigSaved, anyFailed <- trigFailed

ASSUME Trigger!FunctionTreeAssumption

-----------------------------------------------------------------------------
radixVars == <<radixHeap, radixTrees, radixLists, radixSteps>>
treeVars == <<treeHeap, treeRoots, treeTrees, treeSteps>>
ownVars == <<ownOwners, ownRules, ownFunctions, ownValues, ownOrder>>
valVars == <<valOwners, valRules, valFunctions, valValues, valOrder>>
trigVars == <<trigValues, trigStack, trigSaved, trigFailed>>
restVars == <<radixVars, treeVars, ownVars, valVars, trigVars>>

\* What a part that keeps no books leaves alone when it takes steps
Only(p) ==
  /\ part = p
  /\ UNCHANGED booksVars
  /\ IF p = "radix" THEN TRUE ELSE UNCHANGED radixVars
  /\ IF p = "tree" THEN TRUE ELSE UNCHANGED treeVars
  /\ IF p = "owners" THEN TRUE ELSE UNCHANGED ownVars
  /\ IF p = "values" THEN TRUE ELSE UNCHANGED valVars
  /\ IF p = "triggers" THEN TRUE ELSE UNCHANGED trigVars

\* One name of a version is as good as the other to begin with; the bridge starts with
\* one configuration when it is not the part that runs
Init ==
  /\ part \in Parts
  /\ BooksInit /\ Radix!Init /\ Tree!Init /\ Owners!Init /\ Values!Init /\ Trigger!Init
  /\ v1 \in DOMAIN radixLists \cap DOMAIN treeRoots
  /\ part # "bridge" => bridgeConfig = [pool |-> p1, feeRate |-> 0]

Next ==
  \/ BooksNext /\ UNCHANGED restVars
  \/ Only("radix") /\ Radix!Next
  \/ Only("tree") /\ Tree!Next
  \/ Only("owners") /\ Owners!Next
  \/ Only("values") /\ Values!Next
  \/ Only("triggers") /\ Trigger!Next

Spec == Init /\ [][Next]_<<booksVars, restVars>>

\* Bound of the exploration: the staker either stakes for both services, at one time and
\* without an offense, or leaves the service app alone
StakingScenario ==
  \/ stakeClock = 1 /\ stakeDb.offenses[u1] = 0
  \/ /\ stakeDb.expire[<<app, u1>>] = 0 /\ stakeDb.lockup[app] = 0
     /\ \A t \in stakeDb.sent : t[2] # <<app, u1>>

Explored == Init /\ [][Next /\ StakingScenario']_<<booksVars, restVars>>

-----------------------------------------------------------------------------
(* Properties, beside those of Books.                                      *)

(* After any sequence of writes, clones, snapshots and deletions of        *)
(* versions: in the radix tree the parents of every node are exactly       *)
(* those that have it as a child, no node leaks or is freed too soon,      *)
(* hashes and counts are those of the subtrees now, pages list every child *)
(* once, and proofs verify; in the state tree every node has the hash of   *)
(* what is below it, and equal states, only they, have equal hashes; no    *)
(* value that permissions or functions are about is below another one.     *)
TreesAreExact ==
  /\ part = "radix" =>
       /\ Radix!ParentsAreExact
       /\ Radix!NothingLeaks
       /\ Radix!InfoIsFresh
       /\ Radix!PagesCoverAll
       /\ Radix!ProofsOfLeavesVerify
  /\ part = "tree" => Tree!HashesAreFresh /\ Tree!SameStateSameHash
  /\ part = "owners" => Owners!TypeOK
  /\ part = "values" => Values!TypeOK
  /\ part = "triggers" => Trigger!TypeOK

(* Versions that share nodes behave as separate lists and separate trees:  *)
(* the radix tree and the state tree implement their abstract              *)
(* specifications VersionedMaps and VersionedTrees.  A clone or a restored *)
(* version has the hash of the one it comes from, and deleteVersion takes  *)
(* away all that only the deleted version reaches.                         *)
VersionsAreSeparate ==
  /\ Radix!ImplementsMaps
  /\ Radix!NewVersionHasSameProof
  /\ Tree!ImplementsTrees
  /\ Tree!DeletionLeavesNoOrphans

(* Every configuration that an operation changes, anywhere below its path, *)
(* is in the charge of owners who let the actor change it; a path without  *)
(* owners keeps its configuration; every leaf that changes is one that its *)
(* write rule lets the actor write, or one that made room for a newer      *)
(* one; the newest child stays, and a full collection does not grow.       *)
PermissionsDecide ==
  /\ Owners!OwnersDecide
  /\ Owners!OrphansStay
  /\ Values!RulesDecide
  /\ Values!NewestSurvives
  /\ Values!FullNeverGrows

(* A write calls the functions of every path at which it changes a value;  *)
(* when any call fails, however deep, nothing of the operation stays; and  *)
(* the latest report of a shard is never behind one that is there.         *)
CallsAreComplete ==
  /\ Trigger!EveryPathIsTriggered
  /\ [](part = "triggers" => Trigger!FailureUndoes /\ Trigger!LatestIsLargest)
=============================================================================
