---------------------------- MODULE ConfigTrees ----------------------------
(***************************************************************************)
(* Trees of configurations: the owners, the rules and the functions of a   *)
(* state are three trees, each with a configuration at some of its paths.  *)
(* A tree is here a function from the paths that have one.  A              *)
(* configuration is a function from its keys (addresses, "write" and       *)
(* "state", function ids).                                                 *)
(*                                                                         *)
(* A value path is matched with the rules label by label: the child with   *)
(* the label itself is preferred to a variable child ($x), and there is no *)
(* way back from it when the match ends further below.                     *)
(***************************************************************************)
EXTENDS Integers, SequencesExt, FiniteSetsExt

CONSTANTS
  Variable,    \* the labels that are variables
  Null

NoPath == <<Null>>

\* Whether the tree has a node there: a node is kept for what is below it
HasNode(tree, p) == \E q \in DOMAIN tree : IsPrefix(p, q)

\* writeDatabase: what was at the path and below is replaced
Written(tree, p, sub) ==
  [q \in {o \in DOMAIN tree : ~IsPrefix(p, o)} \cup {p \o r : r \in DOMAIN sub} |->
     IF IsPrefix(p, q) THEN sub[SubSeq(q, Len(p) + 1, Len(q))] ELSE tree[q]]

Deletion == [r \in {} |-> Null]

\* getVariableLabel: the first variable among the children of a node.  It is the
\* only one, or which one comes first is not told here.
VariableBelow(tree, p) == {x \in Variable : HasNode(tree, Append(p, x))}

Meets(tree, at, label) ==
  IF at = NoPath THEN NoPath
  ELSE IF HasNode(tree, Append(at, label)) THEN Append(at, label)
  ELSE IF VariableBelow(tree, at) # {} THEN Append(at, CHOOSE x \in VariableBelow(tree, at) : TRUE)
  ELSE NoPath

\* matchRulePath, matchFunctionPath: the node of the tree that each prefix of the path meets
Match(tree, path) ==
  LET m[i \in 0..Len(path)] == IF i = 0 THEN <<>> ELSE Meets(tree, m[i - 1], path[i]) IN m

\* The prefixes that meet a configuration with the key (any, when it is Null)
Depths(tree, m, key) ==
  {i \in DOMAIN m : /\ m[i] \in DOMAIN tree
                    /\ key = Null \/ key \in DOMAIN tree[m[i]]}

\* The longest prefix that meets a configuration with the key; -1 if there is none
ClosestDepth(tree, m, key) ==
  LET depths == Depths(tree, m, key) IN IF depths = {} THEN -1 ELSE Max(depths)

\* getSubtreeRules, getSubtreeOwners, getSubtreeFunctions, below a node
ConfigsBelow(tree, at, key) ==
  {q \in DOMAIN tree : /\ at # NoPath
                       /\ IsStrictPrefix(at, q)
                       /\ key = Null \/ key \in DOMAIN tree[q]}

\* isValidRuleTree and its kin refuse a path with the same variable twice
ValidPath(p) == \A i, j \in DOMAIN p : i # j /\ p[i] \in Variable => p[i] # p[j]
ValidTree(p, change) == \A r \in DOMAIN change : ValidPath(p \o r)

\* hasConfigLabel: an empty configuration reads as none at all
HasConfig(tree, p) == p \in DOMAIN tree /\ DOMAIN tree[p] # {}

\* applyRuleChange, applyFunctionChange, applyOwnerChange
IsMerge(tree, p, change, emptyToo) ==
  /\ DOMAIN change = {<<>>}
  /\ HasConfig(tree, p) \/ (emptyToo /\ p \in DOMAIN tree)

Merged(config, change) ==
  [k \in (DOMAIN config \cup DOMAIN change) \ {d \in DOMAIN change : change[d] = Null} |->
     IF k \in DOMAIN change THEN change[k] ELSE config[k]]

Applied(tree, p, change, emptyToo) ==
  IF IsMerge(tree, p, change, emptyToo)
  THEN [tree EXCEPT ![p] = Merged(@, change[<<>>])]
  ELSE Written(tree, p, change)
=============================================================================
