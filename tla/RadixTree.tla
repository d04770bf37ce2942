----------------------------- MODULE RadixTree -----------------------------
(***************************************************************************)
(* The children of a state node in all of its versions (db/radix-tree.js,  *)
(* db/radix-node.js): radix trees whose nodes are shared between versions, *)
(* cloned on the way to what is written, merged when an inner node is left *)
(* with one child, and freed when their last parent goes.                  *)
(*                                                                         *)
(* heap holds the nodes.  Operators named as the methods of the code take  *)
(* and return heaps; an operation of the tree is one of them after the     *)
(* other.  A label is the sequence of its hex digits.                      *)
(***************************************************************************)
EXTENDS Naturals, FiniteSets, SequencesExt

CONSTANTS
  Version,   \* names of versions
  Label,     \* labels of children
  Value,     \* what a child holds
  MaxSteps   \* bound of the number of operations

LabelsAreAssumed == \A l \in Label : l # <<>>

VARIABLES
  heap,  \* the radix nodes
  trees, \* the RadixTree of every version
  lists, \* the children of every version, as a reader gets them
  steps  \* operations so far

vars == <<heap, trees, lists, steps>>

NoState == <<>>
NoInfo == [proof |-> <<NoState, {}>>, size |-> 0]
NoTree == [root |-> 0, nextSerial |-> 0, numChildStateNodes |-> 0]

\* RadixNode.constructor
NewNode(serial) ==
  [label |-> <<>>, kids |-> <<>>, parents |-> {}, state |-> NoState, serial |-> serial, info |-> NoInfo]

Unused(h) == CHOOSE n \in 1 .. Cardinality(DOMAIN h) + 1 : n \notin DOMAIN h
Put(f, k, x) == (k :> x) @@ f
Drop(f, K) == [j \in DOMAIN f \ K |-> f[j]] @@ <<>>

-----------------------------------------------------------------------------
(* Radix nodes.                                                            *)

DeleteParent(h, n, p) == [h EXCEPT ![n].parents = @ \ {p}]

\* setChild: the node takes the label, for all of its parents.
SetChild(h, p, label, n) ==
  LET r  == Head(label)
      g  == IF r \in DOMAIN h[p].kids THEN DeleteParent(h, h[p].kids[r], p) ELSE h
      g2 == [g EXCEPT ![p].kids = Put(@, r, n)]
  IN  [g2 EXCEPT ![n].label = label, ![n].parents = @ \cup {p}]

\* deleteChild
DeleteChild(h, p, r) ==
  LET n == h[p].kids[r]
  IN  DeleteParent([h EXCEPT ![p].kids = Drop(@, {r})], n, p)

Kids(h, n) == SetToSeq(Range(h[n].kids))

\* A mutant for the runs: the children of a clone do not know it.
CloneOf(h, n) ==
  LET c == Unused(h) IN [heap |-> Put(h, c, [h[n] EXCEPT !.parents = {}]), node |-> c]

\* clone: the children have one more parent.
CloneNode(h, n) ==
  LET c == Unused(h)
  IN  [heap |-> FoldLeft(LAMBDA g, k : [g EXCEPT ![k].parents = @ \cup {c}],
                         Put(h, c, [h[n] EXCEPT !.parents = {}]), Kids(h, n)),
       node |-> c]

\* buildRadixInfo.  A hash is the data that is hashed.
InfoOf(h, n) ==
  LET kids == {h[k] : k \in Range(h[n].kids)}
      sum  == FoldFunction(+, 0, [k \in Range(h[n].kids) |-> h[k].info.size])
  IN  [proof |-> <<h[n].state, {<<k.label, k.info.proof>> : k \in kids}>>,
       size  |-> sum + IF h[n].state = NoState THEN 0 ELSE 1]

\* verifyRadixInfo
VerifyRadixInfo(h, n) == h[n].info = InfoOf(h, n)

\* A mutant for the runs: the hashes on the way to the roots are kept.
UpdateOnly(h, n) == [h EXCEPT ![n].info = InfoOf(h, n)]

\* updateRadixInfoForAllRootPaths
RECURSIVE UpdateRootPaths(_, _)
UpdateRootPaths(h, n) ==
  FoldLeft(UpdateRootPaths, [h EXCEPT ![n].info = InfoOf(h, n)], SetToSeq(h[n].parents))

-----------------------------------------------------------------------------
(* Ways through the tree.                                                  *)

\* _getRadixNodeForReading; 0 is null.
RECURSIVE Find(_, _, _)
Find(h, n, rest) ==
  IF rest = <<>> THEN n
  ELSE IF Head(rest) \notin DOMAIN h[n].kids THEN 0
  ELSE LET k == h[n].kids[Head(rest)]
       IN  IF IsPrefix(h[k].label, rest)
           THEN Find(h, k, SubSeq(rest, Len(h[k].label) + 1, Len(rest)))
           ELSE 0

From(s, n) == SubSeq(s, n + 1, Len(s))

\* compareRadixLabelWithPrefix, of labels that are not prefixes of each other.
Before(l, m) == l # m /\ LET p == Len(LongestCommonPrefix({l, m})) + 1
                        IN  p > Len(l) \/ (p <= Len(m) /\ l[p] < m[p])

Everything == 1000000  \* a page with room for all

\* A mutant for the runs: what is below the last label is taken for read.
SkippedWithPrefix(l, last) == last # <<>> /\ (IsPrefix(l, last) \/ Before(l, last))

\* Children before the last label were in an earlier page.
Skipped(l, last) == last # <<>> /\ ~IsPrefix(l, last) /\ Before(l, last)

(***************************************************************************)
(* getChildStateNodeListWithEndLabel: at most max nodes after the label    *)
(* last, in the order of the labels; <<>> is no label.                     *)
(***************************************************************************)
RECURSIVE Listed(_, _, _, _)
Listed(h, n, max, last) ==
  LET self  == IF h[n].state # NoState /\ last = <<>> THEN <<[serial |-> h[n].serial, node |-> n]>>
                                                   ELSE <<>>
      below == From(last, Len(h[n].label))  \* none after a node that is listed itself
      Add(acc, k) ==
        LET l == h[k].label
        IN  IF Len(acc.list) >= max \/ Skipped(l, below) THEN acc
            ELSE LET p == Listed(h, k, max - Len(acc.list),
                                 IF IsPrefix(l, below) THEN below ELSE <<>>)
                 IN  IF p.list = <<>> THEN acc
                     ELSE [list |-> acc.list \o p.list, end |-> h[n].label \o p.end]
  IN  FoldLeft(Add, [list |-> self, end |-> IF self = <<>> THEN <<>> ELSE h[n].label],
               SetToSortSeq(Range(h[n].kids), LAMBDA j, k : Head(h[j].label) < Head(h[k].label)))

\* A child that has other parents is cloned before it is passed.
OwnChild(h, n, r) ==
  LET k == h[n].kids[r]
  IN  IF Cardinality(h[k].parents) > 1
      THEN LET c == CloneNode(h, k)
           IN  [heap |-> SetChild(c.heap, n, h[k].label, c.node), node |-> c.node]
      ELSE [heap |-> h, node |-> k]

(***************************************************************************)
(* Case 2 of _getRadixNodeForSetting: the label of the child goes another  *)
(* way than rest.  An inner node takes the common part.                    *)
(***************************************************************************)
Split(h, n, rest, serial) ==
  LET old    == h[n].kids[Head(rest)]
      c      == IF Cardinality(h[old].parents) > 1 THEN CloneNode(h, old)
                                                   ELSE [heap |-> h, node |-> old]
      common == LongestCommonPrefix({rest, h[old].label})
      g      == DeleteChild(c.heap, n, Head(rest))
      inner  == Unused(g)
      g2     == SetChild(Put(g, inner, NewNode(serial)), n, common, inner)
  IN  [heap |-> SetChild(g2, inner, From(h[old].label, Len(common)), c.node),
       node |-> inner, rest |-> From(rest, Len(common))]

\* _getRadixNodeForSetting: the heap, the node and the next serial.
RECURSIVE ForSetting(_, _, _, _)
ForSetting(h, n, rest, serial) ==
  IF rest = <<>> THEN [heap |-> h, node |-> n, serial |-> serial]
  ELSE IF Head(rest) \notin DOMAIN h[n].kids
  THEN LET k == Unused(h)
       IN  [heap |-> SetChild(Put(h, k, NewNode(serial)), n, rest, k), node |-> k,
            serial |-> serial + 1]
  ELSE IF IsPrefix(h[h[n].kids[Head(rest)]].label, rest)
  THEN LET o == OwnChild(h, n, Head(rest))
       IN  ForSetting(o.heap, o.node, From(rest, Len(o.heap[o.node].label)), serial)
  ELSE LET s == Split(h, n, rest, serial)
       IN  ForSetting(s.heap, s.node, s.rest, serial + 1)

\* _getRadixNodeForDeleting, of a label that is there.
RECURSIVE ForDeleting(_, _, _)
ForDeleting(h, n, rest) ==
  IF rest = <<>> THEN [heap |-> h, node |-> n]
  ELSE LET o == OwnChild(h, n, Head(rest))
       IN  ForDeleting(o.heap, o.node, From(rest, Len(o.heap[o.node].label)))

OnlyChild(h, n) == CHOOSE k \in Range(h[n].kids) : TRUE

(***************************************************************************)
(* _mergeToChild: the only child takes the place of the node.  The heap    *)
(* and the nodes to update.  A child that has other parents has its label  *)
(* for them too, so the node stays.                                        *)
(***************************************************************************)
MergeToChild(h, n) ==
  LET k == OnlyChild(h, n)
      r == Head(h[n].label)
  IN  IF Cardinality(h[k].parents) > 1 THEN [heap |-> h, update |-> {n}]
      ELSE LET label == h[n].label \o h[k].label
               g     == DeleteChild(h, n, Head(h[k].label))
           IN  [heap   |-> Drop(FoldLeft(LAMBDA x, p : SetChild(DeleteChild(x, p, r), p, label, k),
                                         g, SetToSeq(h[n].parents)), {n}),
                update |-> h[n].parents]

\* RadixTree.delete without the update: the cases of the children of the node.
Removed(h, n) ==
  LET g == [h EXCEPT ![n].state = NoState]
  IN  CASE Cardinality(DOMAIN g[n].kids) = 1 -> MergeToChild(g, n)
        [] Cardinality(DOMAIN g[n].kids) > 1 -> [heap |-> g, update |-> {n}]
        [] OTHER ->
             LET p  == CHOOSE q \in g[n].parents : TRUE
                 g2 == Drop(DeleteChild(g, p, Head(g[n].label)), {n})
             IN  IF /\ Cardinality(DOMAIN g2[p].kids) = 1
                    /\ g2[p].state = NoState /\ Cardinality(g2[p].parents) = 1
                 THEN MergeToChild(g2, p)
                 ELSE [heap |-> g2, update |-> {p}]

\* A mutant for the runs: what is below the root is taken for shared.
FreeRoot(h, n) ==
  Drop(FoldLeft(LAMBDA g, k : DeleteChild(g, n, Head(g[k].label)), h, Kids(h, n)), {n})

\* deleteRadixTreeVersion: what has no parent left goes, and so on below it.
RECURSIVE Free(_, _)
Free(h, n) ==
  IF h[n].parents # {} THEN h
  ELSE Drop(FoldLeft(LAMBDA g, k : Free(DeleteChild(g, n, Head(g[k].label)), k), h, Kids(h, n)), {n})

-----------------------------------------------------------------------------
(* Proofs that a state is in the tree.                                     *)

NoProof == [ph |-> <<>>, state |-> NoState, kids |-> {}]
Stub(ph) == [NoProof EXCEPT !.ph = ph]

\* A mutant for the runs: a proof without the siblings of the way.
ProofWithoutSiblings(h, n, label, proof) ==
  [ph |-> h[n].info.proof, state |-> h[n].state, kids |-> {<<label, proof>>}]

\* getProofOfRadixNode, of a node on the way to the one asked for.
ProofOnTheWay(h, n, label, proof) ==
  [ph    |-> h[n].info.proof,
   state |-> h[n].state,
   kids  |-> {<<h[k].label, IF h[k].label = label THEN proof ELSE Stub(h[k].info.proof)>> :
                k \in Range(h[n].kids)}]

\* getProofOfRadixNode, of the node asked for: it returns before its children are added.
ProofOfTarget(h, n) == [ph |-> h[n].info.proof, state |-> h[n].state, kids |-> {}]

\* getProofOfStateNodeRecursive
RECURSIVE ProofOf(_, _, _)
ProofOf(h, n, rest) ==
  IF rest = <<>> THEN IF h[n].state = NoState THEN NoProof ELSE ProofOfTarget(h, n)
  ELSE IF Head(rest) \notin DOMAIN h[n].kids THEN NoProof
  ELSE LET k   == h[n].kids[Head(rest)]
           sub == IF Len(h[k].label) > Len(rest) THEN NoProof
                  ELSE ProofOf(h, k, From(rest, Len(h[k].label)))
       IN  IF sub = NoProof THEN NoProof ELSE ProofOnTheWay(h, n, h[k].label, sub)

\* verifyStateProof, with getProofHashOfRadixNode
RECURSIVE IsVerified(_)
IsVerified(proof) ==
  \/ proof.state = NoState /\ proof.kids = {}
  \/ /\ \A k \in proof.kids : IsVerified(k[2])
     /\ proof.ph = <<proof.state, {<<k[1], k[2].ph>> : k \in proof.kids}>>

-----------------------------------------------------------------------------
(* Operations.                                                             *)

HeldIn(t) == {v \in Version : t[v].root # 0}
Held == HeldIn(trees)

\* getChildStateNodesWithEndLabel: the children in the order of their serials.
ListOf(h, root) ==
  LET nodes == SortSeq(Listed(h, root, Everything, <<>>).list, LAMBDA a, b : a.serial < b.serial)
  IN  [i \in DOMAIN nodes |-> h[nodes[i].node].state]

Lists(h, t) == [v \in HeldIn(t) |-> ListOf(h, t[v].root)]

Init ==
  /\ heap = 1 :> NewNode(0)
  /\ \E v \in Version :
       trees = [w \in Version |-> IF w = v THEN [NoTree EXCEPT !.root = 1, !.nextSerial = 1]
                                           ELSE NoTree]
  /\ lists = Lists(heap, trees)
  /\ steps = 0

Step == steps < MaxSteps /\ steps' = steps + 1

\* RadixTree.clone, for a clone of the state node (StateNode.clone).
Clone(v, w) ==
  /\ Step
  /\ v \in Held /\ w \notin Held
  /\ LET c == CloneNode(heap, trees[v].root)
     IN  /\ heap' = c.heap
         /\ trees' = [trees EXCEPT ![w] = [trees[v] EXCEPT !.root = c.node]]

\* A mutant for the runs: a value that replaces another one is put at the end.
SerialAlwaysNew(s) == s.serial

\* A node without a state node takes the next serial.
SerialOf(s) == IF s.heap[s.node].state = NoState THEN s.serial ELSE s.heap[s.node].serial

\* RadixTree.set, with the update that follows it (updateRadixInfoForAllRootPaths).
Set(v, l, x) ==
  /\ Step
  /\ v \in Held
  /\ LET s     == ForSetting(heap, trees[v].root, l, trees[v].nextSerial)
         isNew == IF s.heap[s.node].state = NoState THEN 1 ELSE 0
     IN  /\ heap' = UpdateRootPaths([s.heap EXCEPT ![s.node].state = <<l, x>>,
                                                   ![s.node].serial = SerialOf(s)], s.node)
         /\ trees' = [trees EXCEPT ![v].nextSerial = s.serial + isNew,
                                   ![v].numChildStateNodes = @ + isNew]

Has(v, l) == LET n == Find(heap, trees[v].root, l) IN n # 0 /\ heap[n].state # NoState

\* RadixTree.delete with shouldUpdateRadixInfo.
Delete(v, l) ==
  /\ Step
  /\ v \in Held /\ Has(v, l)
  /\ LET d == ForDeleting(heap, trees[v].root, l)
         r == Removed(d.heap, d.node)
     IN  heap' = FoldLeft(UpdateRootPaths, r.heap, SetToSeq(r.update))
  /\ trees' = [trees EXCEPT ![v].numChildStateNodes = @ - 1]

(***************************************************************************)
(* fromRadixSnapshot of toRadixSnapshot: the nodes of the version again,   *)
(* none of them shared.  The snapshot holds no hashes and no count.        *)
(***************************************************************************)
RECURSIVE Restored(_, _)
Restored(h, n) ==
  LET c == Unused(h)
      g == Put(h, c, [NewNode(h[n].serial) EXCEPT !.state = h[n].state])
  IN  [heap |-> FoldLeft(LAMBDA x, k : LET r == Restored(x, k)
                                       IN  SetChild(r.heap, c, x[k].label, r.node),
                         g, Kids(h, n)),
       node |-> c]

\* updateRadixInfoForRadixTree
RECURSIVE UpdateTree(_, _)
UpdateTree(h, n) ==
  LET g == FoldLeft(UpdateTree, h, Kids(h, n))
  IN  [g EXCEPT ![n].info = InfoOf(g, n)]

\* A node starts from a snapshot of the version, and keeps it as another one.
Restore(v, w) ==
  /\ Step
  /\ v \in Held /\ w \notin Held
  /\ LET r == Restored(heap, trees[v].root)
     IN  /\ heap' = UpdateTree(r.heap, r.node)
         /\ trees' = [trees EXCEPT ![w] =
                        [root |-> r.node, nextSerial |-> trees[v].nextSerial,
                         numChildStateNodes |-> Len(Listed(r.heap, r.node, Everything, <<>>).list)]]

\* The state node of the version is freed (deleteRadixTreeVersion).
DeleteVersion(v) ==
  /\ Step
  /\ v \in Held /\ Cardinality(Held) > 1
  /\ heap' = Free(heap, trees[v].root)
  /\ trees' = [trees EXCEPT ![v] = NoTree]

Next ==
  /\ \/ \E v, w \in Version : Clone(v, w) \/ Restore(v, w)
     \/ \E v \in Version : DeleteVersion(v)
     \/ \E v \in Version, l \in Label : Delete(v, l) \/ \E x \in Value : Set(v, l, x)
  /\ lists' = Lists(heap', trees')

Spec == Init /\ [][Next]_vars

-----------------------------------------------------------------------------
(* Properties.                                                             *)

(***************************************************************************)
(* Every node knows exactly the nodes that have it as a child: what        *)
(* decides whether it is cloned, merged or freed (numParents).             *)
(***************************************************************************)
ParentsAreExact ==
  \A n \in DOMAIN heap :
    /\ heap[n].parents = {p \in DOMAIN heap : n \in Range(heap[p].kids)}
    /\ \A r \in DOMAIN heap[n].kids :
         heap[n].kids[r] \in DOMAIN heap /\ Head(heap[heap[n].kids[r]].label) = r

RECURSIVE Below(_)
Below(n) == {n} \cup UNION {Below(k) : k \in Range(heap[n].kids)}

(***************************************************************************)
(* A node that no held version reaches has been freed by                   *)
(* deleteRadixTreeVersion, and none that a version reaches has.            *)
(***************************************************************************)
NothingLeaks == DOMAIN heap = UNION {Below(trees[v].root) : v \in Held}

(***************************************************************************)
(* The proof hash and the size every node keeps are those of its subtree   *)
(* as it is now: verifyRadixInfo holds in every version after a write to   *)
(* any of them.  Fresh nodes of an empty tree have no hash yet.            *)
(***************************************************************************)
InfoIsFresh ==
  \A n \in DOMAIN heap : VerifyRadixInfo(heap, n) \/ (heap[n].state = NoState /\ DOMAIN heap[n].kids = {})

LabelsIn(v) == {l \in Label : Has(v, l)}
SortedLabels(v) == SetToSortSeq(LabelsIn(v), LAMBDA l, m : IsPrefix(l, m) \/ Before(l, m))

RECURSIVE Pages(_, _, _)
Pages(v, max, last) ==
  LET p == Listed(heap, trees[v].root, max, last)
  IN  IF p.list = <<>> THEN <<>> ELSE p.list \o Pages(v, max, p.end)

(***************************************************************************)
(* A reader that asks for the children page by page, each time after the   *)
(* end label of the page before (getChildStateNodeListWithEndLabel), gets  *)
(* every child of the version once, in the order of the labels, and their  *)
(* number is the one the tree keeps.                                       *)
(***************************************************************************)
PagesCoverAll ==
  \A v \in Held, max \in {1, 2} :
    LET nodes == [i \in DOMAIN SortedLabels(v) |-> Find(heap, trees[v].root, SortedLabels(v)[i])]
        read  == Pages(v, max, <<>>)
    IN  /\ [i \in DOMAIN read |-> read[i].node] = nodes
        /\ Len(read) = trees[v].numChildStateNodes

(***************************************************************************)
(* A client that is given the proof of a child (ain_getStateProof) and     *)
(* knows only the proof hash of the root can check it, for a child whose   *)
(* label is no prefix of the label of another child.                       *)
(***************************************************************************)
ProofsOfLeavesVerify ==
  \A v \in Held : \A l \in LabelsIn(v) :
    DOMAIN heap[Find(heap, trees[v].root, l)].kids = {} =>
      /\ IsVerified(ProofOf(heap, trees[v].root, l))
      /\ ProofOf(heap, trees[v].root, l).ph = heap[trees[v].root].info.proof

Maps == INSTANCE VersionedMaps
          WITH maps <- lists

(***************************************************************************)
(* Versions that share nodes behave as separate lists: a write to one of   *)
(* them is seen in no other, and the order of insertion is kept through    *)
(* splits, merges, clones and snapshots.                                   *)
(***************************************************************************)
ImplementsMaps == Maps!Spec

(***************************************************************************)
(* A version that is cloned, or restored from a snapshot that holds        *)
(* neither hashes nor counts, has the proof hash of the one it comes from. *)
(* An empty tree has no hash before it is first built.                     *)
(***************************************************************************)
NewVersionHasSameProof ==
  [][\A w \in Version \ Held : trees'[w].root # 0 =>
       \E v \in Held : \/ heap'[trees'[w].root].info = heap[trees[v].root].info
                       \/ trees[v].numChildStateNodes = 0 /\ trees'[w].numChildStateNodes = 0]_vars
=============================================================================
