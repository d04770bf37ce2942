----------------------------- MODULE StateTree -----------------------------
(***************************************************************************)
(* The state trees of all versions (db/state-node.js, db/state-util.js,    *)
(* db/state-manager.js and the writes of db/index.js).  A version is       *)
(* cloned by cloning its root; a write clones the shared nodes on its way, *)
(* then takes empty nodes away and rebuilds the proof hashes up to the     *)
(* root; a version is deleted node by node, as far as nothing else has     *)
(* them as a child.                                                        *)
(*                                                                         *)
(* The children of a node, which the code keeps in a radix tree (see       *)
(* RadixTree), are a function from labels to nodes here.  An object that   *)
(* is written is the function from the paths of its leaves to its values.  *)
(***************************************************************************)
EXTENDS Naturals, FiniteSets, SequencesExt

CONSTANTS
  Version,  \* names of versions
  Path,     \* paths that are written
  Object,   \* objects that are written
  Genesis,  \* the object of the genesis state
  Null,     \* the null of JavaScript
  MaxSteps  \* bound of the number of operations

VARIABLES
  heap,   \* the state nodes
  roots,  \* rootMap of the StateManager
  trees,  \* the state of every version, as a reader gets it
  steps   \* operations so far

vars == <<heap, roots, trees, steps>>

Put(f, k, x) == (k :> x) @@ f
Unused(h) == CHOOSE n \in 1 .. Cardinality(DOMAIN h) + 1 : n \notin DOMAIN h

\* StateNode.constructor.  A node is a leaf as long as it has no children.
NewNode(version) == [version |-> version, value |-> Null, kids |-> <<>>, hash |-> Null]

\* isEmptyNode
IsEmpty(h, n) == h[n].kids = <<>> /\ h[n].value = Null

\* getParentNodes
Parents(h, n) == {p \in DOMAIN h : n \in Range(h[p].kids)}

\* A mutant for the runs: labels are not hashed.
HashWithoutLabels(h, n) ==
  IF h[n].kids = <<>> THEN h[n].value ELSE {<<Null, h[k].hash>> : k \in Range(h[n].kids)}

\* buildStateInfo.  A hash is the data that is hashed.
HashOf(h, n) ==
  IF h[n].kids = <<>> THEN h[n].value
  ELSE {<<l, h[h[n].kids[l]].hash>> : l \in DOMAIN h[n].kids}

UpdateInfo(h, n) == [h EXCEPT ![n].hash = HashOf(h, n)]
SetChild(h, n, l, c) == [h EXCEPT ![n].kids = Put(@, l, c)]

(***************************************************************************)
(* StateNode.deleteChild with shouldUpdateStateInfo: the hash is built     *)
(* before a node without children becomes a leaf.                          *)
(***************************************************************************)
DeleteChild(h, n, l) ==
  LET kids == [m \in DOMAIN h[n].kids \ {l} |-> h[n].kids[m]] @@ <<>>
  IN  [h EXCEPT ![n].kids = kids, ![n].hash = {<<m, h[kids[m]].hash>> : m \in DOMAIN kids}]

\* StateNode.clone
CloneNode(h, n, version) == Put(h, Unused(h), [h[n] EXCEPT !.version = version])

-----------------------------------------------------------------------------
(* Writes.                                                                 *)

\* A mutant for the runs: a shared node is written in place.
StepInPlace(at, l) ==
  LET kids == at.heap[at.node].kids
  IN  IF l \in DOMAIN kids
      THEN [heap |-> [at.heap EXCEPT ![kids[l]].value = Null], node |-> kids[l]]
      ELSE [heap |-> SetChild(Put(at.heap, Unused(at.heap), NewNode(Null)), at.node, l, Unused(at.heap)),
            node |-> Unused(at.heap)]

(***************************************************************************)
(* One label of getRefForWritingToStateRoot.  The method is static, so its *)
(* this.stateVersion is undefined: a clone keeps the version of the node   *)
(* it is made of, and a new node has none.                                 *)
(***************************************************************************)
StepForWriting(at, l) ==
  LET h    == at.heap
      new  == Unused(h)
      kids == h[at.node].kids
  IN  IF l \notin DOMAIN kids
      THEN [heap |-> SetChild(Put(h, new, NewNode(Null)), at.node, l, new), node |-> new]
      ELSE IF Cardinality(Parents(h, kids[l])) > 1
      THEN LET g == CloneNode(h, kids[l], h[kids[l]].version)
           IN  [heap |-> SetChild([g EXCEPT ![new].value = Null], at.node, l, new), node |-> new]
      ELSE [heap |-> [h EXCEPT ![kids[l]].value = Null], node |-> kids[l]]

From(s, n) == SubSeq(s, n + 1, Len(s))

\* fromStateSnapshot, with updateStateInfoForStateTree: the tree of an object.
RECURSIVE Build(_, _, _)
Build(h, obj, version) ==
  LET new    == Unused(h)
      labels == {Head(p) : p \in DOMAIN obj \ {<<>>}}
      at(l)  == [q \in {From(p, 1) : p \in {p \in DOMAIN obj : p # <<>> /\ Head(p) = l}}
                   |-> obj[<<l>> \o q]]
      leaf   == IF <<>> \in DOMAIN obj THEN [NewNode(version) EXCEPT !.value = obj[<<>>]]
                                       ELSE NewNode(version)
      Add(acc, l) == LET b == Build(acc, at(l), version)
                     IN  SetChild(b.heap, new, l, b.node)
  IN  [heap |-> UpdateInfo(FoldLeft(Add, Put(h, new, leaf), SetToSeq(labels)), new), node |-> new]

\* A mutant for the runs: only the changed node is hashed again.
UpdateHere(h, n, l, empty) == IF empty THEN DeleteChild(h, n, l) ELSE UpdateInfo(h, n)

(***************************************************************************)
(* updateStateInfoForAllRootPathsRecursive: n has changed below its child  *)
(* l, which is taken away when it is empty.                                *)
(***************************************************************************)
RECURSIVE UpdateRootPaths(_, _, _, _)
UpdateRootPaths(h, n, l, empty) ==
  LET g == IF empty THEN DeleteChild(h, n, l) ELSE UpdateInfo(h, n)
      Up(acc, p) ==
        LET label == CHOOSE m \in DOMAIN acc[p].kids : acc[p].kids[m] = n
        IN  UpdateRootPaths(acc, p, label, empty /\ IsEmpty(g, n))
  IN  FoldLeft(Up, g, SetToSeq(Parents(g, n)))

\* writeToStateRoot: the heap after obj is written at the path p below root.
WrittenTo(h, root, version, p, obj) ==
  LET tree   == Build(h, obj, version)
      parent == FoldLeft(StepForWriting, [heap |-> tree.heap, node |-> root], Front(p))
      g      == SetChild(parent.heap, parent.node, Last(p), tree.node)
  IN  UpdateRootPaths(g, parent.node, Last(p), IsEmpty(g, tree.node))

-----------------------------------------------------------------------------
(* Versions.                                                               *)

Step == steps < MaxSteps /\ steps' = steps + 1
Held == DOMAIN roots

\* toStateSnapshot: the leaves below a node.
RECURSIVE Snapshot(_, _)
Snapshot(h, n) ==
  IF h[n].kids = <<>> THEN <<>> :> h[n].value
  ELSE LET below(l) == LET t == Snapshot(h, h[n].kids[l])
                       IN  [p \in {<<l>> \o q : q \in DOMAIN t} |-> t[From(p, 1)]] @@ <<>>
       IN  FoldLeft(LAMBDA acc, l : acc @@ below(l), <<>>, SetToSeq(DOMAIN h[n].kids))

Snapshots(h, r) == [v \in DOMAIN r |-> Snapshot(h, r[v])]

\* initDb: the genesis state in one version.
Init ==
  /\ \E v \in Version : LET t == Build(<<>>, Genesis, v) IN heap = t.heap /\ roots = v :> t.node
  /\ trees = Snapshots(heap, roots)
  /\ steps = 0

\* cloneVersion
CloneVersion(v, w) ==
  /\ Step
  /\ v \in Held /\ w \notin Held
  /\ heap' = CloneNode(heap, roots[v], w)
  /\ roots' = Put(roots, w, Unused(heap))

\* DB.writeDatabase; the state always keeps some leaf.
Write(v, p, obj) ==
  /\ Step
  /\ v \in Held
  /\ LET h == WrittenTo(heap, roots[v], v, p, obj)
     IN  /\ h[roots[v]].kids # <<>>
         /\ heap' = h
  /\ UNCHANGED roots

\* A mutant for the runs: only the root goes.
FreeRoot(h, n) == [m \in DOMAIN h \ {n} |-> h[m]] @@ <<>>

\* deleteStateTreeVersion: a node without parents goes, and so on below it.
RECURSIVE Free(_, _)
Free(h, n) ==
  IF Parents(h, n) # {} THEN h
  ELSE LET g == [m \in DOMAIN h \ {n} |-> h[m]] @@ <<>>
       IN  FoldLeft(Free, g, SetToSeq(Range(h[n].kids)))

\* deleteVersion, of a version that is not final.
DeleteVersion(v) ==
  /\ Step
  /\ v \in Held /\ Cardinality(Held) > 1
  /\ heap' = Free(heap, roots[v])
  /\ roots' = [w \in Held \ {v} |-> roots[w]] @@ <<>>

\* renameStateTreeVersion stops below a node that is not renamed.
RECURSIVE Renamed(_, _, _, _, _)
Renamed(h, n, from, to, isRoot) ==
  LET g == IF h[n].version = from THEN [h EXCEPT ![n].version = to] ELSE h
  IN  IF isRoot \/ h[n].version = from
      THEN FoldLeft(LAMBDA acc, k : Renamed(acc, k, from, to, FALSE), g, SetToSeq(Range(h[n].kids)))
      ELSE g

\* transferStateTree
Transfer(v, w) ==
  /\ Step
  /\ w \in Held
  /\ heap' = Renamed(heap, roots[w], v, w, TRUE)
  /\ UNCHANGED roots

Next ==
  /\ \/ \E v, w \in Version : CloneVersion(v, w) \/ Transfer(v, w)
     \/ \E v \in Version : DeleteVersion(v)
     \/ \E v \in Version, p \in Path, o \in Object : Write(v, p, o)
  /\ trees' = Snapshots(heap', roots')

Spec == Init /\ [][Next]_vars

-----------------------------------------------------------------------------
(* Properties.                                                             *)

RECURSIVE Below(_)
Below(n) == {n} \cup UNION {Below(k) : k \in Range(heap[n].kids)}
Live == UNION {Below(roots[v]) : v \in Held}

Orphans == {n \in DOMAIN heap : Parents(heap, n) = {} /\ n \notin Range(roots)}

(***************************************************************************)
(* deleteVersion takes away all that only the deleted version reaches: no  *)
(* node loses its last parent and stays.                                   *)
(***************************************************************************)
DeletionLeavesNoOrphans == [][Held \ DOMAIN roots' # {} => Orphans' \subseteq Orphans]_vars

(***************************************************************************)
(* The proof hash a node keeps is the hash of the state below it now, in   *)
(* every version, after writes to any of them.                             *)
(***************************************************************************)
HashesAreFresh == \A n \in Live : heap[n].hash = HashOf(heap, n)

(***************************************************************************)
(* Two versions have the same root proof hash exactly when they hold the   *)
(* same state, however they were written: nothing of an earlier state      *)
(* stays behind in the nodes.  (The shape of the radix trees, which also   *)
(* enters the hash, is not in this model.)                                 *)
(***************************************************************************)
SameStateSameHash ==
  \A v, w \in Held : trees[v] = trees[w] <=> heap[roots[v]].hash = heap[roots[w]].hash

Trees == INSTANCE VersionedTrees

(***************************************************************************)
(* Versions that share nodes are separate trees, and a write does what it  *)
(* says: it replaces what is at, below and above its path, and leaves no   *)
(* empty node behind.                                                      *)
(***************************************************************************)
ImplementsTrees == Trees!Spec

=============================================================================
