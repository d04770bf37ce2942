--------------------------- MODULE VersionedTrees ---------------------------
(***************************************************************************)
(* What the versions of the state promise, abstractly: each of them is a   *)
(* tree of values of its own.  A tree, and an object that is written into  *)
(* one, is the function from the paths of its leaves to their values, so   *)
(* nothing is left of a subtree without leaves.                            *)
(***************************************************************************)
EXTENDS Sequences, SequencesExt

CONSTANTS Version, Path, Object, Genesis, Null

VARIABLE trees  \* the tree of every version that is held

Related(p, q) == IsPrefix(p, q) \/ IsPrefix(q, p)
Nothing == <<>> :> Null

\* The object takes the place of everything at, below and above its path.
Written(t, p, obj) ==
  LET kept == [q \in {q \in DOMAIN t : ~Related(p, q)} |-> t[q]]
  IN  IF obj = Nothing THEN kept
      ELSE [q \in {p \o r : r \in DOMAIN obj} |-> obj[SubSeq(q, Len(p) + 1, Len(q))]] @@ kept

Cloned(m)    == {(w :> m[v]) @@ m : v \in DOMAIN m, w \in Version \ DOMAIN m}
Discarded(m) == {[w \in DOMAIN m \ {v} |-> m[w]] : v \in DOMAIN m}
Changed(m)   == {[m EXCEPT ![v] = Written(@, p, o)] : v \in DOMAIN m, p \in Path, o \in Object}

Init == \E v \in Version : trees = v :> Genesis

Next ==
  /\ trees' # trees
  /\ \E m \in {trees} : trees' \in Cloned(m) \cup Discarded(m) \cup Changed(m)

Spec == Init /\ [][Next]_trees
=============================================================================
