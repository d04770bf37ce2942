--------------------------- MODULE VersionedMaps ---------------------------
(***************************************************************************)
(* What the children of a state node promise, abstractly: every version of *)
(* the state is a list of labels with values, in the order of their        *)
(* insertion, and what is done to one version is not seen in another.      *)
(***************************************************************************)
EXTENDS Sequences, SequencesExt

CONSTANTS Version, Label, Value

VARIABLE maps  \* the list of every version that is held

LabelsOf(s) == {s[i][1] : i \in DOMAIN s}

Put(s, l, x) ==
  IF l \in LabelsOf(s)
  THEN [i \in DOMAIN s |-> IF s[i][1] = l THEN <<l, x>> ELSE s[i]]
  ELSE Append(s, <<l, x>>)

Without(s, l) == SelectSeq(s, LAMBDA e : e[1] # l)

\* What the versions may be after one operation.
Cloned(m)    == {(w :> m[v]) @@ m : v \in DOMAIN m, w \in Version \ DOMAIN m}
Discarded(m) == {[w \in DOMAIN m \ {v} |-> m[w]] : v \in DOMAIN m}
WithSet(m)   == {[m EXCEPT ![v] = Put(@, l, x)] : v \in DOMAIN m, l \in Label, x \in Value}
WithoutOne(m) == UNION {{[m EXCEPT ![v] = Without(@, l)] : l \in LabelsOf(m[v])} : v \in DOMAIN m}

Init == \E v \in Version : maps = v :> <<>>

Next ==
  /\ maps' # maps
  /\ \E m \in {maps} : maps' \in Cloned(m) \cup Discarded(m) \cup WithSet(m) \cup WithoutOne(m)

Spec == Init /\ [][Next]_maps
=============================================================================
