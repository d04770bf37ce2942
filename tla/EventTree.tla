----------------------------- MODULE EventTree -----------------------------
(***************************************************************************)
(* The tree of the paths that event filters watch (event-handler/          *)
(* state-event-tree-manager.js).  A node is the path that leads to it, and *)
(* an event node the set of the filters on its path.                       *)
(***************************************************************************)
EXTENDS Naturals, SequencesExt

CONSTANTS
  Filter,     \* global ids of filters
  Pattern,    \* paths that filters watch, a variable label being Wildcard
  ValuePath,  \* paths of values that change
  Wildcard

PathsAreAssumed == \A p \in Pattern \cup ValuePath : p \in Seq(Range(p)) \ {<<>>}

VARIABLES
  nodes,  \* stateEventTree
  events, \* the filterIdSet of every event node
  parsed  \* filterIdToParsedPath

treeVars == <<nodes, events, parsed>>

InitTree == nodes = {} /\ events = <<>> /\ parsed = <<>>

WaysTo(p) == Prefixes(p) \ {<<>>}
Without(f, S) == [x \in DOMAIN f \ S |-> f[x]]

\* registerEventFilterId
RegisterEventFilterId(f, p) ==
  /\ nodes' = nodes \cup WaysTo(p)
  /\ events' = [q \in DOMAIN events \cup {p} |->
                  IF q # p THEN events[q]
                  ELSE {f} \cup IF p \in DOMAIN events THEN events[p] ELSE {}]
  /\ parsed' = [g \in DOMAIN parsed \cup {f} |-> IF g = f THEN p ELSE parsed[g]]

\* A mutant for the runs: the path is looked up after it was deleted, so nothing is found.
EventsKept(visited) == events

(***************************************************************************)
(* The event nodes that deleteEmptyNodes leaves.  It asks the iterator of  *)
(* the filter ids for its length, which is undefined, so that no event     *)
(* node counts as non-empty and the loop never stops early.                *)
(***************************************************************************)
EventsAfter(visited) == Without(events, visited)

\* A mutant for the runs: nodes are looked at from the root down.
NodesFromRoot(visited) ==
  {q \in nodes : q \notin visited \/ \E r \in nodes : IsStrictPrefix(q, r)}

\* A node goes when nothing below it stays.
NodesAfter(visited) ==
  {q \in nodes : \E r \in nodes \ visited : q = r \/ IsStrictPrefix(q, r)}

(***************************************************************************)
(* deregisterEventFilterId of the filters of S, one after the other.       *)
(* visitNodes stops where the path was deleted already; a node on the way  *)
(* to the path of one filter goes with the last filter below it, so their  *)
(* order does not matter.                                                  *)
(***************************************************************************)
DeregisterEventFilterIds(S) ==
  LET visited == nodes \cap UNION {WaysTo(parsed[f]) : f \in S}
  IN  /\ parsed' = Without(parsed, S)
      /\ events' = EventsAfter(visited)
      /\ nodes' = NodesAfter(visited)

Matches(p, v) == Len(p) = Len(v) /\ \A i \in DOMAIN v : p[i] \in {v[i], Wildcard}

\* matchEventFilterPath
MatchEventFilterPath(v) == UNION {events[p] : p \in {q \in DOMAIN events : Matches(q, v)}}

-----------------------------------------------------------------------------
(***************************************************************************)
(* What matches a changed value is registered, on a path of that form:     *)
(* emitValueChanged reads the filter of every id it gets, after any        *)
(* sequence of deregistrations (matchEventFilterPath).                     *)
(***************************************************************************)
MatchedIsRegistered ==
  \A v \in ValuePath : \A f \in MatchEventFilterPath(v) :
    f \in DOMAIN parsed /\ Matches(parsed[f], v)

\* Every event node is reached from the root, and no empty node is left behind
\* (deleteEmptyNodes).
TreeIsTight ==
  /\ \A p \in nodes : WaysTo(p) \subseteq nodes
  /\ \A p \in nodes : \E q \in DOMAIN events : q = p \/ IsStrictPrefix(p, q)
  /\ \A p \in DOMAIN events : p \in nodes /\ events[p] # {}

=============================================================================
