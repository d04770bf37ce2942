----------------------------- MODULE MCServices -----------------------------
(* The instance of Services that TLC explores, within the bounds below.    *)
EXTENDS Services, TLC

CONSTANTS n0, n0b, n1, u0, s1, c1, c2, aa, b, v, ch1, ch2, id1, id2, p1, p2, p3

\* An account with nonces, one with timestamps, and a validator
AddressOfTx == n0 :> aa @@ n0b :> aa @@ n1 :> aa @@ u0 :> aa @@ s1 :> b @@ c1 :> v @@ c2 :> v
OrderOfTx == n0 :> 0 @@ n0b :> 0 @@ n1 :> 1 @@ u0 :> 0 @@ s1 :> 1

\* Two accounts and one block at a time, two transactions of one turn in a fork, or one
\* without a turn, beside one that has it or in a fork and again after its block
Groups == {{n0, n1, s1, c1}, {n0, n0b, c1, c2}, {n0, u0, c1}, {u0, c1, c2}}

\* Paths of one to three labels, with wildcards
Patterns == {<<"a">>, <<"a", "b">>, <<"a", "*">>, <<"a", "b", "c">>, <<"*", "c">>}
ValuePaths == {<<"a">>, <<"a", "b">>, <<"a", "c">>, <<"a", "b", "c">>, <<"b", "c">>}

\* Two peers that are not equally far
FromGenesis == [p \in {p1, p2} |-> 0]
UnevenTips == [p \in {p1, p2} |-> IF p = p1 THEN 3 ELSE 4]

\* A peer that started from a snapshot itself, one that follows another chain and has
\* no snapshot, and one that has everything
FirstOnDisk == [p \in {p1, p2, p3} |-> IF p = p1 THEN 3 ELSE 0]

-----------------------------------------------------------------------------
(***************************************************************************)
(* Bounds of the exploration: the pool has either one block at a time and  *)
(* time that passes, or a fork of blocks with two transactions of one turn *)
(* and no time, or a fork and time with one that has no turn (Groups); the *)
(* event handler has either two channels with paths of one label, or one   *)
(* with two filters and any path.                                          *)
(***************************************************************************)

PoolScenario ==
  \/ Pool!Seen \subseteq {n0, n1, s1, c1}
  \/ Pool!Seen \subseteq {u0, c1, c2}
  \/ poolNow = 0

EventsScenario ==
  \/ /\ \A f \in DOMAIN handFilters : f[2] = id1
     /\ \A f \in DOMAIN handParsed : Len(handParsed[f]) = 1
     /\ handSerial <= 2
  \/ handSocket[ch2] = "new"

Explored == Init /\ [][Next /\ PoolScenario' /\ EventsScenario']_vars
=============================================================================
