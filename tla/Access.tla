------------------------------- MODULE Access ------------------------------
(***************************************************************************)
(* Who may write what.  The owners of a path decide about the owners, the  *)
(* rules and the functions at and below it, as far down as no other owners *)
(* are set; the rules decide in the same way about the values.  One action *)
(* per operation: SET_OWNER, SET_RULE, SET_FUNCTION and SET_VALUE, each of *)
(* which is refused (and changes nothing) or done as a whole.              *)
(*                                                                         *)
(* Collections with a garbage-collection rule lose their oldest children   *)
(* when a write has made them too large.                                   *)
(***************************************************************************)
EXTENDS ConfigTrees

CONSTANTS
  Auth,             \* who executes: [addr, fid], fid = Null outside of functions
  Natives,          \* the ids of the native functions
  Anyone,           \* the key "*" of owner configurations
  Admins,           \* the addresses of isConsensusAppAdmin
  OwnerOnly,        \* the ids of the functions that only admins may set
  ConfigPath,       \* the paths that configurations are set at
  OwnerChanges, RuleChanges, FunctionChanges,   \* what they are set to: trees or deletions
  Writes,           \* <<path, what is written>>: a function from relative paths to leaves, or a deletion
  MinDeleted        \* resource/min_gc_num_siblings_deleted

Addr == {auth.addr : auth \in Auth}

VARIABLES
  owners, rules, functions,   \* the trees of configurations
  values,                     \* the leaves of the values and what they hold
  order                       \* the nodes of the values, oldest first
vars == <<owners, rules, functions, values, order>>

AllPerms == {"branch_owner", "write_function", "write_owner", "write_rule"}

\* initDb
Init ==
  /\ owners = [p \in {<<>>} |-> [k \in {Anyone} |-> AllPerms]]
  /\ rules = [p \in {<<>>} |-> [k \in {"write"} |-> Addr]]
  /\ functions = Deletion
  /\ values = Deletion
  /\ order = <<>>

-----------------------------------------------------------------------------
(* Owners *)

\* matchOwnerPath knows no variables: each prefix meets itself
PrefixesOf(p) == [i \in 0..Len(p) |-> SubSeq(p, 1, i)]

\* getOwnerPermissions: the function's if one executes, else the address's, else anyone's
OwnerPermissions(config, auth) ==
  LET key == IF auth.fid # Null THEN auth.fid ELSE auth.addr
  IN  IF key \in DOMAIN config /\ config[key] # Null THEN config[key]
      ELSE IF Anyone \in DOMAIN config /\ config[Anyone] # Null THEN config[Anyone]
      ELSE {}

OwnersBelow(p) == ConfigsBelow(owners, p, Null)

\* An owner check without regard to the owners below
PermittedHere(p, auth, isMerge, perm) ==
  LET depth == ClosestDepth(owners, PrefixesOf(p), Null)
  IN  depth >= 0 /\ perm \in OwnerPermissions(owners[SubSeq(p, 1, depth)], auth)

\* getPermissionForRule, getPermissionForFunction
Permitted(p, auth, isMerge, perm) ==
  LET depth == ClosestDepth(owners, PrefixesOf(p), Null)
  IN  /\ isMerge \/ OwnersBelow(p) = {}
      /\ depth >= 0 /\ perm \in OwnerPermissions(owners[SubSeq(p, 1, depth)], auth)

\* getPermissionForOwner
PermittedForOwner(p, auth, isMerge) ==
  Permitted(p, auth, isMerge, IF p \in DOMAIN owners THEN "write_owner" ELSE "branch_owner")

\* isValidOwnerPermissions, isValidOwnerConfig: permissions, or a deletion, for at
\* least one address, native function or anyone
ValidPermissions(perms) == perms # Null => perms \subseteq AllPerms

ValidOwners(change) ==
  \A r \in DOMAIN change :
    /\ DOMAIN change[r] # {}
    /\ DOMAIN change[r] \subseteq Addr \cup Natives \cup {Anyone}
    /\ \A k \in DOMAIN change[r] : ValidPermissions(change[r][k])

SetOwner(auth, p, change) ==
  /\ ValidTree(p, change)
  /\ ValidOwners(change)
  /\ PermittedForOwner(p, auth, IsMerge(owners, p, change, TRUE))
  /\ owners' = Applied(owners, p, change, TRUE)
  /\ UNCHANGED <<rules, functions, values, order>>

\* Bounds that do not relate what is deleted to the limit
ValidLowerBounds(rule) == rule.gcMax > 0 /\ MinDeleted <= rule.gcDeleted

\* isValidStateRule, for garbage collection
ValidStateRule(rule) ==
  /\ rule.gcMax > 0
  /\ MinDeleted <= rule.gcDeleted
  /\ rule.gcDeleted <= rule.gcMax

ValidRules(change) ==
  \A r \in DOMAIN change :
    "state" \in DOMAIN change[r] /\ change[r]["state"] # Null => ValidStateRule(change[r]["state"])

SetRule(auth, p, change) ==
  /\ ValidTree(p, change)
  /\ ValidRules(change)
  /\ Permitted(p, auth, IsMerge(rules, p, change, FALSE), "write_rule")
  /\ rules' = Applied(rules, p, change, FALSE)
  /\ UNCHANGED <<owners, functions, values, order>>

\* isValidFunctionConfig: functions of a known form, or deletions, and at least one
ValidFunctions(change) ==
  \A r \in DOMAIN change :
    DOMAIN change[r] # {} /\ \A k \in DOMAIN change[r] : change[r][k] \in {TRUE, Null}

\* hasOwnerOnlyFunction
HasOwnerOnly(change) == \E r \in DOMAIN change : DOMAIN change[r] \cap OwnerOnly # {}

SetFunction(auth, p, change) ==
  /\ ValidTree(p, change)
  /\ ValidFunctions(change)
  /\ HasOwnerOnly(change) => auth.addr \in Admins
  /\ Permitted(p, auth, IsMerge(functions, p, change, FALSE), "write_function")
  /\ functions' = Applied(functions, p, change, FALSE)
  /\ UNCHANGED <<owners, rules, values, order>>

-----------------------------------------------------------------------------
(* Values *)

NodesOf(vs) == UNION {{SubSeq(q, 1, i) : i \in 1..Len(q)} : q \in DOMAIN vs}

\* evalWriteRuleConfig: a rule stands for the addresses it is true of; one that was
\* written as null is true of nobody
WriteRule(config, auth) == config["write"] # Null /\ auth.addr \in config["write"]

RulesBelow(at) == ConfigsBelow(rules, at, "write")

\* A closest rule that grants a write of what rules further below are about
WritableHere(v, auth) ==
  LET m == Match(rules, v)
      depth == ClosestDepth(rules, m, "write")
  IN  depth >= 0 /\ WriteRule(rules[m[depth]], auth)

\* getPermissionForValue, the write rules
Writable(v, auth) ==
  LET m == Match(rules, v)
      depth == ClosestDepth(rules, m, "write")
  IN  /\ RulesBelow(m[Len(v)]) = {}
      /\ depth >= 0 /\ WriteRule(rules[m[depth]], auth)

\* The state rule that is matched, and its depth
StateDepth(v) == ClosestDepth(rules, Match(rules, v), "state")
StateRule(v) == rules[Match(rules, v)[StateDepth(v)]]["state"]

\* evalStateRuleConfig, max_children: what is written may not have more children
FitsStateRule(v, obj) ==
  StateDepth(v) >= 0 /\ StateRule(v) # Null =>
    Cardinality({r[1] : r \in DOMAIN obj \ {<<>>}}) <= StateRule(v).maxChildren

\* A write that leaves the leaves on the way
PutBelow(vs, v, obj) == Written(vs, v, obj)

\* Leaves on the way to the path stop being leaves
Put(vs, v, obj) ==
  LET w == Written(vs, v, obj)
  IN  [q \in {o \in DOMAIN w : ~IsStrictPrefix(o, v)} |-> w[q]]

\* Nodes that go and nodes that come; those below the path are all new
Reordered(ord, vs, v) ==
  LET kept == SelectSeq(ord, LAMBDA n : n \in NodesOf(vs) /\ ~IsStrictPrefix(v, n))
      new == SetToSeqs(NodesOf(vs) \ ToSet(kept))
  IN  {kept \o s : s \in new}

ChildrenOf(ord, p) == SelectSeq(ord, LAMBDA n : Len(n) = Len(p) + 1 /\ IsPrefix(p, n))

\* A collection that begins one child too late
CollectedLate(v, ord) ==
  LET depth == StateDepth(v)
      siblings == ChildrenOf(ord, SubSeq(v, 1, depth - 1))
  IN  IF depth < 1 \/ StateRule(v) = Null \/ Len(siblings) <= StateRule(v).gcMax + 1 THEN {}
      ELSE {siblings[i] : i \in 1..StateRule(v).gcDeleted}

\* applyStateGarbageCollectionRule: the children to delete
Collected(v, ord) ==
  LET depth == StateDepth(v)
      siblings == ChildrenOf(ord, SubSeq(v, 1, depth - 1))
  IN  IF depth < 1 \/ StateRule(v) = Null \/ Len(siblings) <= StateRule(v).gcMax THEN {}
      ELSE {siblings[i] : i \in 1..StateRule(v).gcDeleted}

Without(vs, gone) == [q \in {o \in DOMAIN vs : ~\E g \in gone : IsPrefix(g, o)} |-> vs[q]]

SetValue(auth, v, obj) ==
  /\ Writable(v, auth)
  /\ FitsStateRule(v, obj)
  /\ \E ord \in Reordered(order, Put(values, v, obj), v) :
       LET gone == IF obj = Deletion THEN {} ELSE Collected(v, ord)
       IN  /\ values' = Without(Put(values, v, obj), gone)
           /\ order' = SelectSeq(ord, LAMBDA n : n \in NodesOf(values'))
  /\ UNCHANGED <<owners, rules, functions>>

-----------------------------------------------------------------------------
Acts(auth) ==
  \/ \E p \in ConfigPath, c \in OwnerChanges : SetOwner(auth, p, c)
  \/ \E p \in ConfigPath, c \in RuleChanges : SetRule(auth, p, c)
  \/ \E p \in ConfigPath, c \in FunctionChanges : SetFunction(auth, p, c)
  \/ \E w \in Writes : SetValue(auth, w[1], w[2])

Next == \E auth \in Auth : Acts(auth)

Spec == Init /\ [][Next]_vars

-----------------------------------------------------------------------------
(* Properties *)

\* The state has the shape the operations give it: the nodes in order are the
\* nodes of the values, each once
TypeOK ==
  /\ \A p \in DOMAIN owners : \A k \in DOMAIN owners[p] : ValidPermissions(owners[p][k])
  /\ ToSet(order) = NodesOf(values)
  /\ Len(order) = Cardinality(NodesOf(values))
  /\ \A p, q \in DOMAIN values : ~IsStrictPrefix(p, q)

\* The owners that are in charge of a path, by their definition: those set at its
\* longest prefix that has any
InCharge(p, auth, perm) ==
  \E i \in 0..Len(p) :
    /\ SubSeq(p, 1, i) \in DOMAIN owners
    /\ \A j \in i + 1..Len(p) : SubSeq(p, 1, j) \notin DOMAIN owners
    /\ LET config == owners[SubSeq(p, 1, i)]
           key == IF auth.fid # Null THEN auth.fid ELSE auth.addr
       IN  \/ key \in DOMAIN config /\ config[key] # Null /\ perm \in config[key]
           \/ /\ key \in DOMAIN config => config[key] = Null
              /\ Anyone \in DOMAIN config /\ config[Anyone] # Null /\ perm \in config[Anyone]

Changed(t, u) == {p \in DOMAIN t \cup DOMAIN u : p \notin DOMAIN t \/ p \notin DOMAIN u \/ t[p] # u[p]}

\* Every configuration that an operation changes, at its path or anywhere below, was
\* in the charge of owners that let who acts change it: what is written in one piece
\* never takes away what others own, and what only admins may set is set by them
\* (setOwner, setRule and setFunction).
OwnersDecide ==
  [][\A auth \in Auth :
       \/ UNCHANGED <<owners, rules, functions>>
       \/ /\ \A p \in Changed(owners, owners') :
               InCharge(p, auth, IF p \in DOMAIN owners THEN "write_owner" ELSE "branch_owner")
          /\ \A p \in Changed(rules, rules') : InCharge(p, auth, "write_rule")
          /\ \A p \in Changed(functions, functions') : InCharge(p, auth, "write_function")
          /\ \A p \in Changed(functions, functions') \cap DOMAIN functions' :
               DOMAIN functions'[p] \cap OwnerOnly # {} =>
                 auth.addr \in Admins \/ (p \in DOMAIN functions /\ DOMAIN functions[p] \cap OwnerOnly # {})
       \/ ~Acts(auth)]_vars

\* A path whose owners were all taken away, one by one, keeps its configuration for
\* good: nobody may give it owners again, nor write over it from above (setOwner).
OrphansStay ==
  [][\A p \in DOMAIN owners :
       (\A k \in DOMAIN owners[p] : owners[p][k] = Null) =>
         p \in DOMAIN owners' /\ owners'[p] = owners[p]]_vars

\* Which write rule a value is about, by the rules alone: the one that the longest
\* prefix of its path meets, where a prefix meets a node with its last label or else
\* one with a variable
MeetsRule(p, r) ==
  /\ Len(r) = Len(p)
  /\ \A i \in DOMAIN p :
       IF HasNode(rules, Append(SubSeq(r, 1, i - 1), p[i])) THEN r[i] = p[i]
       ELSE r[i] \in Variable /\ HasNode(rules, SubSeq(r, 1, i))

RuledBy(p) ==
  LET met == {r \in DOMAIN rules : "write" \in DOMAIN rules[r] /\ \E i \in 0..Len(p) : MeetsRule(SubSeq(p, 1, i), r)}
  IN  {r \in met : \A o \in met : Len(o) <= Len(r)}

\* A leaf that a write adds, changes or removes is one that the write rule it is about
\* lets who acts write, even when the write was of a whole object above it.  Only the
\* oldest children of a collection go without that (setValue, getPermissionForValue).
RulesDecide ==
  [][\A auth \in Auth :
       \/ UNCHANGED values
       \/ \A p \in Changed(values, values') :
            \/ \E r \in RuledBy(p) : rules[r]["write"] # Null /\ auth.addr \in rules[r]["write"]
            \/ \E c \in {SubSeq(p, 1, i) : i \in 1..Len(p)} :
                 /\ c \notin NodesOf(values')
                 /\ \E r \in DOMAIN rules : Len(r) = Len(c) /\ "state" \in DOMAIN rules[r]
       \/ ~Acts(auth)]_vars

\* A child that is new when its collection is full stays, whatever goes to make room
\* (applyStateGarbageCollectionRule after the bounds isValidStateRule sets).
NewestSurvives ==
  [][\A auth \in Auth, w \in Writes :
       \/ UNCHANGED values
       \/ w[1] \in NodesOf(values) \cup NodesOf(values')
       \/ w[2] = Deletion
       \/ ~SetValue(auth, w[1], w[2])]_vars

\* A collection that has reached its limit does not grow by the writes of its children.
FullNeverGrows ==
  [][\A v \in {w[1] : w \in Writes} :
       \/ UNCHANGED order
       \/ StateDepth(v) < 1
       \/ StateRule(v) = Null
       \/ LET parent == SubSeq(v, 1, StateDepth(v) - 1)
              before == Len(ChildrenOf(order, parent))
          IN  StateRule(v).gcMax <= before => Len(ChildrenOf(order', parent)) <= before
       \/ ~\E auth \in Auth, w \in Writes : w[1] = v /\ SetValue(auth, v, w[2])]_vars

=============================================================================
