------------------------------ MODULE Triggers ------------------------------
(***************************************************************************)
(* The functions that a write of a value triggers.  DB.setValue writes,    *)
(* then calls the functions that are set at the path and those set below   *)
(* it, once for each value they match; a native function may write values  *)
(* itself, which triggers functions in turn.  One function is never on the *)
(* call stack twice.  If any of them fails, the operation has failed and   *)
(* is undone.                                                              *)
(*                                                                         *)
(* The recursion is spelled out: the stack has a frame for every write and *)
(* every call under way, and one step does what is next at its top.        *)
(***************************************************************************)
EXTENDS ConfigTrees

CONSTANTS
  FunctionTree,    \* path |-> ids in their order; ids of the functions below
  Denied,          \* the paths that the write rules let nobody write
  Operations,      \* what users write: <<path, object>>
  NumberOf,        \* the block numbers of the labels that are ones
  MaxDepth         \* bound of the stack, never reached

\* The native functions that are modelled, by their ids
Fid == {"_saveLastTx", "_eraseValue", "_fail", "_updateLatestShardReport"}

FunctionTreeAssumption == \A p \in DOMAIN FunctionTree : ToSet(FunctionTree[p]) \subseteq Fid

VARIABLES
  values,     \* the leaves of the values
  stack,      \* the writes and the calls under way
  saved,      \* the backup of the values from before the operation
  anyFailed   \* whether a call or a write of the operation has failed
vars == <<values, stack, saved, anyFailed>>

Init ==
  /\ values = Deletion
  /\ stack = <<>>
  /\ saved = values
  /\ anyFailed = FALSE

-----------------------------------------------------------------------------
(* Which functions *)

Subtree(vs, p) ==
  LET below == {q \in DOMAIN vs : IsPrefix(p, q)}
  IN  [r \in {SubSeq(q, Len(p) + 1, Len(q)) : q \in below} |-> vs[p \o r]]

NodesOf(obj) == UNION {{SubSeq(r, 1, i) : i \in 0..Len(r)} : r \in DOMAIN obj}

\* matchValueWithFunctionPath: a variable stands for every label
Matching(obj, f) ==
  {r \in NodesOf(obj) : /\ Len(r) = Len(f)
                        /\ \A i \in DOMAIN f : f[i] \in Variable \/ f[i] = r[i]}

\* The order among the values below is that of an object's keys: it is fixed here
InSomeOrder(groups) == FoldSet(LAMBDA g, order : Append(order, g), <<>>, groups)

Group(path, value, fids) == [path |-> path, value |-> value, fids |-> fids]

\* matchFunctionForParsedPath: the node that the whole path meets, and what is set there
MatchedNode(path) == Match(FunctionTree, path)[Len(path)]
FidsAt(node) == IF node \in DOMAIN FunctionTree THEN FunctionTree[node] ELSE <<>>

\* Subtree functions of values that are there, but not of those that went
GroupsOfWritten(path, obj, prev) ==
  LET node == MatchedNode(path)
      below(f) == SubSeq(f, Len(node) + 1, Len(f))
      pairs == UNION {{<<f, r>> : r \in Matching(obj, below(f))} : f \in ConfigsBelow(FunctionTree, node, Null)}
      subtree == {Group(path \o p[2], Subtree(obj, p[2]), FunctionTree[p[1]]) : p \in pairs}
  IN  <<Group(path, obj, FidsAt(node))>> \o InSomeOrder(subtree)

\* matchAndTriggerFunctions: what to trigger, in groups of one function path and one
\* value path; values that go come with null
Groups(path, obj, prev) ==
  LET node == MatchedNode(path)
      below(f) == SubSeq(f, Len(node) + 1, Len(f))
      pairs(f) == {<<f, r>> : r \in Matching(obj, below(f)) \cup Matching(prev, below(f))}
      all == UNION {pairs(f) : f \in ConfigsBelow(FunctionTree, node, Null)}
      gone == {p \in all : p[2] \notin NodesOf(obj)}
      group(p) == Group(path \o p[2], Subtree(obj, p[2]), FunctionTree[p[1]])
  IN  <<Group(path, obj, FidsAt(node))>>
        \o InSomeOrder({group(p) : p \in gone}) \o InSomeOrder({group(p) : p \in all \ gone})

-----------------------------------------------------------------------------
(* The stack *)

Top == stack[Len(stack)]
Below == Front(stack)

\* getFids: the ids of the calls under way
Fids == {stack[i].fid : i \in {j \in DOMAIN stack : stack[j].kind = "call"}}

\* A test that never sees a circle
NeverCircular(fid) == FALSE

\* isCircularCall
IsCircularCall(fid) == fid \in Fids

\* A write that keeps the leaves on its way
PutBelow(vs, path, obj) == Written(vs, path, obj)

\* writeDatabase: leaves on the way stop being leaves
Put(vs, path, obj) ==
  LET w == Written(vs, path, obj)
  IN  [q \in {o \in DOMAIN w : ~IsStrictPrefix(o, path)} |-> w[q]]

SetFrame(path, obj) ==
  [kind |-> "set", groups |-> Groups(path, obj, Subtree(values, path)),
   main |-> TRUE, failed |-> FALSE, subtreeFailed |-> FALSE]

CallFrame(group) == [kind |-> "call", fid |-> Head(group.fids), path |-> group.path, value |-> group.value]

\* A result that forgets about the functions further below
FailedAbove(frame) == frame.failed

\* isFailedFuncTrigger, isFailedSubtreeFuncTrigger
HasFailed(frame) == frame.failed \/ frame.subtreeFailed

\* A call returns to the write that triggered it; if it has failed, the rest of its
\* group is not called
Returned(frames, failed) ==
  LET frame == frames[Len(frames)]
      rest == [frame EXCEPT !.groups[1].fids = <<>>,
                            !.failed = @ \/ frame.main, !.subtreeFailed = @ \/ ~frame.main]
  IN  IF failed THEN Front(frames) \o <<rest>> ELSE frames

-----------------------------------------------------------------------------
(* Operations of users *)

\* setValue of an operation, after the backup of executeTransaction
Begin(path, obj) ==
  /\ stack = <<>>
  /\ path \notin Denied
  /\ values' = Put(values, path, obj)
  /\ stack' = <<SetFrame(path, obj)>>
  /\ saved' = values
  /\ anyFailed' = FALSE

Running == Len(stack) > 0 /\ Len(stack) < MaxDepth

\* triggerFunctions: the next function of a group, or the next group
Trigger ==
  /\ Running
  /\ Top.kind = "set"
  /\ Top.groups # <<>>
  /\ LET group == Head(Top.groups)
         fids == group.fids
         next == IF fids = <<>> THEN [Top EXCEPT !.groups = Tail(@), !.main = FALSE]
                 ELSE [Top EXCEPT !.groups[1].fids = Tail(@)]
     IN  stack' = IF fids = <<>> \/ IsCircularCall(Head(fids)) THEN Below \o <<next>>
                  ELSE Below \o <<next, CallFrame(group)>>
  /\ UNCHANGED <<values, saved, anyFailed>>

\* setValue returns: to the user, or to the function that called it, which returns too
FinishSet ==
  /\ Running
  /\ Top.kind = "set"
  /\ Top.groups = <<>>
  /\ IF Len(stack) = 1
     THEN /\ stack' = <<>>
          /\ values' = IF HasFailed(Top) THEN saved ELSE values
     ELSE /\ stack' = Returned(Front(Below), HasFailed(Top))
          /\ UNCHANGED values
  /\ UNCHANGED <<saved, anyFailed>>

\* A call that returns without a write
ReturnFromCall(failed) ==
  /\ stack' = Returned(Below, failed)
  /\ anyFailed' = (anyFailed \/ failed)
  /\ UNCHANGED <<values, saved>>

\* setValueOrLog
WriteInCall(path, obj) ==
  IF path \in Denied THEN ReturnFromCall(TRUE)
  ELSE /\ values' = Put(values, path, obj)
       /\ stack' = Append(stack, SetFrame(path, obj))
       /\ UNCHANGED <<saved, anyFailed>>

Calling(fid) == Running /\ Top.kind = "call" /\ Top.fid = fid
LeafOf(value) == [r \in {<<>>} |-> value]

\* Every function does nothing for a null value
NullCall ==
  /\ \E fid \in Fid : Calling(fid)
  /\ Top.value = Deletion
  /\ ReturnFromCall(FALSE)

SaveLastTx ==
  /\ Calling("_saveLastTx")
  /\ Top.value # Deletion
  /\ IF Top.path = <<>> THEN ReturnFromCall(FALSE)
     ELSE WriteInCall(Front(Top.path) \o <<".last_tx", Last(Top.path)>>, LeafOf("tx_hash"))

EraseValue ==
  /\ Calling("_eraseValue")
  /\ Top.value # Deletion
  /\ WriteInCall(Top.path, LeafOf("erased"))

Fail ==
  /\ Calling("_fail")
  /\ Top.value # Deletion
  /\ ReturnFromCall(TRUE)

LatestPath(path) == SubSeq(path, 1, Len(path) - 3) \o <<"latest_block_number">>
LatestOf(vs, path) == LET p == LatestPath(path) IN IF p \in DOMAIN vs THEN NumberOf[vs[p]] ELSE -1

\* An update with whatever was reported last
IsAnotherReport(path) == LatestOf(values, path) # NumberOf[path[Len(path) - 1]]

\* A report that is newer than the latest
IsNewerReport(path) == LatestOf(values, path) < NumberOf[path[Len(path) - 1]]

UpdateLatestShardReport ==
  /\ Calling("_updateLatestShardReport")
  /\ Top.value # Deletion
  /\ IF DOMAIN Top.value # {<<>>} \/ ~IsNewerReport(Top.path) THEN ReturnFromCall(FALSE)
     ELSE WriteInCall(LatestPath(Top.path), LeafOf(Top.path[Len(Top.path) - 1]))

Step == Trigger \/ FinishSet \/ NullCall \/ SaveLastTx \/ EraseValue \/ Fail \/ UpdateLatestShardReport

Next == Step \/ \E o \in Operations : Begin(o[1], o[2])

\* A write is executed to its end by the thread that started it
Spec == Init /\ [][Next]_vars /\ WF_vars(Step)

-----------------------------------------------------------------------------
(* Properties *)

\* Frames of writes and of calls take turns, from a write on
TypeOK ==
  /\ \A i \in DOMAIN stack : stack[i].kind = IF i % 2 = 1 THEN "set" ELSE "call"
  /\ \A p, q \in DOMAIN values : ~IsStrictPrefix(p, q)
  /\ anyFailed \in BOOLEAN

\* An operation of which any call failed, however deep and below whichever value, has
\* left nothing behind when it is over (setValue, isFailedTx, executeTransaction).
FailureUndoes == stack = <<>> /\ anyFailed => values = saved

\* Every write ends, whatever functions are set where: the calls do not go in circles
\* (isCircularCall).
EveryWriteEnds == []<>(stack = <<>>)

\* The functions of a path alone: those set at the most specific node it meets
DirectFids(path) == FidsAt(MatchedNode(path))

Pushed == stack' # <<>> /\ Len(stack') > Len(stack) /\ stack'[Len(stack')].kind = "set"

\* A write triggers the functions of every path at which it changes a value: those at
\* and below the path that have a value now, with that value, and those that have one
\* no more, with null (matchAndTriggerFunctions).
EveryPathIsTriggered ==
  [][Pushed =>
       LET groups == stack'[Len(stack')].groups
           path == groups[1].path
           was == {path \o r : r \in NodesOf(Subtree(values, path))}
           is == {path \o r : r \in NodesOf(Subtree(values', path))}
       IN  \A q \in was \cup is :
             DirectFids(q) # <<>> =>
               \E i \in DOMAIN groups :
                 /\ groups[i].path = q /\ groups[i].fids = DirectFids(q)
                 /\ groups[i].value = Subtree(values', q)]_vars

\* The latest block number of a shard is never behind a report that is there
\* (_updateLatestShardReport), whatever order reports arrive in.
LatestIsLargest ==
  stack = <<>> =>
    \A p \in DOMAIN values :
      "_updateLatestShardReport" \in ToSet(DirectFids(p)) =>
        NumberOf[p[Len(p) - 1]] <= LatestOf(values, p)
=============================================================================
