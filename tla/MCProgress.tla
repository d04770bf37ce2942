----------------------------- MODULE MCProgress -----------------------------
(***************************************************************************)
(* What must eventually happen, in small instances beside one another: the *)
(* validators of a synchronous network finalize, the event handler gets    *)
(* rid of what is gone, a node that is behind catches up, a shard reports  *)
(* its blocks, a node that starts fetches the old chain, and a write ends. *)
(* Only one of them, part, takes steps; its fairness is the one its module *)
(* justifies, restated here for that part alone.                           *)
(***************************************************************************)
EXTENDS MCConsensus

CONSTANTS ch1, id1, id2, t1, p1, p2, r1, Null

Parts == {"consensus", "filters", "sync", "reports", "foreign", "pruned", "triggers"}

VARIABLES
  part,
  handNodes, handEvents, handParsed, handChannels, handSocket, handIsAlive, handSilent,
  handFilters, handFilterIds, handChannelOf, handOfType, handOfTx, handCallback, handTimers,
  handTxState, handTold, handSerial,
  syncState, syncLast, syncNotarized, syncPool, syncDisk, syncSync, syncAsleep, syncOutbound,
  syncReqs, syncResp, syncTip, syncFaults,
  repLast, repSent, repBusy, repCalls, repTxs, repLatest, repReports, repFaults,
  coldState, coldStateSync, coldOldSync, coldOldDone, coldAsleep, coldOldest, coldDisk,
  coldOutbound, coldSent, coldGot, coldStream, coldFaults,
  trigValues, trigStack, trigSaved, trigFailed

-----------------------------------------------------------------------------
\* One channel with two filters
TwoOfOne == {ch1} \X {id1, id2}
Filters == INSTANCE EventHandler
  WITH Channel <- {ch1}, ClientFilterId <- {id1, id2}, Filter <- TwoOfOne,
       Pattern <- {<<"a">>}, ValuePath <- {<<"a">>}, Wildcard <- "*", Tx <- {t1},
       Reported <- {"PENDING", "FINALIZED"},
       MaxChannels <- 2, MaxFilters <- 2, MaxFiltersPerChannel <- 2, MaxRegistrations <- 2,
       nodes <- handNodes, events <- handEvents, parsed <- handParsed,
       channels <- handChannels, socket <- handSocket, isAlive <- handIsAlive,
       silent <- handSilent, filters <- handFilters, filterIds <- handFilterIds,
       channelOf <- handChannelOf, ofType <- handOfType, ofTx <- handOfTx,
       callback <- handCallback, timers <- handTimers, txState <- handTxState,
       told <- handTold, serial <- handSerial

\* Two peers that have all blocks up to 5; 2, 3 and 5 each end three consecutive epochs
FromGenesis == [p \in {p1, p2} |-> 0]
SameTips == [p \in {p1, p2} |-> 5]
Syncing == INSTANCE ChainSync
  WITH Peer <- {p1, p2}, Foreign <- {}, First <- FromGenesis, InitTip <- SameTips,
       MaxBlock <- 5, Closing <- {2, 3, 5}, SegmentLength <- 3, MaxInFlight <- 1, MaxFaults <- 1,
       state <- syncState, last <- syncLast, notarized <- syncNotarized, pool <- syncPool,
       disk <- syncDisk, sync <- syncSync, asleep <- syncAsleep, outbound <- syncOutbound,
       reqs <- syncReqs, resp <- syncResp, tip <- syncTip, faults <- syncFaults

\* One call of the reporter at a time
Reports == INSTANCE ShardReports
  WITH Call <- {r1}, MaxBlock <- 5, Period <- 2, Limit <- 3, MaxReports <- 3, NumDeleted <- 2,
       Lightweight <- FALSE, MaxFaults <- 1,
       last <- repLast, sent <- repSent, busy <- repBusy, calls <- repCalls, txs <- repTxs,
       latest <- repLatest, reports <- repReports, faults <- repFaults

\* A peer that follows another chain, and one that has everything
ColdForeign == INSTANCE ColdStart
  WITH Peer <- {p1, p2}, Foreign <- {p1}, HasSnapshot <- {p2}, First <- FromGenesis,
       NumChunks <- 2, Top <- 5, MaxBlock <- 6, OldSegmentLength <- 2, MaxFaults <- 3, MaxLosses <- 0,
       state <- coldState, stateSync <- coldStateSync, oldSync <- coldOldSync,
       oldDone <- coldOldDone, asleep <- coldAsleep, oldest <- coldOldest, disk <- coldDisk,
       outbound <- coldOutbound, sent <- coldSent, got <- coldGot, stream <- coldStream,
       faults <- coldFaults

\* A peer that started from a snapshot itself, and one that has everything
FirstOnDisk == [p \in {p1, p2} |-> IF p = p1 THEN 4 ELSE 0]
ColdPruned == INSTANCE ColdStart
  WITH Peer <- {p1, p2}, Foreign <- {}, HasSnapshot <- {p1, p2}, First <- FirstOnDisk,
       NumChunks <- 2, Top <- 5, MaxBlock <- 6, OldSegmentLength <- 2, MaxFaults <- 3, MaxLosses <- 0,
       state <- coldState, stateSync <- coldStateSync, oldSync <- coldOldSync,
       oldDone <- coldOldDone, asleep <- coldAsleep, oldest <- coldOldest, disk <- coldDisk,
       outbound <- coldOutbound, sent <- coldSent, got <- coldGot, stream <- coldStream,
       faults <- coldFaults

\* Functions that call each other's paths
FunctionsSet ==
  <<"r", "$x">> :> <<"_eraseValue", "_saveLastTx">>
  @@ <<"t", "$x">> :> <<"_saveLastTx", "_fail", "_eraseValue">>
  @@ <<"u">> :> <<"_saveLastTx">>
  @@ <<"u", "$x">> :> <<"_eraseValue">>
  @@ <<".last_tx", "u">> :> <<"_saveLastTx", "_eraseValue">>
V == "value"
AB == <<"a">> :> V @@ <<"b">> :> V
CirclingWrites ==
  {<<<<"r", "a">>, <<>> :> V>>, <<<<"r">>, AB>>, <<<<"u">>, AB>>, <<<<"t", "a">>, <<>> :> V>>,
   <<<<"u">>, [r \in {} |-> Null]>>}
Calls == INSTANCE Triggers
  WITH Variable <- {"$x"}, FunctionTree <- FunctionsSet, Denied <- {<<"r", ".last_tx", "b">>},
       Operations <- CirclingWrites, NumberOf <- <<>>, MaxDepth <- 12,
       values <- trigValues, stack <- trigStack, saved <- trigSaved, anyFailed <- trigFailed

-----------------------------------------------------------------------------
handVars ==
  <<handNodes, handEvents, handParsed, handChannels, handSocket, handIsAlive, handSilent,
    handFilters, handFilterIds, handChannelOf, handOfType, handOfTx, handCallback, handTimers,
    handTxState, handTold, handSerial>>
syncVars ==
  <<syncState, syncLast, syncNotarized, syncPool, syncDisk, syncSync, syncAsleep, syncOutbound,
    syncReqs, syncResp, syncTip, syncFaults>>
repVars == <<repLast, repSent, repBusy, repCalls, repTxs, repLatest, repReports, repFaults>>
coldVars ==
  <<coldState, coldStateSync, coldOldSync, coldOldDone, coldAsleep, coldOldest, coldDisk,
    coldOutbound, coldSent, coldGot, coldStream, coldFaults>>
trigVars == <<trigValues, trigStack, trigSaved, trigFailed>>
allVars == <<part, vars, handVars, syncVars, repVars, coldVars, trigVars>>

\* What the part that takes steps leaves alone
Only(p) ==
  /\ part = p
  /\ UNCHANGED part
  /\ IF p = "consensus" THEN TRUE ELSE UNCHANGED vars
  /\ IF p = "filters" THEN TRUE ELSE UNCHANGED handVars
  /\ IF p = "sync" THEN TRUE ELSE UNCHANGED syncVars
  /\ IF p = "reports" THEN TRUE ELSE UNCHANGED repVars
  /\ IF p \in {"foreign", "pruned"} THEN TRUE ELSE UNCHANGED coldVars
  /\ IF p = "triggers" THEN TRUE ELSE UNCHANGED trigVars

\* The two instances of the cold start begin in the same state; a part that does not
\* run starts in one of its initial states only
ProgressInit ==
  /\ part \in Parts
  /\ Init
  /\ Filters!Init
  /\ Syncing!Init
  /\ part # "sync" => syncOutbound = {}
  /\ Reports!Init
  /\ ColdForeign!Init
  /\ Calls!Init

ProgressNext ==
  \/ Only("consensus") /\ Next
  \/ Only("filters") /\ Filters!Next
  \/ Only("sync") /\ Syncing!Next
  \/ Only("reports") /\ Reports!Next
  \/ Only("foreign") /\ ColdForeign!Next
  \/ Only("pruned") /\ ColdPruned!Next
  \/ Only("triggers") /\ Calls!Next

\* A validator that has something to do before the next epoch does it, and a write that
\* has begun goes on.
Resting ==
  CASE part = "consensus" -> Idle
    [] part = "triggers"  -> ~Calls!Running
    [] OTHER -> TRUE
StepsFairness ==
  /\ WF_vars(part = "consensus" /\ Advance)
  /\ []<>Resting \/ []<><<now' = now>>_<<vars, trigStack>>

FiltersFairness ==
  /\ WF_handVars(part = "filters" /\ Filters!Heartbeat)
  /\ WF_handVars(part = "filters" /\ handSocket[ch1] = "terminated" /\ Filters!SocketCloses(ch1))
  /\ \A f \in TwoOfOne, n \in 1..2 : WF_handVars(part = "filters" /\ Filters!FilterTimesOut(f, n))

\* A step that takes the head of a queue is told by that: its message is not left
\* waiting.  This follows from the fairness of the step itself, and is cheap to evaluate.
SyncFairness ==
  /\ WF_syncVars(part = "sync" /\ Syncing!Trigger)
  /\ WF_syncVars(part = "sync" /\ Syncing!BufferElapses)
  /\ WF_syncAsleep(part = "sync" /\ syncAsleep # <<>> /\ syncAsleep' = Tail(syncAsleep))
  /\ \A p \in {p1, p2} :
       /\ WF_syncResp(part = "sync" /\ syncResp[p] # <<>> /\ syncResp' = [syncResp EXCEPT ![p] = Tail(@)])
       /\ WF_syncReqs(part = "sync" /\ syncReqs[p] # <<>> /\ syncReqs' = [syncReqs EXCEPT ![p] = Tail(@)])
       /\ WF_syncVars(part = "sync" /\ Syncing!Connect(p))

ReportsFairness ==
  /\ WF_repVars(part = "reports" /\ Reports!Finalize)
  /\ WF_repVars(part = "reports" /\ Reports!Ask(r1))
  /\ WF_repVars(part = "reports" /\ Reports!Reply(r1))
  /\ WF_repVars(part = "reports" /\ Reports!Report(r1))
  /\ WF_repVars(part = "reports" /\ Reports!Done(r1))
  /\ WF_repTxs(part = "reports" /\ \E t \in repTxs : repTxs' = repTxs \ {t})

ColdFairness ==
  /\ WF_coldVars(part = "foreign" /\ ColdForeign!RequestSnapshotChunks)
  /\ WF_coldVars(part = "foreign" /\ ColdForeign!Wake)
  /\ \A p \in {p1, p2} : WF_coldVars(part = "foreign" /\ ColdForeign!Step(p))
  /\ WF_coldVars(part = "pruned" /\ ColdPruned!RequestSnapshotChunks)
  /\ WF_coldVars(part = "pruned" /\ ColdPruned!Wake)
  /\ \A p \in {p1, p2} : WF_coldVars(part = "pruned" /\ ColdPruned!Step(p))

ProgressSpec ==
  /\ ProgressInit /\ [][ProgressNext]_allVars
  /\ StepsFairness /\ FiltersFairness /\ SyncFairness /\ ReportsFairness /\ ColdFairness

-----------------------------------------------------------------------------
(* In a synchronous network every validator gets to finalize blocks, and   *)
(* all of them the same number (AllFinalize of Consensus).                 *)
ValidatorsFinalize == part = "consensus" => AllFinalize

(* A node that is behind gets every block that was final at a peer         *)
(* (CHAIN_SEGMENT_REQUEST), and one that started from a snapshot gets all  *)
(* the old blocks, also past a peer of another chain and past a peer that  *)
(* does not have them (handleOldChainSegment).                             *)
SyncsEnd ==
  /\ part = "sync" => Syncing!CatchesUp
  /\ ColdForeign!OldChainIsFetched
  /\ ColdPruned!OldChainIsFetched

(* Nothing waits for ever: the channel of a client that fell silent is     *)
(* closed and its filters are gone, a filter on a transaction that never   *)
(* comes is removed, every block of a shard but the last ones is reported, *)
(* whatever was lost, and every write ends, whatever functions it calls.   *)
EverythingSettles ==
  /\ Filters!SilentAreClosed
  /\ Filters!NothingWaitsForEver
  /\ part = "reports" => Reports!EveryBlockIsReported
  /\ Calls!EveryWriteEnds
=============================================================================
